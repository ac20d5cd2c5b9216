---------------------------- MODULE SocketGroups ----------------------------
(* The event loop's sockets (packages/bun-usockets/src): the intrusive lists  *)
(* of sockets and groups, the queue of low-priority handshakes, the list of   *)
(* closed sockets, and every walk over them that calls back into user code.   *)
(* One thread runs all of it. What makes it hard is re-entrancy: a callback   *)
(* may close, adopt, open or sweep while a walk further down the C stack is   *)
(* holding a pointer into the same lists. The lists are modelled pointer by   *)
(* pointer (heap) and the C stack frame by frame (stack, innermost first).    *)
EXTENDS Integers, Sequences, FiniteSets

CONSTANTS
    Sockets,        \* addresses of us_socket_t; one is never reused once freed
    Groups,         \* us_socket_group_t, embedded in their owners' storage
    Null,           \* the null pointer
    Tls,            \* the sockets that are given an SSL object when opened
    Accepted,       \* the sockets open at the start: with
                    \* their timeouts, and whether they are parked
    Lap,            \* the timeout wheel has this many ticks (240)
    LongEvery,      \* sweeps in a tick of the long wheel (15)
    LowPrioBudget,  \* MAX_LOW_PRIO_SOCKETS_PER_LOOP_ITERATION (5)
    MaxOps,         \* bound: calls into the library by user code
    MaxTicks,       \* bound: loop iterations
    MaxPolls        \* bound: events dispatched

ASSUME Bounds == /\ Null \notin Sockets \cup Groups
                 /\ IsFiniteSet(Sockets) /\ IsFiniteSet(Groups)
                 /\ Tls \subseteq Sockets
                 /\ Lap \in Nat \ {0, 1} /\ LongEvery \in Nat \ {0}
                 /\ {LowPrioBudget, MaxOps, MaxTicks, MaxPolls} \subseteq Nat

ASSUME AcceptedSockets ==
    /\ Accepted \in Seq([s : Sockets, g : Groups, timeout : 0..Lap, long : 0..Lap,
                         parked : BOOLEAN])
    /\ \A i \in DOMAIN Accepted :
         /\ Accepted[i].parked => Accepted[i].s \in Tls
         /\ \A j \in 1..i-1 : Accepted[j].s # Accepted[i].s

VARIABLES
    heap,   \* the loop's data, its groups and its sockets
    stack,  \* the C stack: the frames that will go on when a call returns
    left    \* what is left of the bounds

vars == <<heap, stack, left>>

Ptr == Sockets \cup {Null}
GroupPtr == Groups \cup {Null}
Off == Lap          \* a timeout that is not set (255)

InitHeap ==
    [ next     |-> [s \in Sockets |-> Null],
      prev     |-> [s \in Sockets |-> Null],
      group    |-> [s \in Sockets |-> Null],
      life     |-> [s \in Sockets |-> "unused"],
      semi     |-> [s \in Sockets |-> FALSE],   \* POLL_TYPE_SEMI_SOCKET
      hs       |-> [s \in Sockets |-> "init"],  \* the TLS handshake
      prio     |-> [s \in Sockets |-> 0],       \* flags.low_prio_state
      reads    |-> [s \in Sockets |-> TRUE],    \* polls for READABLE
      adopted  |-> [s \in Sockets |-> FALSE],
      timeout  |-> [s \in Sockets |-> Off],
      long     |-> [s \in Sockets |-> Off],
      head     |-> [g \in Groups |-> Null],     \* head_sockets
      listen   |-> [g \in Groups |-> Null],     \* head_listen_sockets
      iter     |-> [g \in Groups |-> Null],     \* iterator
      count    |-> [g \in Groups |-> 0],        \* low_prio_count
      linked   |-> [g \in Groups |-> FALSE],
      gnext    |-> [g \in Groups |-> Null],
      gprev    |-> [g \in Groups |-> Null],
      tick     |-> [g \in Groups |-> 0],        \* global_tick
      gone     |-> [g \in Groups |-> FALSE],    \* deinit: the owner freed it
      loopHead |-> Null, loopIter |-> Null,
      lowHead  |-> Null, closedHead |-> Null,
      sweep    |-> 0,                           \* sweep_timer_count
      budget   |-> 0,                           \* low_prio_budget
      told     |-> [s \in Sockets |-> 0],       \* on_close calls (history)
      opened   |-> {}, given |-> {} ]           \* opened; adopted away (history)

(***************************************************************************)
(* Pointers.                                                               *)
(***************************************************************************)

(* `if (p) p->f = v`. *)
Put(f, p, v) == IF p = Null THEN f ELSE [f EXCEPT ![p] = v]

(* The nodes met by following nx from p: the least set that p and nx lead into. *)
Chain(nx, p) ==
    {q \in DOMAIN nx :
       \A S \in SUBSET DOMAIN nx :
         p \in S \cup {Null} /\ (\A x \in S : nx[x] \in S \cup {Null}) => q \in S}

IsClosed(h, s) == h.life[s] \in {"closed", "freed"}

(***************************************************************************)
(* Groups on the loop, sockets on their group.                             *)
(***************************************************************************)

LinkGroup(h, g) ==
    [h EXCEPT !.gnext[g] = h.loopHead,
              !.gprev = Put([@ EXCEPT ![g] = Null], h.loopHead, g),
              !.loopHead = g,
              !.linked[g] = TRUE]

\* Mutant of UnlinkGroup: a sweep's iterator stays at the group that leaves.
UnlinkGroupStale(h, g) ==
    LET first == h.loopHead = g IN
    [h EXCEPT !.loopHead = IF first THEN h.gnext[g] ELSE @,
              !.gnext = IF first THEN @ ELSE [@ EXCEPT ![h.gprev[g]] = h.gnext[g]],
              !.gprev = Put(@, h.gnext[g], IF first THEN Null ELSE h.gprev[g]),
              !.linked[g] = FALSE]

UnlinkGroup(h, g) ==
    LET first == h.loopHead = g IN
    [h EXCEPT !.loopIter = IF @ = g THEN h.gnext[g] ELSE @,
              !.loopHead = IF first THEN h.gnext[g] ELSE @,
              !.gnext = IF first THEN @ ELSE [@ EXCEPT ![h.gprev[g]] = h.gnext[g]],
              !.gprev = Put(@, h.gnext[g], IF first THEN Null ELSE h.gprev[g]),
              !.linked[g] = FALSE]

IsEmpty(h, g) == h.head[g] = Null /\ h.listen[g] = Null /\ h.count[g] = 0

Touched(h, g) == IF h.linked[g] THEN h ELSE LinkGroup(h, g)

MaybeUnlink(h, g) == IF h.linked[g] /\ IsEmpty(h, g) THEN UnlinkGroup(h, g) ELSE h

LinkSocket(h, g, s) ==
    Touched([h EXCEPT !.group[s] = g,
                      !.next[s] = h.head[g],
                      !.prev = Put([@ EXCEPT ![s] = Null], h.head[g], s),
                      !.head[g] = s,
                      !.sweep = @ + 1], g)

\* Mutant of UnlinkSocket: the successor keeps its back pointer.
UnlinkSocketOneWay(h, g, s) ==
    LET p == h.prev[s]
        n == h.next[s]
    IN  MaybeUnlink([h EXCEPT !.iter[g] = IF @ = s THEN n ELSE @,
                              !.head[g] = IF p = Null THEN n ELSE @,
                              !.next = Put(@, p, n),
                              !.sweep = @ - 1], g)

\* Mutant of UnlinkSocket: the sweep's iterator stays at the socket that leaves.
UnlinkSocketStale(h, g, s) ==
    LET p == h.prev[s]
        n == h.next[s]
    IN  MaybeUnlink([h EXCEPT !.head[g] = IF p = Null THEN n ELSE @,
                              !.next = Put(@, p, n),
                              !.prev = Put(@, n, p),
                              !.sweep = @ - 1], g)

(* The last socket is told by prev == next: both are null. *)
UnlinkSocket(h, g, s) ==
    LET p == h.prev[s]
        n == h.next[s]
    IN  MaybeUnlink([h EXCEPT !.iter[g] = IF @ = s THEN n ELSE @,
                              !.head[g] = IF p = n THEN Null
                                          ELSE IF p = Null THEN n ELSE @,
                              !.next = IF p = n THEN @ ELSE Put(@, p, n),
                              !.prev = IF p = n THEN @ ELSE Put(@, n, p),
                              !.sweep = @ - 1], g)

OnClosedList(h, s) == [h EXCEPT !.next[s] = h.closedHead, !.closedHead = s]

(***************************************************************************)
(* The low-priority queue: TLS sockets in their handshake that found the   *)
(* budget of this iteration spent. It borrows next and prev.               *)
(***************************************************************************)

\* Mutant of Park: the group does not count the socket.
ParkUncounted(h, s) ==
    LET u == UnlinkSocket([h EXCEPT !.reads[s] = FALSE], h.group[s], s)
    IN  [u EXCEPT !.next[s] = u.lowHead,
                  !.prev = Put([@ EXCEPT ![s] = Null], u.lowHead, s),
                  !.lowHead = s,
                  !.prio[s] = 1]

Park(h, s) ==
    LET u == UnlinkSocket([h EXCEPT !.count[h.group[s]] = @ + 1,
                                    !.reads[s] = FALSE], h.group[s], s)
    IN  [u EXCEPT !.next[s] = u.lowHead,
                  !.prev = Put([@ EXCEPT ![s] = Null], u.lowHead, s),
                  !.lowHead = s,
                  !.prio[s] = 1]

LeaveQueue(h, s) ==
    MaybeUnlink([h EXCEPT !.lowHead = IF h.prev[s] = Null THEN h.next[s] ELSE @,
                          !.next = [Put(@, h.prev[s], h.next[s]) EXCEPT ![s] = Null],
                          !.prev = [Put(@, h.next[s], h.prev[s]) EXCEPT ![s] = Null],
                          !.prio[s] = 0,
                          !.count[h.group[s]] = @ - 1], h.group[s])

(* One turn of us_internal_handle_low_priority_sockets. *)
Unpark(h) ==
    LET s == h.lowHead
        q == [h EXCEPT !.lowHead = h.next[s],
                       !.prev = Put(@, h.next[s], Null),
                       !.next[s] = Null,
                       !.count[h.group[s]] = @ - 1,
                       !.budget = @ - 1,
                       !.reads[s] = TRUE,
                       !.prio[s] = 2]
    IN  IF IsClosed(h, s) THEN q ELSE LinkSocket(q, h.group[s], s)

HandleLowPriority(h) ==
    LET turn[i \in 0..LowPrioBudget] ==
            IF i = 0 THEN [h EXCEPT !.budget = LowPrioBudget]
            ELSE LET q == turn[i-1] IN IF q.lowHead = Null THEN q ELSE Unpark(q)
    IN  turn[LowPrioBudget]

(***************************************************************************)
(* Closing. A call that may call back yields a set of outcomes: the heap   *)
(* and the frames it leaves on the stack, the callback's own first.        *)
(***************************************************************************)

User == [k |-> "user"]      \* user code is running, in a task or a callback
Outcome(h, f) == [h |-> h, f |-> f]

(* Out of the lists, the fd closed, is_closed set: everything before on_close. *)
Unhook(h, s) ==
    LET u == IF h.prio[s] = 1 THEN LeaveQueue(h, s)
             ELSE UnlinkSocket(h, h.group[s], s)
    IN  [u EXCEPT !.life[s] = "closed"]

\* Mutant of CloseRaw: on_close also for a connect that was never opened.
CloseRawTells(h, s) ==
    IF IsClosed(h, s) THEN Outcome(h, <<>>)
    ELSE Outcome([Unhook(h, s) EXCEPT !.told[s] = @ + 1],
                 <<User, [k |-> "close", s |-> s]>>)

CloseRaw(h, s) ==
    IF IsClosed(h, s) THEN Outcome(h, <<>>)
    ELSE IF h.semi[s] THEN Outcome(OnClosedList(Unhook(h, s), s), <<>>)
    ELSE Outcome([Unhook(h, s) EXCEPT !.told[s] = @ + 1],
                 <<User, [k |-> "close", s |-> s]>>)

(* us_internal_ssl_close from the shutdown on: when the handshake is done, a *)
(* close that is not forced may be put off until the peer's close_notify.    *)
SslShutdown(h, s) ==
    {CloseRaw(h, s)} \cup
    IF h.hs[s] = "done" THEN {Outcome(h, <<>>)} ELSE {}

CloseSocket(h, s) ==
    IF IsClosed(h, s) \/ h.semi[s] \/ s \notin Tls THEN {CloseRaw(h, s)}
    ELSE IF h.hs[s] = "init"
         THEN {Outcome([h EXCEPT !.hs[s] = "failed"],
                       <<User, [k |-> "ssl", s |-> s]>>)}
         ELSE SslShutdown(h, s)

CloseListen(h, ls) ==
    LET g == h.group[ls] IN
    OnClosedList([MaybeUnlink([h EXCEPT !.listen[g] = Null], g)
                    EXCEPT !.life[ls] = "closed"], ls)

FreeClosed(h) ==
    LET dead == Chain(h.next, h.closedHead)
        clear(f, v) == [s \in Sockets |-> IF s \in dead THEN v ELSE f[s]]
    IN  [h EXCEPT !.life = clear(@, "freed"), !.closedHead = Null,
                  !.next = clear(@, Null), !.prev = clear(@, Null),
                  !.group = clear(@, Null), !.hs = clear(@, "init"),
                  !.prio = clear(@, 0), !.reads = clear(@, TRUE),
                  !.timeout = clear(@, Off), !.long = clear(@, Off)]

(***************************************************************************)
(* Opening and adopting.                                                   *)
(***************************************************************************)

(* What the allocator may give: which address it is makes no difference. *)
Fresh(h) == LET unused(S) == {s \in S : h.life[s] = "unused"}
                one(S) == IF S = {} THEN {} ELSE {CHOOSE s \in S : TRUE}
            IN  one(unused(Tls)) \cup one(unused(Sockets \ Tls))

OpenSocket(h, g, s, semi) ==
    LinkSocket([h EXCEPT !.life[s] = "open", !.semi[s] = semi,
                         !.opened = IF semi THEN @ ELSE @ \cup {s}], g, s)

(* The loop starts with the accepted sockets, their timeouts set. *)
Init ==
    /\ LET at[i \in 0..Len(Accepted)] ==
             IF i = 0 THEN InitHeap
             ELSE LET a == Accepted[i]
                      h == [OpenSocket(at[i-1], a.g, a.s, FALSE)
                              EXCEPT !.timeout[a.s] = a.timeout, !.long[a.s] = a.long]
                  IN  IF a.parked THEN Park(h, a.s) ELSE h
       IN  heap = at[Len(Accepted)]
    /\ stack = <<>>
    /\ left = [ops |-> MaxOps, ticks |-> MaxTicks, polls |-> MaxPolls]

(* us_socket_adopt up to the new allocation: out of the old group. *)
LeaveGroup(h, s, g) ==
    LET o == h.group[s] IN
    IF h.prio[s] # 1 THEN UnlinkSocket(h, o, s)
    ELSE IF o = g THEN h
    ELSE MaybeUnlink(Touched([h EXCEPT !.count[o] = @ - 1, !.count[g] = @ + 1], g), o)

(* us_poll_resize copies the socket to t; s stays behind, closed, pointing at t. *)
Realloc(h, s, t) ==
    LET copy(f) == [f EXCEPT ![t] = f[s]] IN
    [h EXCEPT !.next = [copy(@) EXCEPT ![s] = h.closedHead],
              !.prev = [copy(@) EXCEPT ![s] = t],
              !.life = [copy(@) EXCEPT ![s] = "closed"],
              !.group = copy(@), !.semi = copy(@), !.hs = copy(@),
              !.prio = copy(@), !.reads = copy(@),
              !.adopted[s] = TRUE,
              !.closedHead = s,
              !.opened = IF s \in @ THEN @ \cup {t} ELSE @,
              !.given = @ \cup {s}]

Adopt(h, s, g, t) ==
    LET l == LeaveGroup(h, s, g)
        m == IF t = s THEN l ELSE Realloc(l, s, t)
        n == [m EXCEPT !.group[t] = g, !.timeout[t] = Off, !.long[t] = Off]
    IN  IF n.prio[t] = 1
        THEN [n EXCEPT !.lowHead = IF n.prev[t] = Null THEN t ELSE @,
                       !.next = Put(@, n.prev[t], t),
                       !.prev = Put(@, n.next[t], t)]
        ELSE LinkSocket(n, g, t)

(***************************************************************************)
(* Steps. User code runs while a "user" frame is on top; any other frame   *)
(* on top goes on with its C function.                                     *)
(***************************************************************************)

Top == Head(stack)
At(k) == stack # <<>> /\ Top.k = k
Frames(k) == {i \in DOMAIN stack : stack[i].k = k}
Depth == Cardinality(Frames("tick"))            \* tick_depth

(* Take an outcome: its frames go on top of `below'. *)
Do(o, below) == heap' = o.h /\ stack' = o.f \o below

(* A call by user code: from a callback, or from a task before a tick. *)
Call == /\ IF stack = <<>> THEN left.ticks > 0 ELSE At("user")
        /\ left.ops > 0
        /\ left' = [left EXCEPT !.ops = @ - 1]

Alive(s) == heap.life[s] = "open"
BeingClosed(g) == \E i \in Frames("all") : stack[i].g = g
Usable(g) == ~heap.gone[g] /\ ~BeingClosed(g)

(* A callback returns; a close it was told of ends with it. *)
Return ==
    /\ At("user")
    /\ LET below == Tail(stack) IN
       IF below # <<>> /\ Head(below).k = "close"
       THEN Do(Outcome(OnClosedList(heap, Head(below).s), <<>>), Tail(below))
       ELSE Do(Outcome(heap, <<>>), below)
    /\ UNCHANGED left

us_socket_close(s) ==
    /\ Call /\ Alive(s)
    /\ \E o \in CloseSocket(heap, s) : Do(o, stack)

(* us_socket_write, us_socket_raw_write under an SSL object: bytes the kernel    *)
(* does not take at once make the socket poll for READABLE again, parked or not. *)
us_socket_write(s) ==
    /\ Call /\ Alive(s) /\ ~heap.semi[s] /\ ~heap.reads[s]
    /\ heap' = [heap EXCEPT !.reads[s] = TRUE]
    /\ UNCHANGED stack

us_socket_adopt(s, g) ==
    /\ Call /\ Alive(s) /\ Usable(g)
    /\ \E t \in {s} \cup Fresh(heap) :
         /\ t \in Tls <=> s \in Tls
         /\ Do(Outcome(Adopt(heap, s, g, t), <<>>), stack)

us_socket_timeout(s) ==
    /\ Call /\ Alive(s)
    /\ heap' = [heap EXCEPT !.timeout[s] = (heap.tick[heap.group[s]] + 1) % Lap]
    /\ UNCHANGED stack

us_socket_long_timeout(s) ==
    /\ Call /\ Alive(s)
    /\ heap' = [heap EXCEPT !.long[s] =
                  (heap.tick[heap.group[s]] \div LongEvery + 1) % Lap]
    /\ UNCHANGED stack

us_socket_group_connect(g) ==
    /\ Call /\ Usable(g)
    /\ \E s \in Fresh(heap) : Do(Outcome(OpenSocket(heap, g, s, TRUE), <<>>), stack)

us_socket_group_listen(g) ==
    /\ Call /\ Usable(g) /\ heap.listen[g] = Null
    /\ \E s \in Fresh(heap) :
         heap' = Touched([heap EXCEPT !.life[s] = "listen", !.semi[s] = TRUE,
                                      !.group[s] = g, !.listen[g] = s], g)
    /\ UNCHANGED stack

us_listen_socket_close(g) ==
    /\ Call /\ heap.listen[g] # Null
    /\ heap' = CloseListen(heap, heap.listen[g])
    /\ UNCHANGED stack

us_socket_group_close_all(g) ==
    /\ Call /\ ~heap.gone[g]
    /\ LET h == IF heap.listen[g] = Null THEN heap
                ELSE CloseListen(heap, heap.listen[g])
       IN  Do(Outcome(h, <<[k |-> "all", g |-> g, phase |-> "walk",
                            cur |-> h.head[g], ticked |-> FALSE]>>), stack)

(* The owner frees the group's storage; it keeps what the assertions ask of *)
(* it, and does not do so under its own close_all.                          *)
us_socket_group_deinit(g) ==
    /\ Call /\ Usable(g) /\ IsEmpty(heap, g) /\ heap.iter[g] = Null
    /\ LET h == IF heap.linked[g] THEN UnlinkGroup(heap, g) ELSE heap
       IN  heap' = [h EXCEPT !.gone[g] = TRUE]
    /\ UNCHANGED stack

(***************************************************************************)
(* The loop. A tick handles the low-priority queue, dispatches ready polls *)
(* and frees the closed sockets if it is not nested. Ready polls are one   *)
(* buffer of the loop, so a nested tick ends the dispatch of the outer one.*)
(* A close_all and a sweep record (history) that it was ticked under them. *)
(***************************************************************************)

Under(f) == CASE f.k = "tick" -> [f EXCEPT !.live = FALSE]
              [] f.k \in {"all", "sweep"} -> [f EXCEPT !.ticked = TRUE]
              [] OTHER        -> f

BeginTick ==
    /\ left.ticks > 0
    /\ \/ stack = <<>>
       \/ At("user") /\ Depth > 0
    /\ left' = [left EXCEPT !.ticks = @ - 1]
    /\ heap' = HandleLowPriority(heap)
    /\ stack' = <<[k |-> "tick", live |-> TRUE]>> \o [i \in DOMAIN stack |-> Under(stack[i])]

\* Mutant of MayFree: nested ticks free the closed sockets too.
MayFreeAlways == TRUE

MayFree == Depth <= 1

EndTick ==
    /\ At("tick")
    /\ heap' = IF MayFree THEN FreeClosed(heap) ELSE heap
    /\ stack' = Tail(stack)
    /\ UNCHANGED left

(* What the kernel may report of a socket, in the order the dispatch takes it. *)
(* "read" finds data, "fin" the end of the stream; "end" is on_end; "close" is *)
(* the close after it, an error, or the FIN that answers ours. (A half-open    *)
(* end calls back and goes on, as a write does.)                               *)
Events(h, s) ==
    IF h.reads[s] THEN {<<"write", "read">>, <<"write", "read", "end", "close">>,
                        <<"fin", "end", "close">>, <<"close">>}
    ELSE {<<"write">>, <<"end", "close">>}

Poll(s, todo) == [k |-> "poll", s |-> s, todo |-> todo, hop |-> TRUE]

Ready == /\ At("tick") /\ Top.live /\ left.polls > 0
         /\ left' = [left EXCEPT !.polls = @ - 1]

DispatchSocket(s) ==
    /\ Ready /\ Alive(s) /\ ~heap.semi[s]
    /\ \E e \in Events(heap, s) : Do(Outcome(heap, <<Poll(s, e)>>), stack)

(* us_internal_socket_after_open of a connect without a us_connecting_socket_t. *)
DispatchConnect(s) ==
    /\ Ready /\ Alive(s) /\ heap.semi[s]
    /\ \E ok \in BOOLEAN :
         heap' = IF ok THEN [heap EXCEPT !.semi[s] = FALSE, !.timeout[s] = Off,
                                         !.opened = @ \cup {s}]
                 ELSE heap
    /\ stack' = <<User>> \o stack

Accept(ls, below) ==
    \E s \in Fresh(heap) :
      Do(Outcome(OpenSocket(heap, heap.group[ls], s, FALSE),
                 <<User, [k |-> "accept", ls |-> ls, s |-> s]>>), below)

DispatchListen(ls) == /\ Ready /\ heap.life[ls] = "listen"
                      /\ Accept(ls, stack)

(* After on_open: with a deferred accept the data is there already and is   *)
(* dispatched before the next turn of the accept loop.                      *)
Hop(s) == IF heap.adopted[s] /\ heap.prev[s] # Null THEN heap.prev[s] ELSE s

AcceptGoesOn ==
    /\ At("accept")
    /\ UNCHANGED left
    /\ LET s == Top.s IN
       \/ /\ s # Null /\ ~IsClosed(heap, Hop(s))
          /\ Do(Outcome(heap, <<Poll(Hop(s), <<"read">>),
                                [Top EXCEPT !.s = Null]>>), Tail(stack))
       \/ ~IsClosed(heap, Top.ls) /\ Accept(Top.ls, Tail(stack))
       \/ Do(Outcome(heap, <<>>), Tail(stack))

(***************************************************************************)
(* us_internal_dispatch_ready_poll of a socket, stage by stage. After the  *)
(* callbacks of "write" and "read" it follows the socket to its new address*)
(* and stops if it is closed.                                              *)
(***************************************************************************)

(* A readable socket still in its TLS handshake is parked when the budget is   *)
(* spent. When it is not, reading may finish the handshake.                    *)
LowPrio(h, s) == s \in Tls /\ h.hs[s] # "done"

Parks(h, s) == LowPrio(h, s) /\ h.prio[s] # 2 /\ h.budget = 0

Admitted(h, s) ==
    IF ~LowPrio(h, s) THEN {h}
    ELSE LET a == IF h.prio[s] = 2 THEN [h EXCEPT !.prio[s] = 0]
                  ELSE [h EXCEPT !.budget = @ - 1]
         IN  {a, [a EXCEPT !.hs[s] = "done"]}

(* Nothing asks whether it is parked already. Parked again it is unlinked from  *)
(* a group list it is not on, with the links of the queue: the lists are broken *)
(* and what the loop does from there is not modelled. A frame no step takes off *)
(* the stack ends the behaviour.                                                *)
ParkAgain(h, s) == Outcome(Park(h, s), IF h.prio[s] = 1 THEN <<[k |-> "reparked"]>> ELSE <<>>)

PollGoesOn ==
    /\ At("poll")
    /\ UNCHANGED left
    /\ LET s    == IF Top.hop THEN Hop(Top.s) ELSE Top.s
           rest == [Top EXCEPT !.s = s, !.todo = Tail(@), !.hop = TRUE]
           stop == Do(Outcome(heap, <<>>), Tail(stack))
       IN  IF Top.todo = <<>> \/ IsClosed(heap, s) THEN stop
           ELSE CASE Head(Top.todo) = "write" ->
                       Do(Outcome(heap, <<User, rest>>), Tail(stack))
                  [] Head(Top.todo) \in {"read", "fin"} ->
                       LET run == IF Head(Top.todo) = "read" THEN <<User, rest>>
                                  ELSE <<rest>>
                       IN  IF Parks(heap, s)
                           THEN Do(ParkAgain(heap, s), Tail(stack))
                           ELSE \E h \in Admitted(heap, s) :
                                  Do(Outcome(h, run), Tail(stack))
                  [] Head(Top.todo) = "end" ->
                       \E o \in IF s \in Tls THEN CloseSocket(heap, s)
                                ELSE {Outcome(heap, <<User>>)} :
                         Do(o, <<[rest EXCEPT !.hop = FALSE]>> \o Tail(stack))
                  [] OTHER -> Do(CloseRaw(heap, s), Tail(stack))

(* us_internal_ssl_close after on_handshake. *)
SslGoesOn ==
    /\ At("ssl")
    /\ UNCHANGED left
    /\ IF IsClosed(heap, Top.s) THEN Do(Outcome(heap, <<>>), Tail(stack))
       ELSE \E o \in SslShutdown(heap, Top.s) : Do(o, Tail(stack))

(* A connect under way in close_all, after on_connect_error. *)
SemiGoesOn == /\ At("semi")
              /\ Do(CloseRaw(heap, Top.s), Tail(stack))
              /\ UNCHANGED left

(***************************************************************************)
(* us_socket_group_close_all_ex: a graceful walk with a cached successor,  *)
(* a forced drain of what the walk left, and a walk of the queue.          *)
(***************************************************************************)

Walked(f) == f.phase = "force" \/ (f.phase = "walk" /\ f.cur = Null)
\* Mutant of Survivors: no forced drain after the graceful walk.
SurvivorsIgnored(h, g) == FALSE
Survivors(h, g) == h.head[g] # Null

CloseAllGoesOn ==
    /\ At("all")
    /\ UNCHANGED left
    /\ LET f == Top
           s == f.cur
           below(frame) == <<frame>> \o Tail(stack)
       IN  CASE f.phase = "walk" /\ s # Null /\ heap.semi[s] ->
                  Do(Outcome(heap, <<User, [k |-> "semi", s |-> s]>>),
                     below([f EXCEPT !.cur = heap.next[s]]))
             [] f.phase = "walk" /\ s # Null /\ ~heap.semi[s] ->
                  \E o \in CloseSocket(heap, s) :
                    Do(o, below([f EXCEPT !.cur = heap.next[s]]))
             [] Walked(f) /\ Survivors(heap, f.g) ->
                  Do(CloseRaw(heap, heap.head[f.g]), below([f EXCEPT !.phase = "force"]))
             [] Walked(f) /\ ~Survivors(heap, f.g) /\ heap.count[f.g] # 0 ->
                  Do(Outcome(heap, <<>>),
                     below([f EXCEPT !.phase = "queue", !.cur = heap.lowHead]))
             [] f.phase = "queue" /\ s # Null ->
                  \E o \in IF heap.group[s] = f.g THEN CloseSocket(heap, s)
                           ELSE {Outcome(heap, <<>>)} :
                    Do(o, below([f EXCEPT !.cur = heap.next[s]]))
             [] OTHER -> Do(Outcome(heap, <<>>), Tail(stack))

(***************************************************************************)
(* us_internal_timer_sweep.                                                *)
(***************************************************************************)

ShortTick(h, g) == h.tick[g] % Lap
LongTick(h, g) == (h.tick[g] \div LongEvery) % Lap
Due(h, g, s) == \/ h.timeout[s] = ShortTick(h, g)
                \/ h.long[s] = LongTick(h, g)

NextGroup == [k |-> "sweep", at |-> "group", g |-> Null, s |-> Null, ticked |-> FALSE]

(* `This functions should never run recursively': user code is trusted not to *)
(* keep a tick nested in a timeout callback until the timer expires again.    *)
SweepTimer ==
    /\ Ready /\ heap.sweep > 0
    /\ Frames("sweep") = {}
    /\ heap' = [heap EXCEPT !.loopIter = heap.loopHead]
    /\ stack' = <<NextGroup>> \o stack

FirstDue(h, g, p) ==
    LET seek == Chain([s \in Sockets |-> IF Due(h, g, s) THEN Null ELSE h.next[s]], p)
    IN  {s \in seek : Due(h, g, s)}

(* Emit the timeout of the next socket of g that is due, from p on, or leave the *)
(* group.                                                                        *)
Seek(h, g, p, ticked) ==
    IF FirstDue(h, g, p) = {}
    THEN Outcome([h EXCEPT !.iter[g] = Null, !.loopIter = h.gnext[g]], <<NextGroup>>)
    ELSE LET s == CHOOSE s \in FirstDue(h, g, p) : TRUE
             f == [k |-> "sweep", at |-> "short", g |-> g, s |-> s, ticked |-> ticked]
             i == [h EXCEPT !.iter[g] = s]
         IN  IF h.timeout[s] = ShortTick(h, g)
             THEN Outcome([i EXCEPT !.timeout[s] = Off], <<User, f>>)
             ELSE Outcome(i, <<f>>)

(* Begin the group the loop's iterator is at: the handler may have moved it. *)
SweepGroup ==
    LET i == heap.loopIter
        h == [heap EXCEPT !.tick[i] = @ + 1]
    IN  IF i = Null THEN Outcome(heap, <<>>) ELSE Seek(h, i, h.head[i], FALSE)

SweepGoesOn ==
    /\ At("sweep")
    /\ UNCHANGED left
    /\ LET g == Top.g
           s == Top.s
       IN  Do(IF Top.at = "group" \/ heap.loopIter # g THEN SweepGroup
              ELSE IF Top.at = "short" /\ heap.iter[g] = s /\ heap.long[s] = LongTick(heap, g)
              THEN Outcome([heap EXCEPT !.long[s] = Off],
                           <<User, [Top EXCEPT !.at = "long"]>>)
              ELSE Seek(heap, g, IF heap.iter[g] = s THEN heap.next[s] ELSE heap.iter[g],
                        Top.ticked),
              Tail(stack))

Calls == \/ \E s \in Sockets : \/ us_socket_close(s) \/ us_socket_write(s)
                               \/ \E g \in Groups : us_socket_adopt(s, g)
                               \/ us_socket_timeout(s) \/ us_socket_long_timeout(s)
         \/ \E g \in Groups : \/ us_socket_group_connect(g)
                              \/ us_socket_group_listen(g)
                              \/ us_listen_socket_close(g)
                              \/ us_socket_group_close_all(g)
                              \/ us_socket_group_deinit(g)

Kernel == \/ \E s \in Sockets : DispatchSocket(s) \/ DispatchConnect(s) \/ DispatchListen(s)
          \/ SweepTimer

GoesOn == \/ PollGoesOn \/ AcceptGoesOn \/ SslGoesOn \/ SemiGoesOn
          \/ CloseAllGoesOn \/ SweepGoesOn

Next == Return \/ Calls \/ BeginTick \/ EndTick \/ Kernel \/ GoesOn

Spec == Init /\ [][Next]_vars

(***************************************************************************)
(* Properties.                                                             *)
(***************************************************************************)

(* A parked socket has just been parked again. libusockets.h:276 has a group    *)
(* count the "sockets currently parked": this one counts twice, the queue has  *)
(* lost its order, and none of what follows is promised from here on.          *)
ParkedTwice == At("reparked")

(* Until a parked socket is parked again, pointers are null or sockets, the *)
(* counters never go below zero, and the budget of low-priority handshakes  *)
(* is never overdrawn.                                                      *)
TypeOK == ~ParkedTwice =>
    /\ DOMAIN heap = DOMAIN InitHeap
    /\ \A f \in {heap.next, heap.prev} : f \in [Sockets -> Ptr]
    /\ heap.life \in [Sockets -> {"unused", "open", "listen", "closed", "freed"}]
    /\ heap.prio \in [Sockets -> 0..2]
    /\ \A f \in {heap.head, heap.listen, heap.iter} : f \in [Groups -> Ptr]
    /\ \A f \in {heap.gnext, heap.gprev} : f \in [Groups -> GroupPtr]
    /\ {heap.loopHead, heap.loopIter} \subseteq GroupPtr
    /\ {heap.lowHead, heap.closedHead} \subseteq Ptr
    /\ heap.sweep \in Nat /\ heap.budget \in 0..LowPrioBudget
    /\ heap.count \in [Groups -> Nat]
    /\ \A i \in DOMAIN stack : stack[i].k \in
         {"user", "tick", "poll", "accept", "close", "ssl", "semi", "all", "sweep"}

(* The list from p runs through exactly the nodes of S, once each. *)
Lists(nx, p, S) ==
    /\ Chain(nx, p) = S
    /\ \A x \in S : nx[x] # Null => nx[x] # p /\ \A y \in S \ {x} : nx[y] # nx[x]

(* ... and its back pointers agree with it. *)
BothWays(nx, pv, p, S) ==
    /\ Lists(nx, p, S)
    /\ p # Null => pv[p] = Null
    /\ \A x \in S : nx[x] # Null => pv[nx[x]] = x

OnGroup(g) == {s \in Sockets : Alive(s) /\ heap.group[s] = g /\ heap.prio[s] # 1}
Parked == {s \in Sockets : Alive(s) /\ heap.prio[s] = 1}
Closing == {stack[i].s : i \in Frames("close")}

(* Until a parked socket is parked again, and whatever else callbacks do in   *)
(* the middle of whatever walk, an open socket is on the list of its group or,*)
(* while parked, on the low-priority queue; a closed one is on the closed list*)
(* as soon as its on_close has returned; a group is on the loop exactly while *)
(* it has a socket; and all these lists are well formed, back pointers        *)
(* included.                                                                  *)
ListsAreExact == ~ParkedTwice =>
    /\ \A g \in Groups : BothWays(heap.next, heap.prev, heap.head[g], OnGroup(g))
    /\ BothWays(heap.next, heap.prev, heap.lowHead, Parked)
    /\ Lists(heap.next, heap.closedHead,
             {s \in Sockets : heap.life[s] = "closed"} \ Closing)
    /\ BothWays(heap.gnext, heap.gprev, heap.loopHead,
                {g \in Groups : heap.linked[g]})
    /\ \A g \in Groups : heap.linked[g] <=> ~IsEmpty(heap, g)

(* The counters the emptiness test and the sweep timer rest on: a group counts *)
(* its parked sockets, the loop the sockets the sweep has to visit. A count     *)
(* that is off leaves a group linked for ever, lets its owner free it too       *)
(* early, or stops the timer under sockets that wait for a timeout. Parking a   *)
(* parked socket breaks it (ParkedTwice): the claim is up to there.             *)
CountsAreExact == ~ParkedTwice =>
    /\ \A g \in Groups : heap.count[g] = Cardinality({s \in Parked : heap.group[s] = g})
    /\ heap.sweep = Cardinality(UNION {OnGroup(g) : g \in Groups})

(* What the frames of the C stack will still dereference. A sweep looks at    *)
(* its socket only if the loop's iterator is still at its group.              *)
HeldBy(f) ==
    CASE f.k = "poll"   -> {f.s} \cup IF heap.adopted[f.s] THEN {heap.prev[f.s]} ELSE {}
      [] f.k = "accept" -> {f.s, f.ls}
      [] f.k \in {"close", "ssl", "semi"} -> {f.s}
      [] f.k = "all"    -> {f.cur}
      [] f.k = "sweep" /\ f.at # "group" /\ heap.loopIter = f.g ->
                           {f.s, heap.iter[f.g]}
      [] OTHER          -> {}

(* No walk, dispatch or close that a callback interrupted holds a pointer to  *)
(* a socket that has been freed in the meantime: closed sockets are freed     *)
(* after the outermost tick only. (Until a parked socket is parked again.)    *)
NothingDangles == ~ParkedTwice =>
    \A i \in DOMAIN stack : \A s \in HeldBy(stack[i]) \ {Null} : heap.life[s] # "freed"

(* Nothing leads to the storage of a group its owner has freed: not the       *)
(* loop's list, not the sweep that was visiting it, not an open socket.       *)
(* (Until a parked socket is parked again.)                                   *)
FreedGroupsAreForgotten == ~ParkedTwice =>
    \A g \in Groups : heap.gone[g] =>
      /\ ~heap.linked[g] /\ heap.loopIter # g
      /\ g \notin Chain(heap.gnext, heap.loopHead)
      /\ \A s \in Sockets : heap.life[s] \in {"open", "listen"} => heap.group[s] # g

(* on_close is called once for a socket that was opened, before it is freed,  *)
(* and for no other; the old address of an adopted socket is freed without    *)
(* it. (Until a parked socket is parked again.)                               *)
EachCloseIsTold == ~ParkedTwice =>
    \A s \in Sockets :
      heap.told[s] = IF s \in heap.opened \ heap.given /\ IsClosed(heap, s)
                     THEN 1 ELSE 0

(* When a sweep is done with a group, no socket on the group's list is left   *)
(* with an expired timeout, whatever the timeout callbacks did to the list.   *)
(* (A tick that one of them nests brings sockets back from the low-priority   *)
(* queue, at the head of the list and so behind the sweep. No step is taken   *)
(* once a parked socket is parked again.)                                     *)
LeavesGroup(g) == /\ At("sweep") /\ ~Top.ticked
                  /\ heap.loopIter = g
                  /\ stack'[1].k = "sweep" /\ stack'[1].at = "group"
SweepLeavesNoneDue ==
    [][\A g \in Groups : LeavesGroup(g) =>
         \A s \in OnGroup(g)' : ~Due(heap', g, s)]_vars

(* When close_all returns, its group has no listener and no socket on its     *)
(* list, TLS sockets that put off their close included: the caller frees the  *)
(* group next. (CloseAllDrainsTheQueue is about its parked sockets; a tick    *)
(* that user code nests under the close_all brings them back on the list. No  *)
(* step is taken once a parked socket is parked again.)                       *)
Finishes(g) == At("all") /\ Top.g = g /\ ~Top.ticked /\ stack' = Tail(stack)
CloseAllLeavesNoSocket ==
    [][\A g \in Groups : Finishes(g) =>
         heap'.head[g] = Null /\ heap'.listen[g] = Null]_vars

(* context.c asserts, after its walk of the queue, that the group has no parked *)
(* socket left: "The cached `next` survives the close because that branch       *)
(* rewires the list before dispatch."                                           *)
CloseAllDrainsTheQueue ==
    At("all") /\ Top.phase = "queue" /\ Top.cur = Null => heap.count[Top.g] = 0
=============================================================================
