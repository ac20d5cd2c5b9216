----------------------------- MODULE Connecting -----------------------------
(* A connect by host name: us_connecting_socket_t (packages/bun-usockets/src, *)
(* context.c, socket.c, loop.c) and the process-wide cache of DNS requests it *)
(* waits on (runtime/dns_jsc/dns.zig, `internal'). Three kinds of actors meet *)
(* here: the loops (the JavaScript thread's and the HTTP thread's) share the  *)
(* cache, workers resolve names and queue the connects that wait on the loops *)
(* they belong to, and the kernel settles the attempts. A connect may be      *)
(* closed at any time, by user code in any callback.                          *)
EXTENDS Integers, Sequences, FiniteSets

CONSTANTS
    Loops,          \* event loops, one thread each
    Conns,          \* addresses of us_connecting_socket_t, never reused
    Reqs,           \* addresses of Request, never reused
    Null,           \* the null pointer
    Hosts,          \* host names
    MaxAddrs,       \* bound: addresses a name resolves to
    Concurrent,     \* CONCURRENT_CONNECTIONS (4)
    MaxEntries,     \* GlobalCache.MAX_ENTRIES (256)
    MaxOps          \* bound: calls into the library by user code

ASSUME Bounds == /\ Null \notin Loops \cup Conns \cup Reqs
                 /\ IsFiniteSet(Loops) /\ IsFiniteSet(Conns)
                 /\ {MaxAddrs, Concurrent, MaxEntries} \subseteq Nat \ {0}
                 /\ MaxOps \in Nat

VARIABLES
    mem,    \* connects, requests, the cache and the loops' data
    stack,  \* the C stack of each loop's thread, innermost frame first
    left    \* what is left of MaxOps

vars == <<mem, stack, left>>

Addrs == 1..MaxAddrs

(***************************************************************************)
(* Data.                                                                   *)
(***************************************************************************)

NoAttempts == [i \in Addrs |-> "none"]

(* us_connecting_socket_t. An attempt is named by the index of its address; *)
(* the ones in connecting_head are those the kernel or the loop still owes. *)
NoConn ==
    [ life    |-> "unused",  \* "live", then "dead" (closed_connecting_head), "freed"
      loop    |-> Null,
      req     |-> Null,      \* addrinfo_req
      pending |-> FALSE,     \* pending_resolve_callback
      closed  |-> FALSE,
      linked  |-> FALSE,     \* group # NULL
      np      |-> Null,      \* next_pending
      pp      |-> Null,      \* prev_pending
      addr    |-> 0,         \* addrinfo_head
      own     |-> FALSE,     \* queued by its own loop (history)
      att     |-> NoAttempts,
      told    |-> 0 ]        \* on_open and on_connecting_error calls (history)

(* Request, and what its worker is doing. *)
NoReq ==
    [ life   |-> "unused",
      host   |-> Null,
      result |-> -1,         \* null; else 0, an error; else how many addresses
      notify |-> {},
      refs   |-> 0,
      valid  |-> TRUE,
      old    |-> FALSE,      \* older than the time to live
      moved  |-> {},         \* the worker's own copy of notify
      wakes  |-> Null ]      \* the loop the worker is about to wake

InitMem ==
    [ conn  |-> [c \in Conns |-> NoConn],
      req   |-> [r \in Reqs |-> NoReq],
      cache |-> {},
      ready |-> [l \in Loops |-> <<>>],    \* dns_ready_head
      head  |-> [l \in Loops |-> Null],    \* head_connecting_sockets of its group
      wake  |-> [l \in Loops |-> FALSE],   \* wakeup_async was signalled
      keep  |-> [l \in Loops |-> 0] ]      \* the connects' share of num_polls

Init == /\ mem = InitMem
        /\ stack = [l \in Loops |-> <<>>]
        /\ left = MaxOps

Resolved(m, r) == m.req[r].result # -1
Trying(m, c) == {i \in Addrs : m.conn[c].att[i] # "none"}

(***************************************************************************)
(* The cache of requests. All of it runs under the cache's lock.           *)
(***************************************************************************)

IsNearlyFull(m) == Cardinality(m.cache) * 5 >= MaxEntries * 4

Deinit(m, r) == [m EXCEPT !.req[r] = [NoReq EXCEPT !.life = "freed"],
                          !.cache = @ \ {r}]

freeaddrinfo(m, r, err) ==
    LET n == [m EXCEPT !.req[r].valid = @ /\ ~err, !.req[r].refs = @ - 1]
    IN  IF n.req[r].refs = 0 /\ (IsNearlyFull(n) \/ ~n.req[r].valid)
        THEN Deinit(n, r) ELSE n

(* The entry that answers for a host, if it has one. *)
Entry(m, h) == {r \in m.cache : m.req[r].host = h /\ m.req[r].valid}
IsExpired(m, r) == Resolved(m, r) /\ m.req[r].old

(* GlobalCache.get drops the entries it finds expired. *)
DropExpired(m, h) ==
    LET E == {r \in Entry(m, h) : IsExpired(m, r)}
        dead == {r \in E : m.req[r].refs = 0}
    IN  [m EXCEPT !.req = [r \in Reqs |->
                             IF r \in dead THEN [NoReq EXCEPT !.life = "freed"]
                             ELSE [m.req[r] EXCEPT !.valid = @ /\ r \notin E]],
                  !.cache = @ \ dead]

\* Mutant of TryPush: evicts whatever is there.
TryPushAny(m, r) ==
    {[n EXCEPT !.cache = @ \cup {r}] :
       n \in IF Cardinality(m.cache) < MaxEntries THEN {m}
             ELSE {Deinit(m, e) : e \in m.cache}}

(* tryPush: the states after it; a full cache evicts a request nobody holds. *)
TryPush(m, r) ==
    LET idle == {e \in m.cache : m.req[e].refs = 0}
        put(n) == [n EXCEPT !.cache = @ \cup {r}]
    IN  IF Cardinality(m.cache) < MaxEntries THEN {put(m)}
        ELSE IF idle = {} THEN {m}
        ELSE {put(Deinit(m, e)) : e \in idle}

(* What the allocator may give, and what names user code may ask for: which *)
(* of the unused ones it is makes no difference.                            *)
AnyOne(S) == IF S = {} THEN {} ELSE {CHOOSE x \in S : TRUE}
FreshReq(m) == AnyOne({r \in Reqs : m.req[r].life = "unused"})
FreshConn(m) == AnyOne({c \in Conns : m.conn[c].life = "unused"})
Names(m) == LET known == {m.req[r].host : r \in Reqs} \cap Hosts
            IN  known \cup AnyOne(Hosts \ known)

(* getaddrinfo by `holders' holders (none for a prefetch): what it returns, *)
(* whether that is a result already, and the state.                         *)
GetAddrInfo(m, h, holders) ==
    LET d == DropExpired(m, h) IN
    IF Entry(d, h) # {}
    THEN {[m |-> [d EXCEPT !.req[r].refs = @ + holders], r |-> r,
           hit |-> Resolved(d, r)] : r \in Entry(d, h)}
    ELSE UNION {{[m |-> n, r |-> r, hit |-> FALSE] :
                   n \in TryPush([d EXCEPT !.req[r] =
                           [NoReq EXCEPT !.life = "live", !.host = h,
                                         !.refs = holders + 1]], r)} :
                r \in FreshReq(d)}

(* us_internal_dns_callback: under the loop's lock, and without waking it. *)
DnsCallback(m, c) == [m EXCEPT !.ready[m.conn[c].loop] = <<c>> \o @]

us_getaddrinfo_set(m, r, c) ==
    IF Resolved(m, r) THEN DnsCallback([m EXCEPT !.conn[c].own = TRUE], c)
    ELSE [m EXCEPT !.req[r].notify = @ \cup {c}]

\* Mutant of Cancellable: the result is not looked at.
CancellableAlways(m, r, c) == TRUE

Cancellable(m, r, c) == ~Resolved(m, r) /\ c \in m.req[r].notify

(***************************************************************************)
(* Connects on their group. Each loop has one group here.                  *)
(***************************************************************************)

\* Mutant of LinkConnecting: the old head gets no back pointer.
LinkConnectingOneWay(m, l, c) ==
    [m EXCEPT !.conn[c].np = m.head[l], !.conn[c].pp = Null,
              !.conn[c].linked = TRUE, !.head[l] = c]

LinkConnecting(m, l, c) ==
    LET h == m.head[l]
        n == [m EXCEPT !.conn[c].np = h, !.conn[c].pp = Null,
                       !.conn[c].linked = TRUE, !.head[l] = c]
    IN  IF h = Null THEN n ELSE [n EXCEPT !.conn[h].pp = c]

(* The last one is told by prev == next. *)
UnlinkConnecting(m, l, c) ==
    LET p == m.conn[c].pp
        n == m.conn[c].np
        fwd == IF p = Null THEN [m EXCEPT !.head[l] = n]
               ELSE [m EXCEPT !.conn[p].np = n]
    IN  IF p = n THEN [m EXCEPT !.head[l] = Null]
        ELSE IF n = Null THEN fwd ELSE [fwd EXCEPT !.conn[n].pp = p]

Detach(m, c) ==
    IF ~m.conn[c].linked THEN m
    ELSE [UnlinkConnecting(m, m.conn[c].loop, c) EXCEPT !.conn[c].linked = FALSE]

us_connecting_socket_free(m, c) ==
    [Detach(m, c) EXCEPT !.conn[c].life = "dead"]

(***************************************************************************)
(* Closing. An outcome is a state and the frames left on the stack.        *)
(***************************************************************************)

User == [k |-> "user"]      \* user code is running in a callback
Outcome(m, f) == [m |-> m, f |-> f]

(* The connect ends with on_connecting_error, and what follows the callback: *)
(* us_connecting_socket_free, or only the detaching from the group.          *)
TellError(m, c, then) ==
    Outcome([m EXCEPT !.conn[c].told = @ + 1], <<User, [k |-> then, c |-> c]>>)

\* Mutant of us_connecting_socket_close: a close that comes too late to cancel
\* leaves the keep-alive to the resolve callback.
CloseKeepsAlive(m, c) ==
    LET r == m.conn[c].req
        a == [m EXCEPT !.conn[c].closed = TRUE, !.conn[c].att = NoAttempts]
        drop(n) == [freeaddrinfo(n, r, FALSE) EXCEPT !.conn[c].req = Null]
    IN  IF m.conn[c].closed THEN Outcome(m, <<>>)
        ELSE IF m.conn[c].pending
        THEN IF Cancellable(m, r, c)
             THEN TellError(drop([a EXCEPT !.req[r].notify = @ \ {c},
                                           !.keep[m.conn[c].loop] = @ - 1,
                                           !.conn[c].pending = FALSE]), c, "free")
             ELSE TellError(a, c, "detach")
        ELSE TellError(IF r = Null THEN a ELSE drop(a), c, "free")

us_connecting_socket_close(m, c) ==
    LET r == m.conn[c].req
        a == [m EXCEPT !.conn[c].closed = TRUE,
                       !.conn[c].att = NoAttempts]
        b == [a EXCEPT !.keep[m.conn[c].loop] = @ - 1]
        drop(n) == [freeaddrinfo(n, r, FALSE) EXCEPT !.conn[c].req = Null]
    IN  IF m.conn[c].closed THEN Outcome(m, <<>>)
        ELSE IF m.conn[c].pending
        THEN IF Cancellable(m, r, c)
             THEN TellError(drop([b EXCEPT !.req[r].notify = @ \ {c},
                                           !.conn[c].pending = FALSE]), c, "free")
             ELSE TellError(b, c, "detach")
        ELSE TellError(IF r = Null THEN a ELSE drop(a), c, "free")

(***************************************************************************)
(* Attempts.                                                               *)
(***************************************************************************)

(* start_connections: try the addresses in turn until `count' sockets were *)
(* made; the ones the kernel gives no socket for are passed over.          *)
StartConnections(m, c, count) ==
    LET from == m.conn[c].addr
        n == m.req[m.conn[c].req].result
        stops(S, to) == IF Cardinality(S) = count THEN to - 1 \in S ELSE to = n + 1
    IN  {[m EXCEPT !.conn[c].addr = x[2],
                   !.conn[c].att = [i \in Addrs |-> IF i \in x[1] THEN "pending"
                                                    ELSE @[i]]] :
         x \in {x \in (SUBSET (from..n)) \X (from..n+1) :
                  /\ x[1] \subseteq from..x[2]-1
                  /\ Cardinality(x[1]) <= count
                  /\ stops(x[1], x[2])}}

(* A connect whose attempts have all failed is closed. *)
OrClose(m, c) == IF Trying(m, c) = {} THEN us_connecting_socket_close(m, c)
                 ELSE Outcome(m, <<>>)

us_internal_socket_after_resolve(m, c) ==
    LET r == m.conn[c].req
        a == [m EXCEPT !.conn[c].pending = FALSE, !.conn[c].own = FALSE]
        b == [a EXCEPT !.keep[m.conn[c].loop] = @ - 1]
    IN  IF m.conn[c].closed
        THEN {Outcome(us_connecting_socket_free(
                [freeaddrinfo(a, r, FALSE) EXCEPT !.conn[c].req = Null], c), <<>>)}
        ELSE IF m.req[r].result = 0 THEN {us_connecting_socket_close(b, c)}
        ELSE {OrClose(n, c) : n \in StartConnections([b EXCEPT !.conn[c].addr = 1],
                                                     c, Concurrent)}

\* Mutant of AttemptFailed: a connect without another address is not closed.
AttemptFailedStuck(m, c, i) ==
    LET a == [m EXCEPT !.conn[c].att[i] = "none"]
    IN  {Outcome(n, <<>>) : n \in StartConnections(a, c, Concurrent)}

AttemptFailed(m, c, i) ==
    LET a == [m EXCEPT !.conn[c].att[i] = "none"]
        rest == Cardinality(Trying(a, c))
    IN  IF rest > 1 THEN {Outcome(a, <<>>)}
        ELSE {OrClose(n, c) : n \in StartConnections(a, c, IF rest = 0 THEN Concurrent
                                                           ELSE 1)}

\* Mutant of AttemptOpened: the other attempts are left to themselves.
AttemptOpenedAlone(m, c) ==
    Outcome(us_connecting_socket_free(
              freeaddrinfo([m EXCEPT !.conn[c].told = @ + 1], m.conn[c].req, FALSE), c),
            <<User>>)

(* The first attempt to open wins; the others are closed, the connect freed. *)
AttemptOpened(m, c) ==
    LET a == [m EXCEPT !.conn[c].att = NoAttempts, !.conn[c].told = @ + 1]
    IN  Outcome(us_connecting_socket_free(freeaddrinfo(a, m.conn[c].req, FALSE), c),
                <<User>>)

(***************************************************************************)
(* Steps of a loop's thread.                                               *)
(***************************************************************************)

Top(l) == Head(stack[l])
At(l, k) == stack[l] # <<>> /\ Top(l).k = k
Frames(l, k) == {i \in DOMAIN stack[l] : stack[l][i].k = k}
Depth(l) == Cardinality(Frames(l, "tick"))        \* tick_depth

Do(l, o, below) == mem' = o.m /\ stack' = [stack EXCEPT ![l] = o.f \o below]

(* A call by user code: from a callback, or from a task between two ticks. *)
Call(l) == /\ stack[l] = <<>> \/ At(l, "user")
           /\ left > 0 /\ left' = left - 1

Return(l) == /\ At(l, "user")
             /\ Do(l, Outcome(mem, <<>>), Tail(stack[l]))
             /\ UNCHANGED left

(* us_socket_group_connect of a host name, up to Bun__addrinfo_get. The owner *)
(* of a group does not connect in it under its own close_all.                 *)
Connect(l, h) ==
    /\ Call(l) /\ Frames(l, "all") = {} /\ FreshConn(mem) # {}
    /\ \E g \in GetAddrInfo(mem, h, 1) :
         Do(l, Outcome(g.m, <<[k |-> "connect", r |-> g.r, hit |-> g.hit]>>), stack[l])

(* The rest of it. A cached error, and a cached single address, are used at  *)
(* once, without a us_connecting_socket_t; that connect may also fail.       *)
ConnectGoesOn(l) ==
    /\ At(l, "connect")
    /\ UNCHANGED left
    /\ LET r == Top(l).r
           n == mem.req[r].result
       IN  IF Top(l).hit /\ n \in {0, 1}
           THEN \E failed \in {n = 0, TRUE} :
                  Do(l, Outcome(freeaddrinfo(mem, r, failed), <<>>), Tail(stack[l]))
           ELSE \E c \in FreshConn(mem) :
                  LET a == [mem EXCEPT !.conn[c] = [NoConn EXCEPT
                                         !.life = "live", !.loop = l, !.req = r,
                                         !.pending = TRUE],
                                       !.keep[l] = @ + 1]
                  IN  Do(l, Outcome(us_getaddrinfo_set(LinkConnecting(a, l, c), r, c),
                                    <<>>), Tail(stack[l]))

Prefetch(l, h) ==
    /\ Call(l)
    /\ \E g \in GetAddrInfo(mem, h, 0) : mem' = g.m
    /\ UNCHANGED stack

(* User code closes a connect it was not told the end of yet. *)
CloseConnect(l, c) ==
    /\ Call(l)
    /\ mem.conn[c].loop = l /\ mem.conn[c].told = 0
    /\ Do(l, us_connecting_socket_close(mem, c), stack[l])

us_socket_group_close_all(l) ==
    /\ Call(l)
    /\ Do(l, Outcome(mem, <<[k |-> "all", c |-> mem.head[l]]>>), stack[l])

(* It walks the connects with the successor cached before the close. *)
CloseAllGoesOn(l) ==
    /\ At(l, "all")
    /\ UNCHANGED left
    /\ LET c == Top(l).c IN
       IF c = Null THEN Do(l, Outcome(mem, <<>>), Tail(stack[l]))
       ELSE Do(l, us_connecting_socket_close(mem, c),
               <<[k |-> "all", c |-> mem.conn[c].np]>> \o Tail(stack[l]))

(* us_connecting_socket_close, after the callback. *)
CloseGoesOn(l) ==
    /\ At(l, "free") \/ At(l, "detach")
    /\ UNCHANGED left
    /\ Do(l, Outcome(IF At(l, "free") THEN us_connecting_socket_free(mem, Top(l).c)
                     ELSE Detach(mem, Top(l).c), <<>>), Tail(stack[l]))

(* A tick drains the results, polls, and drains the results again. *)
Drains(cs) == IF cs = <<>> THEN <<>> ELSE <<[k |-> "drain", cs |-> cs]>>

Drain(l, at, below) ==
    Do(l, Outcome([mem EXCEPT !.ready[l] = <<>>], Drains(mem.ready[l])),
       <<[k |-> "tick", at |-> at, batch |-> {}]>> \o below)

(* A callback may begin a nested tick; user code is trusted not to do so    *)
(* under a close_all. (The loop has other polls, or it would not tick.)     *)
BeginTick(l) ==
    /\ \/ stack[l] = <<>> /\ UNCHANGED left
       \/ Call(l) /\ Depth(l) = 1 /\ Frames(l, "all") = {}
    /\ Drain(l, "pre", stack[l])

DrainGoesOn(l) ==
    /\ At(l, "drain")
    /\ UNCHANGED left
    /\ \E o \in us_internal_socket_after_resolve(mem, Head(Top(l).cs)) :
         Do(l, o, Drains(Tail(Top(l).cs)) \o Tail(stack[l]))

Ticks(l, at) == At(l, "tick") /\ Top(l).at = at
Attempts(l, how) == {x \in Conns \X Addrs : /\ mem.conn[x[1]].loop = l
                                            /\ mem.conn[x[1]].att[x[2]] \in how}

(* The poll returns: for a wakeup, a settled attempt, or the sweep timer,    *)
(* which runs while the group has connects or sockets.                       *)
PollReturns(l) ==
    /\ Ticks(l, "pre")
    /\ \/ mem.wake[l] \/ mem.head[l] # Null
       \/ Attempts(l, {"pending", "ready"}) # {}
    /\ Do(l, Outcome([mem EXCEPT !.wake[l] = FALSE],
                     <<[k |-> "tick", at |-> "dispatch",
                        batch |-> Attempts(l, {"ready"})]>>), Tail(stack[l]))
    /\ UNCHANGED left

Batch(l) == Top(l).batch \cap Attempts(l, {"ready"})

(* us_internal_socket_after_open. A close takes an attempt out of the batch. *)
DispatchAttempt(l) ==
    /\ Ticks(l, "dispatch")
    /\ UNCHANGED left
    /\ \E x \in Batch(l) :
         \E o \in {AttemptOpened(mem, x[1])}
                  \cup AttemptFailed(mem, x[1], x[2]) :
           Do(l, o, stack[l])

(* The sweep finds the timeout of an attempt, copied from its connect,       *)
(* expired, and user code is called.                                         *)
DispatchTimeout(l) ==
    /\ Ticks(l, "dispatch") /\ Attempts(l, {"pending", "ready"}) # {}
    /\ left > 0 /\ left' = left - 1
    /\ Do(l, Outcome(mem, <<User>>), stack[l])

EndDispatch(l) == /\ Ticks(l, "dispatch") /\ Batch(l) = {}
                  /\ Drain(l, "post", Tail(stack[l]))
                  /\ UNCHANGED left

MayFree(l) == Depth(l) <= 1

EndTick(l) ==
    /\ Ticks(l, "post")
    /\ UNCHANGED left
    /\ Do(l, Outcome([mem EXCEPT !.conn = [c \in Conns |->
                        IF MayFree(l) /\ @[c].life = "dead" /\ @[c].loop = l
                        THEN [NoConn EXCEPT !.life = "freed", !.told = mem.conn[c].told]
                        ELSE @[c]]], <<>>),
          Tail(stack[l]))

(***************************************************************************)
(* Workers, the kernel, and time.                                          *)
(***************************************************************************)

(* afterResult, under the lock: the result is set and the list taken. *)
AfterResult(r) ==
    /\ mem.req[r].life = "live" /\ ~Resolved(mem, r)
    /\ \E n \in 0..MaxAddrs :
         mem' = [mem EXCEPT !.req[r].result = n,
                            !.req[r].moved = mem.req[r].notify,
                            !.req[r].notify = {},
                            !.req[r].refs = @ - 1]
    /\ UNCHANGED <<stack, left>>

\* Mutant of NotifyThreadsafe: the callback that does not wake the loop.
NotifySilently(r) ==
    /\ \E c \in mem.req[r].moved :
         mem' = DnsCallback([mem EXCEPT !.req[r].moved = @ \ {c}], c)
    /\ UNCHANGED <<stack, left>>

(* ... and after it: each connect is queued, and then its loop is woken. *)
NotifyThreadsafe(r) ==
    /\ mem.req[r].wakes = Null
    /\ \E c \in mem.req[r].moved :
         mem' = DnsCallback([mem EXCEPT !.req[r].moved = @ \ {c},
                                        !.req[r].wakes = mem.conn[c].loop], c)
    /\ UNCHANGED <<stack, left>>

us_wakeup_loop(r) ==
    /\ mem.req[r].wakes # Null
    /\ mem' = [mem EXCEPT !.wake[mem.req[r].wakes] = TRUE, !.req[r].wakes = Null]
    /\ UNCHANGED <<stack, left>>

Kernel(c, i) ==
    /\ mem.conn[c].att[i] = "pending"
    /\ mem' = [mem EXCEPT !.conn[c].att[i] = "ready"]
    /\ UNCHANGED <<stack, left>>

Age(r) == /\ left > 0 /\ r \in mem.cache /\ Resolved(mem, r) /\ ~mem.req[r].old
          /\ mem' = [mem EXCEPT !.req[r].old = TRUE]
          /\ UNCHANGED <<stack, left>>

Calls(l) == \/ \E h \in Names(mem) : Connect(l, h) \/ Prefetch(l, h)
            \/ \E c \in Conns : CloseConnect(l, c)
            \/ us_socket_group_close_all(l)

LoopStep(l) == \/ Return(l) \/ ConnectGoesOn(l) \/ CloseAllGoesOn(l) \/ CloseGoesOn(l)
               \/ BeginTick(l) \/ DrainGoesOn(l) \/ PollReturns(l)
               \/ DispatchAttempt(l) \/ DispatchTimeout(l) \/ EndDispatch(l)
               \/ EndTick(l)

Worker(r) == AfterResult(r) \/ NotifyThreadsafe(r) \/ us_wakeup_loop(r)

Next == \/ \E l \in Loops : Calls(l) \/ LoopStep(l)
        \/ \E r \in Reqs : Worker(r) \/ Age(r)
        \/ \E c \in Conns, i \in Addrs : Kernel(c, i)

Spec == Init /\ [][Next]_vars

(* Every thread goes on, user code returns from its callbacks, names resolve *)
(* or fail, and the kernel settles each attempt.                             *)
FairSpec == /\ Spec
            /\ \A l \in Loops : WF_vars(LoopStep(l))
            /\ WF_vars(\E r \in Reqs : Worker(r))
            /\ WF_vars(\E c \in Conns, i \in Addrs : Kernel(c, i))

(***************************************************************************)
(* Properties.                                                             *)
(***************************************************************************)

Ptr == Conns \cup {Null}

(* Counts never go below zero, the cache holds no more than it has room for, *)
(* and a connect has no more attempts under way than start_connections may   *)
(* begin.                                                                    *)
TypeOK ==
    /\ left \in 0..MaxOps
    /\ \A c \in Conns :
         /\ mem.conn[c].life \in {"unused", "live", "dead", "freed"}
         /\ mem.conn[c].req \in Reqs \cup {Null}
         /\ {mem.conn[c].np, mem.conn[c].pp} \subseteq Ptr
         /\ mem.conn[c].addr \in 0..MaxAddrs + 1
         /\ Cardinality(Trying(mem, c)) <= Concurrent
    /\ \A r \in Reqs :
         /\ mem.req[r].result \in -1..MaxAddrs
         /\ mem.req[r].refs \in Nat
         /\ mem.req[r].notify \cup mem.req[r].moved \subseteq Conns
    /\ mem.cache \subseteq Reqs /\ Cardinality(mem.cache) <= MaxEntries
    /\ \A l \in Loops :
         /\ mem.keep[l] \in Nat /\ mem.head[l] \in Ptr
         /\ \A i \in DOMAIN stack[l] : stack[l][i].k \in
              {"user", "connect", "free", "detach", "drain", "tick", "all"}

Live(c) == mem.conn[c].life = "live"

(* Where a connect is waiting to be told its result: on the list of its      *)
(* request, on the list its worker took, in a loop's queue, or in a drain    *)
(* under way.                                                                *)
Places(c) ==
    {<<"notify", r>> : r \in {r \in Reqs : c \in mem.req[r].notify}}
    \cup {<<"moved", r>> : r \in {r \in Reqs : c \in mem.req[r].moved}}
    \cup (UNION {{<<"ready", l, i>> : i \in {i \in DOMAIN mem.ready[l] :
                                              mem.ready[l][i] = c}} : l \in Loops})
    \cup (UNION {UNION {{<<"drain", l, i, j>> : j \in {j \in DOMAIN stack[l][i].cs :
                                                        stack[l][i].cs[j] = c}} :
                          i \in Frames(l, "drain")} : l \in Loops})

(* A connect whose result was not handled yet is in exactly one of these      *)
(* places, however its closing races with the worker; one that is not waiting *)
(* for a result is in none, so that none is freed, or put on the list of the  *)
(* closed, while a worker or a queue still leads to it.                       *)
EachResultComesOnce ==
    \A c \in Conns :
      Cardinality(Places(c)) = IF Live(c) /\ mem.conn[c].pending THEN 1 ELSE 0

Holders(r) ==
    {c \in Conns : Live(c) /\ mem.conn[c].req = r}
Borrowed(r) ==
    {l \in Loops : \E i \in Frames(l, "connect") : stack[l][i].r = r}

(* A request counts its worker, until that has set the result, the connects  *)
(* that hold it and the calls that are about to; it is freed, evicted or     *)
(* dropped from the cache only when nobody is left.                          *)
RefcountsAreExact ==
    \A r \in Reqs :
      LET n == Cardinality(Holders(r)) + Cardinality(Borrowed(r)) IN
      IF mem.req[r].life = "live"
      THEN mem.req[r].refs = n + IF Resolved(mem, r) THEN 0 ELSE 1
      ELSE n = 0 /\ r \notin mem.cache

(* The loop is kept alive once for each connect that waits for its name, and *)
(* no longer: not once its result was handled, nor once it was closed.       *)
KeepAliveBalanced ==
    \A l \in Loops :
      mem.keep[l] = Cardinality({c \in Conns : /\ mem.conn[c].loop = l /\ Live(c)
                                               /\ mem.conn[c].pending
                                               /\ ~mem.conn[c].closed})

(* The end of a connect is told once, open or error; when it is told no      *)
(* attempt goes on behind it, and while it is not told the connect is on its *)
(* group and waits for its name or has an attempt under way.                 *)
OneOutcome ==
    \A c \in Conns :
      LET s == mem.conn[c] IN
      /\ s.told = 1 => Trying(mem, c) = {}
      /\ s.told <= 1
      /\ s.life # "unused" /\ s.told = 0 =>
           s.life = "live" /\ s.linked /\ (s.pending \/ Trying(mem, c) # {})

(* A worker's result never waits for the sweep timer: a loop that polls with *)
(* results in its queue has been woken or is about to be, unless it queued   *)
(* them itself, for a connect made while it was draining.                    *)
ResultsWakeTheLoop ==
    \A l \in Loops :
      Ticks(l, "pre") /\ (\E i \in DOMAIN mem.ready[l] : ~mem.conn[mem.ready[l][i]].own)
      => mem.wake[l] \/ \E r \in Reqs : mem.req[r].wakes = l

(* When close_all returns no connect is left on the group, whatever the      *)
(* callbacks closed under the walk: the owner frees the group next. (Called  *)
(* from on_connecting_error, it leaves the connect of that callback, which   *)
(* comes off the group only when the callback has returned.)                 *)
Closing(l) == {stack[l][i].c : i \in Frames(l, "free") \cup Frames(l, "detach")}
CloseAllLeavesNoConnect ==
    [][\A l \in Loops : At(l, "all") /\ stack'[l] = Tail(stack[l]) =>
         \A c \in Conns \ Closing(l) : mem'.conn[c].loop = l =>
           ~mem'.conn[c].linked /\ mem'.head[l] # c]_vars

(* Every connect is told its end, open or error, even one whose result was   *)
(* queued behind the drain of its own loop without waking it.                *)
EventuallySettled == \A c \in Conns : Live(c) ~> mem.conn[c].told = 1
=============================================================================
