-------------------------- MODULE ConnectingProofs --------------------------
(***************************************************************************)
(* Proofs about Connecting, for any finite sets of loops and connects, any *)
(* requests, names and bounds.  The invariants come in layers:             *)
(*                                                                         *)
(*   Typed      what memory and the stacks hold                            *)
(*   StacksOK   which frames can be above which, and no connect in two     *)
(*              drains                                                     *)
(*   CoreOK     a connect's life, the references to requests, where        *)
(*              connects wait for results, and what frames lead to         *)
(*   GroupsOK   a group's list of connects, and where a close_all under    *)
(*              way can get to                                             *)
(*   KeepOK     the share of num_polls                                     *)
(*   WakesOK    a result in a queue has its wakeup                         *)
(*                                                                         *)
(* They are stated of the components of mem, of the connects in the queues *)
(* and of what the frames of the stacks hold on to, so that what an        *)
(* operator does to a component is said once.                              *)
(***************************************************************************)
EXTENDS Connecting, FiniteSetTheorems, SequenceTheorems, TLAPS

-----------------------------------------------------------------------------
(* Types.                                                                  *)

ConnRecord ==
  [life : {"unused", "live", "dead", "freed"}, loop : Loops \cup {Null},
   req : Reqs \cup {Null}, pending : BOOLEAN, closed : BOOLEAN,
   linked : BOOLEAN, np : Ptr, pp : Ptr, addr : Int, own : BOOLEAN,
   att : [Addrs -> {"none", "pending", "ready"}], told : Int]

ReqRecord ==
  [life : {"unused", "live", "freed"}, host : Hosts \cup {Null},
   result : Int, notify : SUBSET Conns, refs : Int, valid : BOOLEAN,
   old : BOOLEAN, moved : SUBSET Conns, wakes : Loops \cup {Null}]

Mem ==
  [conn : [Conns -> ConnRecord], req : [Reqs -> ReqRecord],
   cache : SUBSET Reqs, ready : [Loops -> Seq(Conns)],
   head : [Loops -> Ptr], wake : [Loops -> BOOLEAN], keep : [Loops -> Int]]

UserFrame == [k : {"user"}]
CloseFrame == [k : {"free", "detach"}, c : Conns]
AllFrame == [k : {"all"}, c : Ptr]
ConnectFrame == [k : {"connect"}, r : Reqs, hit : BOOLEAN]
DrainFrame == [k : {"drain"}, cs : Seq(Conns) \ {<<>>}]
TickFrame == [k : {"tick"}, at : {"pre", "dispatch", "post"}, batch : SUBSET (Conns \X Addrs)]

Frame == UserFrame \cup CloseFrame \cup AllFrame \cup ConnectFrame
         \cup DrainFrame \cup TickFrame

Typed(m, st) == m \in Mem /\ st \in [Loops -> Seq(Frame)]

-----------------------------------------------------------------------------
(* Stacks.                                                                 *)

In(x, list) == \E i \in 1..Len(list) : list[i] = x

Once(list) == \A i, j \in 1..Len(list) : list[i] = list[j] => i = j

\* A tick is only begun on an empty stack or under another tick, never under a
\* close_all; nothing is called under the first half of a connect, and that is
\* not called under a close_all.
Shape(s) ==
  /\ \A i \in 1..Len(s) : s[i].k = "tick" => s[Len(s)].k = "tick"
  /\ \A i, j \in 1..Len(s) : s[i].k = "tick" /\ s[j].k = "all" => j < i
  /\ \A i, j \in 1..Len(s) : s[i].k = "connect" => i = 1 /\ s[j].k # "all"

NoConnect(s) == \A i \in 1..Len(s) : s[i].k # "connect"

\* No connect is in two drains, or twice in one.
DrainedOnce(s) ==
  /\ \A i \in 1..Len(s) : s[i].k = "drain" => Once(s[i].cs)
  /\ \A i, j \in 1..Len(s) : \A c \in Conns :
       s[i].k = "drain" /\ s[j].k = "drain" /\ In(c, s[i].cs) /\ In(c, s[j].cs) => i = j

\* The innermost tick is between its poll and its second drain.
Dispatching(s) ==
  \E i \in 1..Len(s) : /\ s[i].k = "tick" /\ s[i].at = "dispatch"
                       /\ \A j \in 1..Len(s) : s[j].k = "tick" => i <= j

\* What a frame holds on to.
Held(f) ==
  [drain |-> {c \in Conns : f.k = "drain" /\ In(c, f.cs)},
   borrow |-> {r \in Reqs : f.k = "connect" /\ f.r = r},
   hit |-> {r \in Reqs : f.k = "connect" /\ f.r = r /\ f.hit},
   closing |-> {c \in Conns : f.k \in {"free", "detach"} /\ f.c = c},
   free |-> {c \in Conns : f.k = "free" /\ f.c = c},
   walk |-> {c \in Ptr : f.k = "all" /\ f.c = c}]

Views == [drain : SUBSET Conns, borrow : SUBSET Reqs, hit : SUBSET Reqs,
          closing : SUBSET Conns, free : SUBSET Conns, walk : SUBSET Ptr]

Both(v, w) ==
  [drain |-> v.drain \cup w.drain, borrow |-> v.borrow \cup w.borrow,
   hit |-> v.hit \cup w.hit, closing |-> v.closing \cup w.closing,
   free |-> v.free \cup w.free, walk |-> v.walk \cup w.walk]

\* What the frames of a stack hold on to.
View(s) ==
  [drain |-> {c \in Conns : \E i \in 1..Len(s) : c \in Held(s[i]).drain},
   borrow |-> {r \in Reqs : \E i \in 1..Len(s) : r \in Held(s[i]).borrow},
   hit |-> {r \in Reqs : \E i \in 1..Len(s) : r \in Held(s[i]).hit},
   closing |-> {c \in Conns : \E i \in 1..Len(s) : c \in Held(s[i]).closing},
   free |-> {c \in Conns : \E i \in 1..Len(s) : c \in Held(s[i]).free},
   walk |-> {c \in Ptr : \E i \in 1..Len(s) : c \in Held(s[i]).walk}]

ViewOf(st) == [l \in Loops |-> View(st[l])]

QueueOf(ready) == [l \in Loops |-> {c \in Conns : In(c, ready[l])}]

StacksOK(m, st) == /\ \A l \in Loops : Shape(st[l]) /\ DrainedOnce(st[l])
                   /\ \A l \in Loops : Once(m.ready[l])

-----------------------------------------------------------------------------
(* Connects, requests and who waits for what. Q are the connects in each   *)
(* loop's queue, V what each loop's stack holds on to.                     *)

\* A connect s on its way from "unused" to "freed"; req are the requests.
ConnOK(s, req) ==
  /\ s.told \in {0, 1}
  /\ s.life = "unused" => s.told = 0
  /\ s.life # "unused" /\ s.life # "live" => s.told = 1
  /\ s.life \in {"unused", "freed"} => s.loop = Null
  /\ s.life \in {"live", "dead"} => s.loop \in Loops
  /\ s.life # "live" => ~s.pending /\ ~s.linked /\ s.att = NoAttempts
  /\ s.life = "live" =>
       /\ s.closed <=> s.told = 1
       /\ s.pending => s.req \in Reqs
       /\ s.pending \/ s.told = 1 => s.att = NoAttempts
       /\ s.told = 1 /\ ~s.pending => s.req = Null
       /\ s.told = 0 => s.linked
       /\ s.told = 0 /\ ~s.pending =>
            s.att # NoAttempts /\ s.req \in Reqs /\ req[s.req].result # -1

ConnInv(conn, req) == \A c \in Conns : ConnOK(conn[c], req)

HoldersOf(conn, r) == {c \in Conns : conn[c].life = "live" /\ conn[c].req = r}

BorrowersOf(V, r) == {l \in Loops : r \in V[l].borrow}

\* The references to request r.
RefOK(conn, req, cache, V, r) ==
  /\ req[r].life = "live" =>
       req[r].refs = Cardinality(HoldersOf(conn, r)) + Cardinality(BorrowersOf(V, r))
                     + (IF req[r].result = -1 THEN 1 ELSE 0)
  /\ req[r].life # "live" =>
       /\ HoldersOf(conn, r) = {} /\ BorrowersOf(V, r) = {} /\ r \notin cache
       /\ req[r].notify = {} /\ req[r].moved = {}
  /\ req[r].result # -1 => req[r].notify = {}
  /\ req[r].result = -1 => req[r].moved = {}

RefInv(conn, req, cache, V) == \A r \in Reqs : RefOK(conn, req, cache, V, r)

\* Connect c waits for a result: with its request, if that is not resolved,
\* else with the worker, in its loop's queue or in a drain, in one of them.
WaitOK(conn, req, Q, V, c) ==
  /\ \A r \in Reqs : c \in req[r].notify \/ c \in req[r].moved =>
       conn[c].life = "live" /\ conn[c].pending /\ conn[c].req = r
  /\ \A l \in Loops : c \in Q[l] \/ c \in V[l].drain =>
       /\ conn[c].life = "live" /\ conn[c].pending /\ conn[c].loop = l
       /\ req[conn[c].req].result # -1 /\ c \notin req[conn[c].req].moved
       /\ ~(c \in Q[l] /\ c \in V[l].drain)
  /\ conn[c].life = "live" /\ conn[c].pending =>
       \/ c \in req[conn[c].req].notify \/ c \in req[conn[c].req].moved
       \/ c \in Q[conn[c].loop] \/ c \in V[conn[c].loop].drain

WaitInv(conn, req, Q, V) == \A c \in Conns : WaitOK(conn, req, Q, V, c)

\* What a frame of loop l's stack leads to is still there, and a connect that
\* was told its end and is on its group has the frame that takes it off.
LeadOK(conn, req, V, l) ==
  /\ \A r \in V[l].hit : r \in V[l].borrow /\ req[r].result # -1
  /\ \A c \in V[l].closing : /\ conn[c].told = 1 /\ conn[c].loop = l
                             /\ conn[c].life \in {"live", "dead"}
  /\ \A c \in V[l].free : c \in V[l].closing /\ ~conn[c].pending
  /\ \A c \in Conns : conn[c].loop = l /\ conn[c].linked /\ conn[c].told = 1 =>
       c \in V[l].closing

LeadInv(conn, req, V) == \A l \in Loops : LeadOK(conn, req, V, l)

Core(conn, req, cache, Q, V) ==
  /\ ConnInv(conn, req)
  /\ RefInv(conn, req, cache, V)
  /\ WaitInv(conn, req, Q, V)
  /\ LeadInv(conn, req, V)

CoreOK(m, st) == Core(m.conn, m.req, m.cache, QueueOf(m.ready), ViewOf(st))

-----------------------------------------------------------------------------
(* Groups.                                                                 *)

\* The connects of a group are linked both ways.
LinkOK(conn, head, c) ==
  LET s == conn[c] IN
  s.linked =>
    /\ s.loop \in Loops /\ head[s.loop] # Null
    /\ s.np # Null => /\ conn[s.np].linked /\ conn[s.np].loop = s.loop
                      /\ conn[s.np].pp = c
    /\ s.pp = Null => head[s.loop] = c
    /\ s.pp # Null => /\ conn[s.pp].linked /\ conn[s.pp].loop = s.loop
                      /\ conn[s.pp].np = c

HeadOK(conn, head, l) ==
  head[l] # Null => /\ conn[head[l]].linked /\ conn[head[l]].loop = l
                    /\ conn[head[l]].pp = Null

\* The linked connects of c's group that are behind c are behind its successor.
Skips(conn, rank, c) ==
  /\ conn[c].np # Null => rank[conn[c].np] < rank[c]
  /\ \A d \in Conns : conn[d].linked /\ conn[d].loop = conn[c].loop =>
       /\ rank[d] = rank[c] => d = c
       /\ rank[d] < rank[c] => conn[c].np # Null /\ rank[d] <= rank[conn[c].np]

\* The lists are in the order of rank.
Ranked(conn, head, rank) ==
  /\ \A c \in Conns : LinkOK(conn, head, c)
  /\ \A l \in Loops : HeadOK(conn, head, l)
  /\ \A c \in Conns : conn[c].linked =>
       Skips(conn, rank, c) /\ rank[c] <= rank[head[conn[c].loop]]

\* What a close_all of loop l with a frame in W can still walk to, among it all
\* that is linked, is not freed; what is not live there has been closed; and
\* the connects that were not told their end are still to come.
Walkable(conn, rank, l, W, G) ==
  /\ \A c \in G : /\ conn[c].loop = l /\ conn[c].np \in G \cup {Null}
                  /\ conn[c].life = "live" \/ (conn[c].life = "dead" /\ conn[c].closed)
                  /\ Skips(conn, rank, c)
  /\ \A c \in Conns : conn[c].linked /\ conn[c].loop = l => c \in G
  /\ \A p \in W : /\ p \in G \cup {Null}
                  /\ \A d \in Conns : conn[d].linked /\ conn[d].loop = l /\ conn[d].told = 0 =>
                       p # Null /\ rank[d] <= rank[p]

Groups(conn, head, V, rank) ==
  /\ Ranked(conn, head, rank)
  /\ \A l \in Loops : V[l].walk # {} =>
       \E G \in SUBSET Conns : Walkable(conn, rank, l, V[l].walk, G)

GroupsOK(conn, head, V) == \E rank \in [Conns -> Int] : Groups(conn, head, V, rank)

-----------------------------------------------------------------------------
(* The share of num_polls, and the wakeups.                                *)

Kept(conn, l) ==
  {c \in Conns : /\ conn[c].loop = l /\ conn[c].life = "live"
                 /\ conn[c].pending /\ ~conn[c].closed}

KeepOK(conn, keep) == \A l \in Loops : keep[l] = Cardinality(Kept(conn, l))

WakeOK(conn, req, Q, wake, l) ==
  \A c \in Conns : c \in Q[l] /\ ~conn[c].own => wake[l] \/ req[conn[c].req].wakes = l

OwnOK(conn, req) ==
  \A r \in Reqs : \A c \in req[r].notify \cup req[r].moved : ~conn[c].own

WakesOK(m, st) ==
  /\ \A l \in Loops : ~Dispatching(st[l]) =>
       WakeOK(m.conn, m.req, QueueOf(m.ready), m.wake, l)
  /\ OwnOK(m.conn, m.req)

Sound(m, st) == /\ Typed(m, st) /\ StacksOK(m, st) /\ CoreOK(m, st)
                /\ GroupsOK(m.conn, m.head, ViewOf(st))
                /\ KeepOK(m.conn, m.keep) /\ WakesOK(m, st)

Inv == Sound(mem, stack)

-----------------------------------------------------------------------------
(* Sequences and stacks.                                                   *)

\* Something put in front of a sequence.
LEMMA Pushed ==
  ASSUME NEW S, NEW s \in Seq(S), NEW f \in S
  PROVE  LET t == <<f>> \o s IN
         /\ Len(s) \in Nat
         /\ t \in Seq(S) /\ t # <<>> /\ Len(t) = Len(s) + 1
         /\ t[1] = f /\ 1 \in 1..Len(t)
         /\ \A i \in 1..Len(s) : i + 1 \in 1..Len(t) /\ t[i + 1] = s[i]
         /\ \A i \in 1..Len(t) : i = 1 \/ (i - 1 \in 1..Len(s) /\ t[i] = s[i - 1])
         /\ Head(t) = f
<1> DEFINE t == <<f>> \o s
<1>1. <<f>> \in Seq(S) /\ Len(<<f>>) = 1 /\ <<f>>[1] = f
  OBVIOUS
<1>2. Len(s) \in Nat
  BY LenProperties
<1>3. /\ t \in Seq(S) /\ Len(t) = Len(<<f>>) + Len(s)
      /\ \A i \in 1..Len(t) : t[i] = IF i <= Len(<<f>>) THEN <<f>>[i] ELSE s[i - Len(<<f>>)]
  BY <1>1, ConcatProperties
<1> HIDE DEF t
<1>4. Len(t) = Len(s) + 1 /\ 1 \in 1..Len(t)
  BY <1>1, <1>2, <1>3
<1>5. t[1] = f
  BY <1>1, <1>3, <1>4
<1>6. \A i \in 1..Len(s) : i + 1 \in 1..Len(t) /\ t[i + 1] = s[i]
  <2> SUFFICES ASSUME NEW i \in 1..Len(s)
               PROVE  i + 1 \in 1..Len(t) /\ t[i + 1] = s[i]
    OBVIOUS
  <2>1. i + 1 \in 1..Len(t) /\ ~(i + 1 <= 1) /\ (i + 1) - 1 = i
    BY <1>2, <1>4
  <2> QED
    BY <1>1, <1>3, <2>1
<1>7. \A i \in 1..Len(t) : i = 1 \/ (i - 1 \in 1..Len(s) /\ t[i] = s[i - 1])
  BY <1>1, <1>2, <1>3, <1>4
<1>8. t # <<>> /\ Head(t) = t[1]
  BY <1>3, <1>4, <1>2, EmptySeq
<1> QED
  BY <1>2, <1>3, <1>4, <1>5, <1>6, <1>7, <1>8 DEF t

\* Two sequences with the same elements are the same.
LEMMA SameSeq ==
  ASSUME NEW S, NEW s \in Seq(S), NEW t \in Seq(S), Len(s) = Len(t),
         \A i \in 1..Len(s) : s[i] = t[i]
  PROVE  s = t
  BY SeqEqual

\* A sequence is its head in front of its tail.
LEMMA Popped ==
  ASSUME NEW S, NEW s \in Seq(S), s # <<>>
  PROVE  /\ Head(s) \in S /\ Tail(s) \in Seq(S)
         /\ s = <<Head(s)>> \o Tail(s)
         /\ Head(s) = s[1] /\ 1 \in 1..Len(s)
<1>1. /\ Tail(s) \in Seq(S) /\ Len(Tail(s)) = Len(s) - 1
      /\ \A i \in 1..Len(Tail(s)) : Tail(s)[i] = s[i + 1]
      /\ Head(s) \in S
  BY HeadTailProperties
<1>2. Len(s) \in Nat /\ Len(s) # 0
  BY LenProperties, EmptySeq
<1>3. Head(s) = s[1]
  OBVIOUS
<1> DEFINE t == <<Head(s)>> \o Tail(s)
<1>4. /\ t \in Seq(S) /\ Len(t) = Len(Tail(s)) + 1 /\ t[1] = Head(s)
      /\ \A i \in 1..Len(t) : i = 1 \/ (i - 1 \in 1..Len(Tail(s)) /\ t[i] = Tail(s)[i - 1])
  BY <1>1, Pushed
<1> HIDE DEF t
<1>5. Len(s) = Len(t)
  BY <1>1, <1>2, <1>4
<1>6. \A i \in 1..Len(s) : s[i] = t[i]
  <2> SUFFICES ASSUME NEW i \in 1..Len(s) PROVE s[i] = t[i]
    OBVIOUS
  <2>1. CASE i = 1
    BY <1>3, <1>4, <2>1
  <2>2. CASE i # 1
    <3>1. i - 1 \in 1..Len(Tail(s)) /\ t[i] = Tail(s)[i - 1]
      BY <1>4, <1>5, <2>2
    <3>2. Tail(s)[i - 1] = s[(i - 1) + 1] /\ (i - 1) + 1 = i
      BY <1>1, <1>2, <3>1
    <3> QED
      BY <3>1, <3>2
  <2> QED
    BY <2>1, <2>2
<1>7. s = t
  BY <1>4, <1>5, <1>6, SameSeq
<1> QED
  BY <1>1, <1>2, <1>3, <1>7 DEF t

\* Nothing put in front, and two things.
LEMMA PushedFew ==
  ASSUME NEW S, NEW s \in Seq(S), NEW f \in S, NEW g \in S
  PROVE  <<>> \o s = s /\ <<f, g>> \o s = <<f>> \o (<<g>> \o s)
<1>1. <<>> \o s = s
  BY ConcatEmptySeq
<1> DEFINE u == <<g>> \o s
           t == <<f>> \o u
           v == <<f, g>> \o s
<1>2. /\ u \in Seq(S) /\ Len(u) = Len(s) + 1 /\ Len(s) \in Nat
      /\ u[1] = g
      /\ \A i \in 1..Len(s) : u[i + 1] = s[i]
      /\ \A i \in 1..Len(u) : i = 1 \/ (i - 1 \in 1..Len(s) /\ u[i] = s[i - 1])
  BY Pushed
<1> HIDE DEF u
<1>3. /\ t \in Seq(S) /\ Len(t) = Len(u) + 1 /\ t[1] = f
      /\ \A i \in 1..Len(t) : i = 1 \/ (i - 1 \in 1..Len(u) /\ t[i] = u[i - 1])
  BY <1>2, Pushed
<1>4. <<f, g>> \in Seq(S) /\ Len(<<f, g>>) = 2 /\ <<f, g>>[1] = f /\ <<f, g>>[2] = g
  OBVIOUS
<1>5. /\ v \in Seq(S) /\ Len(v) = Len(<<f, g>>) + Len(s)
      /\ \A i \in 1..Len(v) :
           v[i] = IF i <= Len(<<f, g>>) THEN <<f, g>>[i] ELSE s[i - Len(<<f, g>>)]
  BY <1>4, ConcatProperties
<1> HIDE DEF t, v
<1>6. Len(v) = Len(t)
  BY <1>2, <1>3, <1>4, <1>5
<1>7. \A i \in 1..Len(v) : v[i] = t[i]
  <2> SUFFICES ASSUME NEW i \in 1..Len(v) PROVE v[i] = t[i]
    OBVIOUS
  <2>1. CASE i = 1
    BY <1>3, <1>4, <1>5, <2>1
  <2>2. CASE i = 2
    <3>1. t[2] = u[1]
      BY <1>2, <1>3, <1>6, <2>2
    <3>2. v[2] = g
      BY <1>4, <1>5, <2>2
    <3> QED
      BY <1>2, <2>2, <3>1, <3>2
  <2>3. CASE i # 1 /\ i # 2
    <3>1. v[i] = s[i - 2]
      BY <1>4, <1>5, <2>3
    <3>2. i - 1 \in 1..Len(u) /\ t[i] = u[i - 1] /\ i - 1 # 1
      BY <1>2, <1>3, <1>6, <2>3
    <3>3. u[i - 1] = s[(i - 1) - 1] /\ (i - 1) - 1 = i - 2
      BY <1>2, <3>2
    <3> QED
      BY <3>1, <3>2, <3>3
  <2> QED
    BY <2>1, <2>2, <2>3
<1>8. v = t
  BY <1>3, <1>5, <1>6, <1>7, SameSeq
<1> QED
  BY <1>1, <1>8 DEF u, t, v

\* What is in a list with something put in front.
LEMMA PushIn ==
  ASSUME NEW S, NEW s \in Seq(S), NEW f \in S
  PROVE  /\ \A x : In(x, <<f>> \o s) <=> x = f \/ In(x, s)
         /\ Once(<<f>> \o s) <=> Once(s) /\ ~In(f, s)
<1> DEFINE t == <<f>> \o s
<1>1. /\ Len(s) \in Nat
      /\ t[1] = f /\ 1 \in 1..Len(t)
      /\ \A i \in 1..Len(s) : i + 1 \in 1..Len(t) /\ t[i + 1] = s[i]
      /\ \A i \in 1..Len(t) : i = 1 \/ (i - 1 \in 1..Len(s) /\ t[i] = s[i - 1])
  BY Pushed
<1> HIDE DEF t
<1>2. \A x : In(x, t) => x = f \/ In(x, s)
  BY <1>1 DEF In
<1>3. \A x : x = f \/ In(x, s) => In(x, t)
  BY <1>1 DEF In
<1>4. ASSUME Once(t) PROVE Once(s) /\ ~In(f, s)
  <2>1. ASSUME NEW i \in 1..Len(s), NEW j \in 1..Len(s), s[i] = s[j] PROVE i = j
    <3>1. i + 1 = j + 1
      BY <1>1, <1>4, <2>1 DEF Once
    <3> QED
      BY <3>1
  <2>2. ASSUME NEW i \in 1..Len(s), s[i] = f PROVE FALSE
    <3>1. i + 1 = 1
      BY <1>1, <1>4, <2>2 DEF Once
    <3> QED
      BY <3>1
  <2> QED
    BY <2>1, <2>2 DEF Once, In
<1>5. ASSUME Once(s), ~In(f, s) PROVE Once(t)
  <2> SUFFICES ASSUME NEW i \in 1..Len(t), NEW j \in 1..Len(t), t[i] = t[j]
               PROVE  i = j
    BY DEF Once
  <2>1. CASE i = 1 /\ j # 1
    BY <1>1, <1>5, <2>1 DEF In
  <2>2. CASE i # 1 /\ j = 1
    BY <1>1, <1>5, <2>2 DEF In
  <2>3. CASE i # 1 /\ j # 1
    <3>1. /\ i - 1 \in 1..Len(s) /\ j - 1 \in 1..Len(s)
          /\ s[i - 1] = s[j - 1]
      BY <1>1, <2>3
    <3>2. i - 1 = j - 1
      BY <1>5, <3>1 DEF Once
    <3> QED
      BY <1>1, <3>2
  <2> QED
    BY <2>1, <2>2, <2>3
<1> QED
  BY <1>2, <1>3, <1>4, <1>5 DEF t

\* An empty list holds nothing.
LEMMA NoneIn == Len(<<>>) = 0 /\ Once(<<>>) /\ \A x : ~In(x, <<>>)
<1>1. Len(<<>>) = 0
  BY EmptySeq
<1> QED
  BY <1>1 DEF In, Once

\* What a stack holds on to, with a frame put on it.
LEMMA ViewPush ==
  ASSUME NEW s \in Seq(Frame), NEW f \in Frame
  PROVE  View(<<f>> \o s) = Both(Held(f), View(s))
<1> DEFINE t == <<f>> \o s
<1>1. /\ Len(s) \in Nat
      /\ t[1] = f /\ 1 \in 1..Len(t)
      /\ \A i \in 1..Len(s) : i + 1 \in 1..Len(t) /\ t[i + 1] = s[i]
      /\ \A i \in 1..Len(t) : i = 1 \/ (i - 1 \in 1..Len(s) /\ t[i] = s[i - 1])
  BY Pushed
<1> HIDE DEF t
<1>2. \A c : (\E i \in 1..Len(t) : c \in Held(t[i]).drain)
               <=> c \in Held(f).drain \/ \E i \in 1..Len(s) : c \in Held(s[i]).drain
  BY <1>1
<1>3. \A c : (\E i \in 1..Len(t) : c \in Held(t[i]).borrow)
               <=> c \in Held(f).borrow \/ \E i \in 1..Len(s) : c \in Held(s[i]).borrow
  BY <1>1
<1>4. \A c : (\E i \in 1..Len(t) : c \in Held(t[i]).hit)
               <=> c \in Held(f).hit \/ \E i \in 1..Len(s) : c \in Held(s[i]).hit
  BY <1>1
<1>5. \A c : (\E i \in 1..Len(t) : c \in Held(t[i]).closing)
               <=> c \in Held(f).closing \/ \E i \in 1..Len(s) : c \in Held(s[i]).closing
  BY <1>1
<1>6. \A c : (\E i \in 1..Len(t) : c \in Held(t[i]).free)
               <=> c \in Held(f).free \/ \E i \in 1..Len(s) : c \in Held(s[i]).free
  BY <1>1
<1>7. \A c : (\E i \in 1..Len(t) : c \in Held(t[i]).walk)
               <=> c \in Held(f).walk \/ \E i \in 1..Len(s) : c \in Held(s[i]).walk
  BY <1>1
<1>8. /\ Held(f).drain \subseteq Conns /\ Held(f).borrow \subseteq Reqs
      /\ Held(f).hit \subseteq Reqs /\ Held(f).closing \subseteq Conns
      /\ Held(f).free \subseteq Conns /\ Held(f).walk \subseteq Ptr
  BY DEF Held
<1>a. View(t).drain = Held(f).drain \cup View(s).drain
  BY <1>2, <1>8 DEF View
<1>b. View(t).borrow = Held(f).borrow \cup View(s).borrow
  BY <1>3, <1>8 DEF View
<1>c. View(t).hit = Held(f).hit \cup View(s).hit
  BY <1>4, <1>8 DEF View
<1>d. View(t).closing = Held(f).closing \cup View(s).closing
  BY <1>5, <1>8 DEF View
<1>e. View(t).free = Held(f).free \cup View(s).free
  BY <1>6, <1>8 DEF View
<1>f. View(t).walk = Held(f).walk \cup View(s).walk
  BY <1>7, <1>8 DEF View
<1>g. View(t) = [drain |-> View(t).drain, borrow |-> View(t).borrow, hit |-> View(t).hit,
                 closing |-> View(t).closing, free |-> View(t).free, walk |-> View(t).walk]
  BY DEF View
<1> QED
  BY <1>a, <1>b, <1>c, <1>d, <1>e, <1>f, <1>g DEF Both, t

NoView == [drain |-> {}, borrow |-> {}, hit |-> {}, closing |-> {}, free |-> {}, walk |-> {}]

\* An empty stack holds on to nothing.
LEMMA ViewEmpty == View(<<>>) = NoView
<1>1. \A i \in 1..Len(<<>>) : FALSE
  BY NoneIn
<1> QED
  BY <1>1 DEF View, NoView

\* What a stack holds on to are connects and requests.
LEMMA ViewType == \A s : View(s) \in Views
  BY DEF View, Views

\* User code and ticks hold on to nothing.
LEMMA HeldByNone ==
  ASSUME NEW f, f.k \in {"user", "tick"}, NEW v \in Views
  PROVE  Held(f) = NoView /\ Both(Held(f), v) = v
<1>1. Held(f) = NoView
  BY DEF Held, NoView
<1> QED
  BY <1>1 DEF Both, NoView, Views

\* A frame put on a stack, and taken from it.
LEMMA ShapePush ==
  ASSUME NEW s \in Seq(Frame), NEW f \in Frame, Shape(s), NoConnect(s),
         f.k = "tick" => s = <<>> \/ (View(s).walk = {} /\ \E i \in 1..Len(s) : s[i].k = "tick"),
         f.k = "connect" => View(s).walk = {}
  PROVE  Shape(<<f>> \o s) /\ (f.k # "connect" => NoConnect(<<f>> \o s))
<1> DEFINE t == <<f>> \o s
<1>1. /\ Len(s) \in Nat /\ Len(t) = Len(s) + 1
      /\ t[1] = f /\ 1 \in 1..Len(t)
      /\ \A i \in 1..Len(s) : i + 1 \in 1..Len(t) /\ t[i + 1] = s[i]
      /\ \A i \in 1..Len(t) : i = 1 \/ (i - 1 \in 1..Len(s) /\ t[i] = s[i - 1])
  BY Pushed
<1>2. ASSUME View(s).walk = {}, NEW j \in 1..Len(s), s[j].k = "all" PROVE FALSE
  <2>1. s[j] \in Frame
    BY ElementOfSeq
  <2>2. s[j] \in AllFrame
    BY <1>2, <2>1 DEF Frame, AllFrame, UserFrame, CloseFrame, ConnectFrame, DrainFrame, TickFrame
  <2>3. s[j].c \in Held(s[j]).walk
    BY <1>2, <2>2 DEF Held, AllFrame
  <2>4. s[j].c \in View(s).walk
    BY <2>2, <2>3 DEF View, AllFrame
  <2> QED
    BY <1>2, <2>4
<1>3. s = <<>> => Len(s) = 0
  BY EmptySeq
<1> HIDE DEF t
<1>4. ASSUME NEW i \in 1..Len(t), t[i].k = "tick" PROVE t[Len(t)].k = "tick"
  <2>1. CASE Len(s) = 0
    BY <1>1, <1>4, <2>1
  <2>2. CASE Len(s) # 0
    <3>1. \E j \in 1..Len(s) : s[j].k = "tick"
      BY <1>1, <1>3, <1>4, <2>2
    <3>2. s[Len(s)].k = "tick"
      BY <3>1 DEF Shape
    <3> QED
      BY <1>1, <2>2, <3>2
  <2> QED
    BY <2>1, <2>2
<1>5. ASSUME NEW i \in 1..Len(t), NEW j \in 1..Len(t), t[i].k = "tick", t[j].k = "all"
      PROVE  j < i
  <2>1. CASE i = 1
    <3>1. j - 1 \in 1..Len(s) /\ s[j - 1].k = "all"
      BY <1>1, <1>5, <2>1
    <3> QED
      BY <1>1, <1>2, <1>3, <1>5, <2>1, <3>1
  <2>2. CASE i # 1 /\ j = 1
    BY <2>2
  <2>3. CASE i # 1 /\ j # 1
    <3>1. /\ i - 1 \in 1..Len(s) /\ j - 1 \in 1..Len(s)
          /\ s[i - 1].k = "tick" /\ s[j - 1].k = "all"
      BY <1>1, <1>5, <2>3
    <3>2. j - 1 < i - 1
      BY <3>1 DEF Shape
    <3> QED
      BY <1>1, <3>1, <3>2
  <2> QED
    BY <2>1, <2>2, <2>3
<1>6. ASSUME NEW i \in 1..Len(t), NEW j \in 1..Len(t), t[i].k = "connect"
      PROVE  i = 1 /\ t[j].k # "all"
  <2>1. i = 1 /\ f.k = "connect"
    BY <1>1, <1>6 DEF NoConnect
  <2>2. t[j].k # "all"
    BY <1>1, <1>2, <2>1
  <2> QED
    BY <2>1, <2>2
<1>7. Shape(t)
  BY <1>4, <1>5, <1>6 DEF Shape
<1>8. f.k # "connect" => NoConnect(t)
  BY <1>1 DEF NoConnect
<1> QED
  BY <1>7, <1>8 DEF t

\* What is under a frame keeps the order of frames.
LEMMA ShapePop ==
  ASSUME NEW s \in Seq(Frame), NEW f \in Frame, Shape(<<f>> \o s)
  PROVE  /\ Shape(s) /\ NoConnect(s)
         /\ f.k \in {"tick", "connect"} => View(s).walk = {}
         /\ f.k = "tick" => s = <<>> \/ \E i \in 1..Len(s) : i = Len(s) /\ s[i].k = "tick"
<1> DEFINE t == <<f>> \o s
<1>1. /\ Len(s) \in Nat /\ Len(t) = Len(s) + 1
      /\ t[1] = f /\ 1 \in 1..Len(t)
      /\ \A i \in 1..Len(s) : i + 1 \in 1..Len(t) /\ t[i + 1] = s[i]
      /\ \A i \in 1..Len(t) : i = 1 \/ (i - 1 \in 1..Len(s) /\ t[i] = s[i - 1])
  BY Pushed
<1>2. Shape(t)
  OBVIOUS
<1>3. s # <<>> => Len(s) # 0
  BY EmptySeq
<1> HIDE DEF t
<1>4. ASSUME NEW i \in 1..Len(s), s[i].k = "connect" PROVE FALSE
  <2>1. i + 1 \in 1..Len(t) /\ t[i + 1].k = "connect"
    BY <1>1, <1>4
  <2>2. i + 1 = 1
    BY <1>2, <2>1 DEF Shape
  <2> QED
    BY <1>1, <2>2
<1>5. ASSUME f.k \in {"tick", "connect"} PROVE View(s).walk = {}
  <2> SUFFICES ASSUME NEW c \in View(s).walk PROVE FALSE
    OBVIOUS
  <2>1. PICK i \in 1..Len(s) : c \in Held(s[i]).walk
    BY DEF View
  <2>2. s[i].k = "all"
    BY <2>1 DEF Held
  <2>3. i + 1 \in 1..Len(t) /\ t[i + 1].k = "all"
    BY <1>1, <2>2
  <2>4. f.k = "tick" => i + 1 < 1
    BY <1>1, <1>2, <2>3 DEF Shape
  <2>5. f.k # "connect"
    BY <1>1, <1>2, <2>3 DEF Shape
  <2> QED
    BY <1>1, <1>5, <2>4, <2>5
<1>6. ASSUME f.k = "tick", s # <<>> PROVE s[Len(s)].k = "tick" /\ Len(s) \in 1..Len(s)
  <2>1. t[Len(t)].k = "tick"
    BY <1>1, <1>2, <1>6 DEF Shape
  <2> QED
    BY <1>1, <1>3, <1>6, <2>1
<1>7. \A i \in 1..Len(s) : s[i].k = "tick" => s[Len(s)].k = "tick"
  <2> SUFFICES ASSUME NEW i \in 1..Len(s), s[i].k = "tick" PROVE s[Len(s)].k = "tick"
    OBVIOUS
  <2>1. i + 1 \in 1..Len(t) /\ t[i + 1].k = "tick"
    BY <1>1
  <2>2. t[Len(t)].k = "tick"
    BY <1>2, <2>1 DEF Shape
  <2> QED
    BY <1>1, <2>2
<1>8. \A i, j \in 1..Len(s) : s[i].k = "tick" /\ s[j].k = "all" => j < i
  <2> SUFFICES ASSUME NEW i \in 1..Len(s), NEW j \in 1..Len(s), s[i].k = "tick", s[j].k = "all"
               PROVE  j < i
    OBVIOUS
  <2>1. /\ i + 1 \in 1..Len(t) /\ t[i + 1].k = "tick"
        /\ j + 1 \in 1..Len(t) /\ t[j + 1].k = "all"
    BY <1>1
  <2>2. j + 1 < i + 1
    BY <1>2, <2>1 DEF Shape
  <2> QED
    BY <1>1, <2>2
<1>9. Shape(s) /\ NoConnect(s)
  BY <1>4, <1>7, <1>8 DEF Shape, NoConnect
<1> QED
  BY <1>5, <1>6, <1>9

\* No connect is in two drains, with a frame put on.
LEMMA OncePush ==
  ASSUME NEW s \in Seq(Frame), NEW f \in Frame
  PROVE  DrainedOnce(<<f>> \o s) <=>
           /\ DrainedOnce(s)
           /\ f.k = "drain" => Once(f.cs) /\ Held(f).drain \cap View(s).drain = {}
<1> DEFINE t == <<f>> \o s
<1>1. /\ Len(s) \in Nat /\ Len(t) = Len(s) + 1
      /\ t[1] = f /\ 1 \in 1..Len(t)
      /\ \A i \in 1..Len(s) : i + 1 \in 1..Len(t) /\ t[i + 1] = s[i]
      /\ \A i \in 1..Len(t) : i = 1 \/ (i - 1 \in 1..Len(s) /\ t[i] = s[i - 1])
  BY Pushed
<1> HIDE DEF t
<1>2. ASSUME DrainedOnce(t) PROVE DrainedOnce(s)
  <2>1. \A i \in 1..Len(s) : s[i].k = "drain" => Once(s[i].cs)
    BY <1>1, <1>2 DEF DrainedOnce
  <2>2. ASSUME NEW i \in 1..Len(s), NEW j \in 1..Len(s), NEW c \in Conns,
               s[i].k = "drain", s[j].k = "drain", In(c, s[i].cs), In(c, s[j].cs)
        PROVE  i = j
    <3>1. i + 1 = j + 1
      BY <1>1, <1>2, <2>2 DEF DrainedOnce
    <3> QED
      BY <1>1, <3>1
  <2> QED
    BY <2>1, <2>2 DEF DrainedOnce
<1>3. ASSUME DrainedOnce(t), f.k = "drain"
      PROVE  Once(f.cs) /\ Held(f).drain \cap View(s).drain = {}
  <2>1. Once(f.cs)
    BY <1>1, <1>3 DEF DrainedOnce
  <2>2. ASSUME NEW c \in Held(f).drain, c \in View(s).drain PROVE FALSE
    <3>1. PICK i \in 1..Len(s) : c \in Held(s[i]).drain
      BY <2>2 DEF View
    <3>2. /\ c \in Conns /\ In(c, f.cs)
          /\ s[i].k = "drain" /\ In(c, s[i].cs)
      BY <2>2, <3>1 DEF Held
    <3>3. i + 1 = 1
      BY <1>1, <1>3, <3>2 DEF DrainedOnce
    <3> QED
      BY <1>1, <3>3
  <2> QED
    BY <2>1, <2>2
<1>4. ASSUME DrainedOnce(s), f.k = "drain" => Once(f.cs) /\ Held(f).drain \cap View(s).drain = {}
      PROVE  DrainedOnce(t)
  <2>1. \A i \in 1..Len(t) : t[i].k = "drain" => Once(t[i].cs)
    BY <1>1, <1>4 DEF DrainedOnce
  <2>2. ASSUME NEW i \in 1..Len(s), NEW c \in Conns, s[i].k = "drain", In(c, s[i].cs),
               f.k = "drain", In(c, f.cs)
        PROVE  FALSE
    <3>1. c \in Held(s[i]).drain /\ c \in Held(f).drain
      BY <2>2 DEF Held
    <3>2. c \in View(s).drain
      BY <3>1 DEF View
    <3> QED
      BY <1>4, <2>2, <3>1, <3>2
  <2>3. ASSUME NEW i \in 1..Len(t), NEW j \in 1..Len(t), NEW c \in Conns,
               t[i].k = "drain", t[j].k = "drain", In(c, t[i].cs), In(c, t[j].cs)
        PROVE  i = j
    <3>1. CASE i = 1 /\ j # 1
      BY <1>1, <2>2, <2>3, <3>1
    <3>2. CASE i # 1 /\ j = 1
      BY <1>1, <2>2, <2>3, <3>2
    <3>3. CASE i # 1 /\ j # 1
      <4>1. /\ i - 1 \in 1..Len(s) /\ t[i] = s[i - 1]
            /\ j - 1 \in 1..Len(s) /\ t[j] = s[j - 1]
        BY <1>1, <3>3
      <4>2. i - 1 = j - 1
        BY <1>4, <2>3, <4>1 DEF DrainedOnce
      <4> QED
        BY <1>1, <4>2
    <3> QED
      BY <3>1, <3>2, <3>3
  <2> QED
    BY <2>1, <2>3 DEF DrainedOnce
<1> QED
  BY <1>2, <1>3, <1>4 DEF t

\* Only a tick put on a stack changes whether its innermost tick dispatches.
LEMMA DispatchingPush ==
  ASSUME NEW s \in Seq(Frame), NEW f \in Frame
  PROVE  /\ f.k # "tick" => (Dispatching(<<f>> \o s) <=> Dispatching(s))
         /\ f.k = "tick" => (Dispatching(<<f>> \o s) <=> f.at = "dispatch")
<1> DEFINE t == <<f>> \o s
<1>1. /\ Len(s) \in Nat /\ Len(t) = Len(s) + 1
      /\ t[1] = f /\ 1 \in 1..Len(t)
      /\ \A i \in 1..Len(s) : i + 1 \in 1..Len(t) /\ t[i + 1] = s[i]
      /\ \A i \in 1..Len(t) : i = 1 \/ (i - 1 \in 1..Len(s) /\ t[i] = s[i - 1])
  BY Pushed
<1> HIDE DEF t
<1>2. ASSUME f.k # "tick", Dispatching(t) PROVE Dispatching(s)
  <2>1. PICK i \in 1..Len(t) : /\ t[i].k = "tick" /\ t[i].at = "dispatch"
                               /\ \A j \in 1..Len(t) : t[j].k = "tick" => i <= j
    BY <1>2 DEF Dispatching
  <2>2. i - 1 \in 1..Len(s) /\ t[i] = s[i - 1]
    BY <1>1, <1>2, <2>1
  <2>3. \A j \in 1..Len(s) : s[j].k = "tick" => i - 1 <= j
    BY <1>1, <2>1
  <2> QED
    BY <2>1, <2>2, <2>3 DEF Dispatching
<1>3. ASSUME f.k # "tick", Dispatching(s) PROVE Dispatching(t)
  <2>1. PICK i \in 1..Len(s) : /\ s[i].k = "tick" /\ s[i].at = "dispatch"
                               /\ \A j \in 1..Len(s) : s[j].k = "tick" => i <= j
    BY <1>3 DEF Dispatching
  <2>2. i + 1 \in 1..Len(t) /\ t[i + 1] = s[i]
    BY <1>1
  <2>3. ASSUME NEW j \in 1..Len(t), t[j].k = "tick" PROVE i + 1 <= j
    <3>1. j - 1 \in 1..Len(s) /\ t[j] = s[j - 1]
      BY <1>1, <1>3, <2>3
    <3>2. i <= j - 1
      BY <2>1, <2>3, <3>1
    <3> QED
      BY <1>1, <3>2
  <2> QED
    BY <2>1, <2>2, <2>3 DEF Dispatching
<1>4. ASSUME f.k = "tick", Dispatching(t) PROVE f.at = "dispatch"
  <2>1. PICK i \in 1..Len(t) : /\ t[i].k = "tick" /\ t[i].at = "dispatch"
                               /\ \A j \in 1..Len(t) : t[j].k = "tick" => i <= j
    BY <1>4 DEF Dispatching
  <2>2. i = 1
    BY <1>1, <1>4, <2>1
  <2> QED
    BY <1>1, <2>1, <2>2
<1>5. ASSUME f.k = "tick", f.at = "dispatch" PROVE Dispatching(t)
  BY <1>1, <1>5 DEF Dispatching
<1> QED
  BY <1>2, <1>3, <1>4, <1>5 DEF t

-----------------------------------------------------------------------------
(* What keeps the core invariant. Each lemma is about one thing that       *)
(* happens to connects, requests, queues and stacks together.              *)

ConnMap == [Conns -> ConnRecord]
ReqMap == [Reqs -> ReqRecord]
QueueMap == [Loops -> SUBSET Conns]
ViewMap == [Loops -> Views]

NoRequest == [NoReq EXCEPT !.life = "freed"]

\* Equality, for sets, whose elements are of no interest then.
Is(a, b) == a = b

\* One more, and one less.
LEMMA OneMore ==
  ASSUME NEW S, NEW T, NEW x, IsFiniteSet(S), x \notin S, T = S \cup {x}
  PROVE  Cardinality(T) = Cardinality(S) + 1
  BY FS_AddElement

\* One element taken away.
LEMMA OneLess ==
  ASSUME NEW S, NEW T, NEW x, IsFiniteSet(S), x \in S, T = S \ {x}
  PROVE  Cardinality(T) = Cardinality(S) - 1
  BY FS_RemoveElement

\* The invariant reads only these fields.
SameConn(s, t) == /\ s.life = t.life /\ s.loop = t.loop /\ s.req = t.req
                  /\ s.pending = t.pending /\ s.closed = t.closed
                  /\ s.linked = t.linked /\ s.att = t.att /\ s.told = t.told

SameReq(q, p) == /\ q.life = p.life /\ q.result = p.result /\ q.notify = p.notify
                 /\ q.refs = p.refs /\ q.moved = p.moved

\* Only what the core invariant does not read changes.
LEMMA CoreSame ==
  ASSUME NEW conn \in ConnMap, NEW req \in ReqMap, NEW cache \in SUBSET Reqs,
         NEW Q \in QueueMap, NEW V \in ViewMap,
         NEW conn2 \in ConnMap, NEW req2 \in ReqMap,
         \A c \in Conns : SameConn(conn[c], conn2[c]),
         \A r \in Reqs : SameReq(req[r], req2[r]),
         Core(conn, req, cache, Q, V)
  PROVE  Core(conn2, req2, cache, Q, V)
<1>1. ConnInv(conn2, req2)
  <2> SUFFICES ASSUME NEW c \in Conns PROVE ConnOK(conn2[c], req2)
    BY DEF ConnInv
  <2>1. ConnOK(conn[c], req) /\ SameConn(conn[c], conn2[c])
    BY DEF Core, ConnInv
  <2>2. \A r \in Reqs : req2[r].result = req[r].result
    BY DEF SameReq
  <2> QED
    BY <2>1, <2>2 DEF ConnOK, SameConn
<1>2. RefInv(conn2, req2, cache, V)
  <2> SUFFICES ASSUME NEW r \in Reqs PROVE RefOK(conn2, req2, cache, V, r)
    BY DEF RefInv
  <2>1. RefOK(conn, req, cache, V, r) /\ SameReq(req[r], req2[r])
    BY DEF Core, RefInv
  <2>2. HoldersOf(conn2, r) = HoldersOf(conn, r)
    BY DEF HoldersOf, SameConn
  <2> QED
    BY <2>1, <2>2 DEF RefOK, SameReq
<1>3. WaitInv(conn2, req2, Q, V)
  <2> SUFFICES ASSUME NEW c \in Conns PROVE WaitOK(conn2, req2, Q, V, c)
    BY DEF WaitInv
  <2>1. WaitOK(conn, req, Q, V, c) /\ SameConn(conn[c], conn2[c]) /\ ConnOK(conn[c], req)
    BY DEF Core, WaitInv, ConnInv
  <2>2. \A r \in Reqs : SameReq(req[r], req2[r])
    OBVIOUS
  <2> QED
    BY <2>1, <2>2 DEF WaitOK, SameConn, SameReq, ConnOK
<1>4. LeadInv(conn2, req2, V)
  <2> SUFFICES ASSUME NEW l \in Loops PROVE LeadOK(conn2, req2, V, l)
    BY DEF LeadInv
  <2>1. LeadOK(conn, req, V, l) /\ V[l] \in Views
    BY DEF Core, LeadInv, ViewMap
  <2>2. \A r \in Reqs : SameReq(req[r], req2[r])
    OBVIOUS
  <2>3. \A c \in Conns : SameConn(conn[c], conn2[c])
    OBVIOUS
  <2> QED
    BY <2>1, <2>2, <2>3 DEF LeadOK, SameConn, SameReq, Views
<1> QED
  BY <1>1, <1>2, <1>3, <1>4 DEF Core

\* A request nobody counts has no holders and nobody waits on it.
LEMMA Unheld ==
  ASSUME NEW conn \in ConnMap, NEW req \in ReqMap, NEW cache \in SUBSET Reqs,
         NEW Q \in QueueMap, NEW V \in ViewMap,
         Core(conn, req, cache, Q, V),
         NEW r \in Reqs, req[r].life = "live", req[r].refs = 0
  PROVE  /\ HoldersOf(conn, r) = {} /\ BorrowersOf(V, r) = {}
         /\ req[r].result # -1 /\ req[r].notify = {} /\ req[r].moved = {}
<1>1. RefOK(conn, req, cache, V, r)
  BY DEF Core, RefInv
<1>2. IsFiniteSet(HoldersOf(conn, r)) /\ IsFiniteSet(BorrowersOf(V, r))
  BY Bounds, FS_Subset DEF HoldersOf, BorrowersOf
<1>3. Cardinality(HoldersOf(conn, r)) \in Nat /\ Cardinality(BorrowersOf(V, r)) \in Nat
  BY <1>2, FS_CardinalityType
<1>4. /\ Cardinality(HoldersOf(conn, r)) = 0 /\ Cardinality(BorrowersOf(V, r)) = 0
      /\ req[r].result # -1
  BY <1>1, <1>3 DEF RefOK
<1>5. HoldersOf(conn, r) = {} /\ BorrowersOf(V, r) = {}
  BY <1>2, <1>4, FS_EmptySet
<1>6. req[r].notify = {}
  BY <1>1, <1>4 DEF RefOK
<1>7. ASSUME NEW c \in req[r].moved PROVE FALSE
  <2>1. c \in Conns
    BY DEF ReqMap, ReqRecord
  <2>2. conn[c].life = "live" /\ conn[c].req = r
    BY <1>7, <2>1 DEF Core, WaitInv, WaitOK
  <2> QED
    BY <1>5, <2>1, <2>2 DEF HoldersOf
<1> QED
  BY <1>4, <1>5, <1>6, <1>7

\* Requests that nobody counts are freed.
Empties(req, req2, S) ==
  /\ \A r \in S : req[r].life = "live" /\ req[r].refs = 0 /\ req2[r] = NoRequest
  /\ \A r \in Reqs \ S : SameReq(req[r], req2[r])

\* Requests that nobody counts are freed and leave the cache.
LEMMA CoreFree ==
  ASSUME NEW conn \in ConnMap, NEW req \in ReqMap, NEW cache \in SUBSET Reqs,
         NEW Q \in QueueMap, NEW V \in ViewMap,
         Core(conn, req, cache, Q, V),
         NEW S \in SUBSET Reqs, NEW req2 \in ReqMap, Empties(req, req2, S),
         NEW cache2, Is(cache2, cache \ S)
  PROVE  Core(conn, req2, cache2, Q, V)
<1> USE DEF Empties, Is
<1>1. ASSUME NEW r \in S
      PROVE  /\ HoldersOf(conn, r) = {} /\ BorrowersOf(V, r) = {}
             /\ req[r].result # -1 /\ req[r].notify = {} /\ req[r].moved = {}
  BY <1>1, Unheld
<1>2. \A c \in Conns : conn[c].life = "live" => conn[c].req \notin S
  BY <1>1 DEF HoldersOf
<1>3. \A r \in S : req2[r].life = "freed" /\ req2[r].notify = {} /\ req2[r].moved = {} /\ req2[r].result = -1
  BY DEF NoRequest, NoReq
<1>4. ConnInv(conn, req2)
  <2> SUFFICES ASSUME NEW c \in Conns PROVE ConnOK(conn[c], req2)
    BY DEF ConnInv
  <2>1. ConnOK(conn[c], req)
    BY DEF Core, ConnInv
  <2>2. \A r \in Reqs \ S : req2[r].result = req[r].result
    BY DEF SameReq
  <2> QED
    BY <1>2, <2>1, <2>2 DEF ConnOK
<1>5. RefInv(conn, req2, cache \ S, V)
  <2> SUFFICES ASSUME NEW r \in Reqs PROVE RefOK(conn, req2, cache \ S, V, r)
    BY DEF RefInv
  <2>1. CASE r \in S
    BY <1>1, <1>3, <2>1 DEF RefOK
  <2>2. CASE r \notin S
    <3>1. RefOK(conn, req, cache, V, r) /\ SameReq(req[r], req2[r])
      BY <2>2 DEF Core, RefInv
    <3> QED
      BY <3>1 DEF RefOK, SameReq
  <2> QED
    BY <2>1, <2>2
<1>6. WaitInv(conn, req2, Q, V)
  <2> SUFFICES ASSUME NEW c \in Conns PROVE WaitOK(conn, req2, Q, V, c)
    BY DEF WaitInv
  <2>1. WaitOK(conn, req, Q, V, c) /\ ConnOK(conn[c], req)
    BY DEF Core, WaitInv, ConnInv
  <2>2. \A r \in Reqs \ S : SameReq(req[r], req2[r])
    OBVIOUS
  <2> QED
    BY <1>2, <1>3, <2>1, <2>2 DEF WaitOK, SameReq, ConnOK
<1>7. LeadInv(conn, req2, V)
  <2> SUFFICES ASSUME NEW l \in Loops PROVE LeadOK(conn, req2, V, l)
    BY DEF LeadInv
  <2>1. LeadOK(conn, req, V, l) /\ V[l] \in Views
    BY DEF Core, LeadInv, ViewMap
  <2>2. \A r \in Reqs \ S : SameReq(req[r], req2[r])
    OBVIOUS
  <2>3. \A r \in V[l].borrow : r \notin S
    BY <1>1 DEF BorrowersOf
  <2> QED
    BY <2>1, <2>2, <2>3 DEF LeadOK, SameReq, Views
<1> QED
  BY <1>4, <1>5, <1>6, <1>7 DEF Core

\* A connect lets go of its request: it is closed, or dead.
LetsGo(s, t) ==
  /\ t.told = 1 /\ ~t.pending /\ t.att = NoAttempts /\ t.loop = s.loop
  /\ \/ t.life = "live" /\ t.closed /\ t.req = Null
     \/ t.life = "dead" /\ ~t.linked


\* A connect gives up its request, its list and its drain.
LEMMA CoreLetGo ==
  ASSUME NEW conn \in ConnMap, NEW req \in ReqMap, NEW cache \in SUBSET Reqs,
         NEW Q \in QueueMap, NEW V \in ViewMap,
         Core(conn, req, cache, Q, V),
         NEW c \in Conns, NEW r \in Reqs, conn[c].life = "live", conn[c].req = r,
         NEW conn2 \in ConnMap, NEW req2 \in ReqMap, NEW V2 \in ViewMap,
         \A d \in Conns \ {c} : SameConn(conn[d], conn2[d]),
         LetsGo(conn[c], conn2[c]),
         conn2[c].linked => c \in V2[conn[c].loop].closing,
         \A q \in Reqs \ {r} : SameReq(req[q], req2[q]),
         /\ req2[r].life = req[r].life /\ req2[r].result = req[r].result
         /\ req2[r].notify = req[r].notify \ {c} /\ req2[r].moved = req[r].moved
         /\ req2[r].refs = req[r].refs - 1,
         c \notin req[r].moved, \A l \in Loops : c \notin Q[l],
         \A l \in Loops :
           /\ V2[l].drain = V[l].drain \ {c}
           /\ V2[l].borrow = V[l].borrow /\ V2[l].hit = V[l].hit
           /\ V[l].closing \subseteq V2[l].closing
           /\ V2[l].closing \subseteq V[l].closing \cup {d \in {c} : conn[c].loop = l}
           /\ V2[l].free \subseteq V[l].free \cup {d \in {c} : conn[c].loop = l /\ c \in V2[l].closing}
  PROVE  Core(conn2, req2, cache, Q, V2)
<1>0. /\ ConnOK(conn[c], req) /\ WaitOK(conn, req, Q, V, c) /\ RefOK(conn, req, cache, V, r)
      /\ conn[c] \in ConnRecord /\ conn2[c] \in ConnRecord
  BY DEF Core, ConnInv, WaitInv, RefInv, ConnMap
<1>1. HoldersOf(conn2, r) = HoldersOf(conn, r) \ {c} /\ c \in HoldersOf(conn, r)
  <2>1. conn2[c].life # "live" \/ conn2[c].req # r
    BY Bounds DEF LetsGo
  <2> QED
    BY <2>1 DEF HoldersOf, SameConn
<1>2. \A q \in Reqs \ {r} : HoldersOf(conn2, q) = HoldersOf(conn, q)
  <2>1. \A q \in Reqs : conn2[c].life # "live" \/ conn2[c].req # q
    BY Bounds DEF LetsGo
  <2> QED
    BY <2>1 DEF HoldersOf, SameConn
<1>3. \A q \in Reqs : BorrowersOf(V2, q) = BorrowersOf(V, q)
  BY DEF BorrowersOf
<1>4. \A q \in Reqs : req2[q].result = req[q].result /\ req2[q].moved = req[q].moved /\ req2[q].life = req[q].life
  BY DEF SameReq
<1>5. req[r].life = "live"
  BY <1>0, <1>1 DEF RefOK
<1>6. ConnInv(conn2, req2)
  <2> SUFFICES ASSUME NEW d \in Conns PROVE ConnOK(conn2[d], req2)
    BY DEF ConnInv
  <2>1. CASE d = c
    BY <1>0, <2>1, Bounds DEF ConnOK, LetsGo
  <2>2. CASE d # c
    <3>1. ConnOK(conn[d], req) /\ SameConn(conn[d], conn2[d])
      BY <2>2 DEF Core, ConnInv
    <3> QED
      BY <1>4, <3>1 DEF ConnOK, SameConn
  <2> QED
    BY <2>1, <2>2
<1>7. RefInv(conn2, req2, cache, V2)
  <2> SUFFICES ASSUME NEW q \in Reqs PROVE RefOK(conn2, req2, cache, V2, q)
    BY DEF RefInv
  <2>1. CASE q = r
    <3>1. IsFiniteSet(HoldersOf(conn, r)) /\ IsFiniteSet(BorrowersOf(V, r))
      BY Bounds, FS_Subset DEF HoldersOf, BorrowersOf
    <3>2. /\ Cardinality(HoldersOf(conn2, r)) = Cardinality(HoldersOf(conn, r)) - 1
          /\ Cardinality(HoldersOf(conn, r)) \in Nat /\ Cardinality(BorrowersOf(V, r)) \in Nat
      BY <1>1, <3>1, FS_RemoveElement, FS_CardinalityType
    <3> QED
      BY <1>0, <1>3, <1>5, <2>1, <3>2 DEF RefOK
  <2>2. CASE q # r
    <3>1. RefOK(conn, req, cache, V, q) /\ SameReq(req[q], req2[q])
      BY <2>2 DEF Core, RefInv
    <3> QED
      BY <1>2, <1>3, <2>2, <3>1 DEF RefOK, SameReq
  <2> QED
    BY <2>1, <2>2
<1>8. WaitInv(conn2, req2, Q, V2)
  <2> SUFFICES ASSUME NEW d \in Conns PROVE WaitOK(conn2, req2, Q, V2, d)
    BY DEF WaitInv
  <2>0. \A q \in Reqs \ {r} : req2[q].notify = req[q].notify
    BY DEF SameReq
  <2>1. CASE d = c
    <3>1. \A q \in Reqs : c \notin req2[q].notify /\ c \notin req2[q].moved
      BY <1>0, <1>4, <2>0 DEF WaitOK
    <3>2. ~conn2[c].pending /\ \A l \in Loops : c \notin V2[l].drain
      BY DEF LetsGo
    <3> QED
      BY <2>1, <3>1, <3>2 DEF WaitOK
  <2>2. CASE d # c
    <3>1. WaitOK(conn, req, Q, V, d) /\ SameConn(conn[d], conn2[d]) /\ ConnOK(conn[d], req)
      BY <2>2 DEF Core, WaitInv, ConnInv
    <3>2. \A q \in Reqs : d \in req2[q].notify <=> d \in req[q].notify
      BY <2>0, <2>2
    <3>3. \A l \in Loops : d \in V2[l].drain <=> d \in V[l].drain
      BY <2>2
    <3> QED
      BY <1>4, <3>1, <3>2, <3>3 DEF WaitOK, SameConn, ConnOK
  <2> QED
    BY <2>1, <2>2
<1>9. LeadInv(conn2, req2, V2)
  <2> SUFFICES ASSUME NEW l \in Loops PROVE LeadOK(conn2, req2, V2, l)
    BY DEF LeadInv
  <2>1. LeadOK(conn, req, V, l) /\ V[l] \in Views /\ V2[l] \in Views
    BY DEF Core, LeadInv, ViewMap
  <2>2. \A d \in Conns \ {c} : SameConn(conn[d], conn2[d])
    OBVIOUS
  <2>3. \A q \in V2[l].hit : q \in V2[l].borrow /\ req2[q].result # -1
    BY <1>4, <2>1 DEF LeadOK, Views
  <2>4. ASSUME NEW d \in V2[l].closing
        PROVE  /\ conn2[d].told = 1 /\ conn2[d].loop = l
               /\ conn2[d].life \in {"live", "dead"}
    <3>1. CASE d = c
      BY <2>1, <2>4, <3>1 DEF LeadOK, LetsGo
    <3>2. CASE d # c
      BY <2>1, <2>2, <2>4, <3>2 DEF LeadOK, SameConn, Views
    <3> QED
      BY <3>1, <3>2
  <2>5. ASSUME NEW d \in V2[l].free PROVE d \in V2[l].closing /\ ~conn2[d].pending
    <3>1. CASE d = c
      BY <2>1, <2>5, <3>1 DEF LeadOK, LetsGo
    <3>2. CASE d # c
      BY <2>1, <2>2, <2>5, <3>2 DEF LeadOK, SameConn, Views
    <3> QED
      BY <3>1, <3>2
  <2>6. ASSUME NEW d \in Conns, conn2[d].loop = l, conn2[d].linked, conn2[d].told = 1
        PROVE  d \in V2[l].closing
    <3>1. CASE d = c
      BY <2>6, <3>1 DEF LetsGo
    <3>2. CASE d # c
      BY <2>1, <2>2, <2>6, <3>2 DEF LeadOK, SameConn, Views
    <3> QED
      BY <3>1, <3>2
  <2> QED
    BY <2>3, <2>4, <2>5, <2>6 DEF LeadOK
<1> QED
  BY <1>6, <1>7, <1>8, <1>9 DEF Core

\* A connect goes on from record s to t, and keeps its request if it had one.
GoesOn(s, t) ==
  /\ s.life \in {"live", "dead"} /\ t.life \in {"live", "dead"} /\ t.loop = s.loop
  /\ s.told = 1 => t.told = 1
  /\ \A r \in Reqs : (t.life = "live" /\ t.req = r) <=> (s.life = "live" /\ s.req = r)

Moves(conn, req, V, conn2, V2, c) ==
  /\ \A d \in Conns \ {c} : SameConn(conn[d], conn2[d])
  /\ GoesOn(conn[c], conn2[c]) /\ ConnOK(conn2[c], req)
  /\ \/ /\ conn2[c].pending = conn[c].pending
        /\ conn2[c].life = conn[c].life \/ ~conn[c].pending
        /\ \A l \in Loops : V2[l].drain = V[l].drain
     \/ /\ conn[c].pending /\ ~conn2[c].pending
        /\ c \in V[conn[c].loop].drain
        /\ \A l \in Loops : V2[l].drain = V[l].drain \ {c}
  /\ conn2[c].linked /\ conn2[c].told = 1 => c \in V2[conn[c].loop].closing
  /\ \A l \in Loops :
       /\ V2[l].borrow = V[l].borrow /\ V2[l].hit = V[l].hit
       /\ V2[l].closing \ {c} = V[l].closing \ {c}
       /\ c \in V2[l].closing => conn2[c].told = 1 /\ conn2[c].loop = l
       /\ V2[l].free \ {c} \subseteq V[l].free
       /\ c \in V2[l].free => c \in V2[l].closing /\ ~conn2[c].pending

\* One connect goes on, with the request it has.
LEMMA CoreOne ==
  ASSUME NEW conn \in ConnMap, NEW req \in ReqMap, NEW cache \in SUBSET Reqs,
         NEW Q \in QueueMap, NEW V \in ViewMap,
         Core(conn, req, cache, Q, V),
         NEW c \in Conns, NEW conn2 \in ConnMap, NEW V2 \in ViewMap,
         Moves(conn, req, V, conn2, V2, c)
  PROVE  Core(conn2, req, cache, Q, V2)
<1> USE DEF Moves
<1>1. ConnInv(conn2, req)
  <2> SUFFICES ASSUME NEW d \in Conns, d # c PROVE ConnOK(conn2[d], req)
    BY DEF ConnInv
  <2>1. ConnOK(conn[d], req) /\ SameConn(conn[d], conn2[d])
    BY DEF Core, ConnInv
  <2> QED
    BY <2>1 DEF ConnOK, SameConn
<1>2. RefInv(conn2, req, cache, V2)
  <2> SUFFICES ASSUME NEW r \in Reqs PROVE RefOK(conn2, req, cache, V2, r)
    BY DEF RefInv
  <2>1. RefOK(conn, req, cache, V, r)
    BY DEF Core, RefInv
  <2>2. HoldersOf(conn2, r) = HoldersOf(conn, r)
    <3>1. (conn2[c].life = "live" /\ conn2[c].req = r) <=> (conn[c].life = "live" /\ conn[c].req = r)
      BY DEF GoesOn
    <3>2. \A d \in Conns \ {c} : conn2[d].life = conn[d].life /\ conn2[d].req = conn[d].req
      BY DEF SameConn
    <3> QED
      BY <3>1, <3>2 DEF HoldersOf
  <2>3. BorrowersOf(V2, r) = BorrowersOf(V, r)
    BY DEF BorrowersOf
  <2> QED
    BY <2>1, <2>2, <2>3 DEF RefOK
<1>3. WaitInv(conn2, req, Q, V2)
  <2> SUFFICES ASSUME NEW d \in Conns PROVE WaitOK(conn2, req, Q, V2, d)
    BY DEF WaitInv
  <2>0. WaitOK(conn, req, Q, V, d) /\ ConnOK(conn[d], req)
    BY DEF Core, WaitInv, ConnInv
  <2>1. CASE d = c
    <3>1. CASE conn[c].pending /\ conn2[c].pending
      <4>1. conn[c].life = "live" /\ conn2[c].life = "live" /\ conn2[c].req = conn[c].req
        BY <2>0, <2>1, <3>1 DEF ConnOK, GoesOn
      <4>2. conn2[c].loop = conn[c].loop /\ \A l \in Loops : V2[l].drain = V[l].drain
        BY <3>1 DEF GoesOn
      <4> QED
        BY <2>0, <2>1, <3>1, <4>1, <4>2 DEF WaitOK, ConnOK
    <3>2. CASE ~conn[c].pending
      BY <2>0, <2>1, <3>2 DEF WaitOK
    <3>3. CASE conn[c].pending /\ ~conn2[c].pending
      <4>1. /\ c \in V[conn[c].loop].drain /\ conn[c].life = "live"
            /\ conn[c].req \in Reqs /\ conn[c].loop \in Loops
        BY <2>0, <2>1, <3>3 DEF ConnOK
      <4>2. /\ req[conn[c].req].result # -1 /\ c \notin req[conn[c].req].moved
            /\ \A l \in Loops : c \notin Q[l]
        BY <2>0, <2>1, <4>1 DEF WaitOK
      <4>3. req[conn[c].req].notify = {}
        BY <4>1, <4>2 DEF Core, RefInv, RefOK
      <4>4. \A r \in Reqs : c \notin req[r].notify /\ c \notin req[r].moved
        BY <2>0, <2>1, <4>2, <4>3 DEF WaitOK
      <4>5. ASSUME NEW l \in Loops PROVE c \notin V2[l].drain
        <5>1. V2[l].drain = V[l].drain \ {c}
          BY <3>3
        <5> QED
          BY ONLY <5>1
      <4> QED
        BY <2>1, <3>3, <4>2, <4>4, <4>5 DEF WaitOK
    <3> QED
      BY <3>1, <3>2, <3>3
  <2>2. CASE d # c
    <3>1. SameConn(conn[d], conn2[d])
      BY <2>2
    <3>2. \A l \in Loops : d \in V2[l].drain <=> d \in V[l].drain
      BY <2>2
    <3> QED
      BY <2>0, <3>1, <3>2 DEF WaitOK, SameConn, ConnOK
  <2> QED
    BY <2>1, <2>2
<1>4. LeadInv(conn2, req, V2)
  <2> SUFFICES ASSUME NEW l \in Loops PROVE LeadOK(conn2, req, V2, l)
    BY DEF LeadInv
  <2>1. LeadOK(conn, req, V, l) /\ V[l] \in Views /\ V2[l] \in Views
    BY DEF Core, LeadInv, ViewMap
  <2>2. \A d \in Conns \ {c} : SameConn(conn[d], conn2[d])
    OBVIOUS
  <2>3. \A q \in V2[l].hit : q \in V2[l].borrow /\ req[q].result # -1
    BY <2>1 DEF LeadOK, Views
  <2>4. ASSUME NEW d \in V2[l].closing
        PROVE  /\ conn2[d].told = 1 /\ conn2[d].loop = l
               /\ conn2[d].life \in {"live", "dead"}
    <3>1. CASE d = c
      BY <2>4, <3>1 DEF GoesOn
    <3>2. CASE d # c
      BY <2>1, <2>2, <2>4, <3>2 DEF LeadOK, SameConn, Views
    <3> QED
      BY <3>1, <3>2
  <2>5. ASSUME NEW d \in V2[l].free PROVE d \in V2[l].closing /\ ~conn2[d].pending
    <3>1. CASE d = c
      BY <2>5, <3>1
    <3>2. CASE d # c
      BY <2>1, <2>2, <2>5, <3>2 DEF LeadOK, SameConn, Views
    <3> QED
      BY <3>1, <3>2
  <2>6. ASSUME NEW d \in Conns, conn2[d].loop = l, conn2[d].linked, conn2[d].told = 1
        PROVE  d \in V2[l].closing
    <3>1. CASE d = c
      BY <2>6, <3>1 DEF GoesOn
    <3>2. CASE d # c
      BY <2>1, <2>2, <2>6, <3>2 DEF LeadOK, SameConn, Views
    <3> QED
      BY <3>1, <3>2
  <2> QED
    BY <2>3, <2>4, <2>5, <2>6 DEF LeadOK
<1> QED
  BY <1>1, <1>2, <1>3, <1>4 DEF Core

\* Only the references to one request change, or who borrows it.
Refers(req, req2, V, V2, r, l) ==
  /\ \A q \in Reqs \ {r} : SameReq(req[q], req2[q])
  /\ req[r].life = "live"
  /\ req2[r].life = req[r].life /\ req2[r].result = req[r].result
  /\ req2[r].notify = req[r].notify /\ req2[r].moved = req[r].moved
  /\ \A k \in Loops :
       /\ V2[k].drain = V[k].drain /\ V2[k].closing = V[k].closing
       /\ V2[k].free = V[k].free
  /\ \A k \in Loops \ {l} : V2[k].borrow = V[k].borrow /\ V2[k].hit = V[k].hit
  /\ \/ /\ req2[r].refs = req[r].refs + 1
        /\ r \notin V[l].borrow /\ V2[l].borrow = V[l].borrow \cup {r}
     \/ /\ req2[r].refs = req[r].refs - 1
        /\ r \in V[l].borrow /\ V2[l].borrow = V[l].borrow \ {r}
  /\ \A q \in V2[l].hit : q \in V2[l].borrow /\ req[q].result # -1

\* A call borrows a request or gives it back, or who counts it changes.
LEMMA CoreRefs ==
  ASSUME NEW conn \in ConnMap, NEW req \in ReqMap, NEW cache \in SUBSET Reqs,
         NEW Q \in QueueMap, NEW V \in ViewMap,
         Core(conn, req, cache, Q, V),
         NEW r \in Reqs, NEW l \in Loops, NEW req2 \in ReqMap, NEW V2 \in ViewMap,
         Refers(req, req2, V, V2, r, l)
  PROVE  Core(conn, req2, cache, Q, V2)
<1> USE DEF Refers
<1>0. /\ req[r] \in ReqRecord
      /\ req2[r].life = "live" /\ req2[r].result = req[r].result
      /\ req2[r].notify = req[r].notify /\ req2[r].moved = req[r].moved
  BY DEF SameReq, ReqMap, ReqRecord
<1>1. \A q \in Reqs : /\ req2[q].result = req[q].result /\ req2[q].life = req[q].life
                      /\ req2[q].notify = req[q].notify /\ req2[q].moved = req[q].moved
  BY <1>0 DEF SameReq
<1>2. ConnInv(conn, req2)
  <2> SUFFICES ASSUME NEW d \in Conns PROVE ConnOK(conn[d], req2)
    BY DEF ConnInv
  <2>1. ConnOK(conn[d], req)
    BY DEF Core, ConnInv
  <2> QED
    BY <1>1, <2>1 DEF ConnOK
<1>3. RefInv(conn, req2, cache, V2)
  <2> SUFFICES ASSUME NEW q \in Reqs PROVE RefOK(conn, req2, cache, V2, q)
    BY DEF RefInv
  <2>1. RefOK(conn, req, cache, V, q)
    BY DEF Core, RefInv
  <2>2. CASE q = r
    <3>1. IsFiniteSet(HoldersOf(conn, r)) /\ IsFiniteSet(BorrowersOf(V, r))
      BY Bounds, FS_Subset DEF HoldersOf, BorrowersOf
    <3>2. Cardinality(HoldersOf(conn, r)) \in Nat /\ Cardinality(BorrowersOf(V, r)) \in Nat
      BY <3>1, FS_CardinalityType
    <3>3. CASE req2[r].refs = req[r].refs + 1 /\ r \notin V[l].borrow /\ V2[l].borrow = V[l].borrow \cup {r}
      <4>1. BorrowersOf(V2, r) = BorrowersOf(V, r) \cup {l} /\ l \notin BorrowersOf(V, r)
        BY <3>3 DEF BorrowersOf
      <4>2. Cardinality(BorrowersOf(V2, r)) = Cardinality(BorrowersOf(V, r)) + 1
        BY <3>1, <4>1, OneMore
      <4> QED
        BY <1>0, <2>1, <2>2, <3>2, <3>3, <4>2 DEF RefOK
    <3>4. CASE req2[r].refs = req[r].refs - 1 /\ r \in V[l].borrow /\ V2[l].borrow = V[l].borrow \ {r}
      <4>1. BorrowersOf(V2, r) = BorrowersOf(V, r) \ {l} /\ l \in BorrowersOf(V, r)
        BY <3>4 DEF BorrowersOf
      <4>2. Cardinality(BorrowersOf(V2, r)) = Cardinality(BorrowersOf(V, r)) - 1
        BY <3>1, <4>1, OneLess
      <4> QED
        BY <1>0, <2>1, <2>2, <3>2, <3>4, <4>2 DEF RefOK
    <3> QED
      BY <3>3, <3>4
  <2>3. CASE q # r
    <3>1. BorrowersOf(V2, q) = BorrowersOf(V, q)
      BY <2>3 DEF BorrowersOf
    <3>2. SameReq(req[q], req2[q])
      BY <2>3
    <3> QED
      BY <2>1, <3>1, <3>2 DEF RefOK, SameReq
  <2> QED
    BY <2>2, <2>3
<1>4. WaitInv(conn, req2, Q, V2)
  <2> SUFFICES ASSUME NEW d \in Conns PROVE WaitOK(conn, req2, Q, V2, d)
    BY DEF WaitInv
  <2>1. WaitOK(conn, req, Q, V, d) /\ ConnOK(conn[d], req)
    BY DEF Core, WaitInv, ConnInv
  <2> QED
    BY <1>1, <2>1 DEF WaitOK, ConnOK
<1>5. LeadInv(conn, req2, V2)
  <2> SUFFICES ASSUME NEW k \in Loops PROVE LeadOK(conn, req2, V2, k)
    BY DEF LeadInv
  <2>1. LeadOK(conn, req, V, k) /\ V[k] \in Views /\ V2[k] \in Views
    BY DEF Core, LeadInv, ViewMap
  <2>2. \A q \in V2[k].hit : q \in V2[k].borrow /\ req2[q].result # -1
    BY <1>1, <2>1 DEF LeadOK, Views
  <2> QED
    BY <2>1, <2>2 DEF LeadOK
<1> QED
  BY <1>2, <1>3, <1>4, <1>5 DEF Core

\* A new request, counted by its worker.
Makes(req, req2, r) ==
  /\ \A q \in Reqs \ {r} : SameReq(req[q], req2[q])
  /\ req[r].life = "unused" /\ req2[r].life = "live" /\ req2[r].result = -1
  /\ req2[r].notify = {} /\ req2[r].moved = {} /\ req2[r].refs = 1

\* A new request is made.
LEMMA CoreNewReq ==
  ASSUME NEW conn \in ConnMap, NEW req \in ReqMap, NEW cache \in SUBSET Reqs,
         NEW Q \in QueueMap, NEW V \in ViewMap,
         Core(conn, req, cache, Q, V),
         NEW r \in Reqs, NEW req2 \in ReqMap, Makes(req, req2, r)
  PROVE  Core(conn, req2, cache, Q, V)
<1> USE DEF Makes
<1>1. /\ HoldersOf(conn, r) = {} /\ BorrowersOf(V, r) = {}
      /\ req[r].notify = {} /\ req[r].moved = {}
  BY DEF Core, RefInv, RefOK
<1>2. Cardinality(HoldersOf(conn, r)) = 0 /\ Cardinality(BorrowersOf(V, r)) = 0
  BY <1>1, FS_EmptySet
<1>3. \A c \in Conns : conn[c].life = "live" => conn[c].req # r
  BY <1>1 DEF HoldersOf
<1>4. \A q \in Reqs : req2[q].notify = req[q].notify /\ req2[q].moved = req[q].moved
  BY <1>1 DEF SameReq
<1>5. \A q \in Reqs \ {r} : req2[q].result = req[q].result
  BY DEF SameReq
<1>6. ConnInv(conn, req2)
  <2> SUFFICES ASSUME NEW d \in Conns PROVE ConnOK(conn[d], req2)
    BY DEF ConnInv
  <2>1. ConnOK(conn[d], req)
    BY DEF Core, ConnInv
  <2> QED
    BY <1>3, <1>5, <2>1 DEF ConnOK
<1>7. RefInv(conn, req2, cache, V)
  <2> SUFFICES ASSUME NEW q \in Reqs PROVE RefOK(conn, req2, cache, V, q)
    BY DEF RefInv
  <2>1. RefOK(conn, req, cache, V, q)
    BY DEF Core, RefInv
  <2>2. CASE q = r
    BY <1>2, <2>2 DEF RefOK
  <2>3. CASE q # r
    BY <2>1, <2>3 DEF RefOK, SameReq
  <2> QED
    BY <2>2, <2>3
<1>8. WaitInv(conn, req2, Q, V)
  <2> SUFFICES ASSUME NEW d \in Conns PROVE WaitOK(conn, req2, Q, V, d)
    BY DEF WaitInv
  <2>1. WaitOK(conn, req, Q, V, d) /\ ConnOK(conn[d], req)
    BY DEF Core, WaitInv, ConnInv
  <2> QED
    BY <1>3, <1>4, <1>5, <2>1 DEF WaitOK, ConnOK
<1>9. LeadInv(conn, req2, V)
  <2> SUFFICES ASSUME NEW k \in Loops PROVE LeadOK(conn, req2, V, k)
    BY DEF LeadInv
  <2>1. LeadOK(conn, req, V, k) /\ V[k] \in Views
    BY DEF Core, LeadInv, ViewMap
  <2>2. r \notin V[k].borrow
    BY <1>1 DEF BorrowersOf
  <2> QED
    BY <1>5, <2>1, <2>2 DEF LeadOK, Views
<1> QED
  BY <1>6, <1>7, <1>8, <1>9 DEF Core

\* A request put into the cache.
LEMMA CoreCached ==
  ASSUME NEW conn, NEW req, NEW cache, NEW Q, NEW V,
         Core(conn, req, cache, Q, V), NEW r, req[r].life = "live"
  PROVE  Core(conn, req, cache \cup {r}, Q, V)
  BY DEF Core, RefInv, RefOK

\* A connect is made and takes over the reference of the call that made it.
Adopts(conn, conn2, req, req2, Q, Q2, V, V2, l, c, r) ==
  /\ r \in V[l].borrow /\ conn[c].life = "unused"
  /\ \A d \in Conns \ {c} : SameConn(conn[d], conn2[d])
  /\ conn2[c].life = "live" /\ conn2[c].loop = l /\ conn2[c].req = r
  /\ conn2[c].pending /\ ~conn2[c].closed /\ conn2[c].linked
  /\ conn2[c].att = NoAttempts /\ conn2[c].told = 0
  /\ \A q \in Reqs \ {r} : SameReq(req[q], req2[q])
  /\ req2[r].life = req[r].life /\ req2[r].result = req[r].result
  /\ req2[r].refs = req[r].refs /\ req2[r].moved = req[r].moved
  /\ \A k \in Loops \ {l} : Q2[k] = Q[k]
  /\ \/ req[r].result = -1 /\ req2[r].notify = req[r].notify \cup {c} /\ Q2[l] = Q[l]
     \/ req[r].result # -1 /\ req2[r].notify = req[r].notify /\ Q2[l] = Q[l] \cup {c}
  /\ \A k \in Loops :
       /\ V2[k].drain = V[k].drain /\ V2[k].closing = V[k].closing
       /\ V2[k].free = V[k].free
  /\ \A k \in Loops \ {l} : V2[k].borrow = V[k].borrow /\ V2[k].hit = V[k].hit
  /\ V2[l].borrow = V[l].borrow \ {r} /\ V2[l].hit \subseteq V2[l].borrow \cap V[l].hit

\* A new connect takes over the reference of the call that makes it.
LEMMA CoreAdopt ==
  ASSUME NEW conn \in ConnMap, NEW req \in ReqMap, NEW cache \in SUBSET Reqs,
         NEW Q \in QueueMap, NEW V \in ViewMap,
         Core(conn, req, cache, Q, V),
         NEW l \in Loops, NEW c \in Conns, NEW r,
         NEW conn2 \in ConnMap, NEW req2 \in ReqMap, NEW Q2 \in QueueMap, NEW V2 \in ViewMap,
         Adopts(conn, conn2, req, req2, Q, Q2, V, V2, l, c, r)
  PROVE  Core(conn2, req2, cache, Q2, V2)
<1> USE DEF Adopts
<1>0. /\ r \in Reqs /\ req[r] \in ReqRecord
      /\ req2[r].life = req[r].life /\ req2[r].result = req[r].result
      /\ req2[r].refs = req[r].refs /\ req2[r].moved = req[r].moved
  BY DEF SameReq, ReqMap, ReqRecord, ViewMap, Views
<1>1. \A q \in Reqs : /\ req2[q].result = req[q].result /\ req2[q].life = req[q].life
                      /\ req2[q].moved = req[q].moved /\ req2[q].refs = req[q].refs
  BY <1>0 DEF SameReq
<1>2. \A q \in Reqs \ {r} : req2[q].notify = req[q].notify
  BY DEF SameReq
<1>3. /\ HoldersOf(conn2, r) = HoldersOf(conn, r) \cup {c} /\ c \notin HoldersOf(conn, r)
      /\ BorrowersOf(V2, r) = BorrowersOf(V, r) \ {l} /\ l \in BorrowersOf(V, r)
  BY DEF HoldersOf, BorrowersOf, SameConn
<1>4. \A q \in Reqs \ {r} : HoldersOf(conn2, q) = HoldersOf(conn, q) /\ BorrowersOf(V2, q) = BorrowersOf(V, q)
  BY DEF HoldersOf, BorrowersOf, SameConn
<1>5. req[r].life = "live"
  BY <1>0, <1>3 DEF Core, RefInv, RefOK
<1>6. WaitOK(conn, req, Q, V, c) /\ ConnOK(conn[c], req)
  BY DEF Core, WaitInv, ConnInv
<1>7. ConnInv(conn2, req2)
  <2> SUFFICES ASSUME NEW d \in Conns PROVE ConnOK(conn2[d], req2)
    BY DEF ConnInv
  <2>1. CASE d = c
    BY <1>0, <2>1 DEF ConnOK
  <2>2. CASE d # c
    <3>1. ConnOK(conn[d], req) /\ SameConn(conn[d], conn2[d])
      BY <2>2 DEF Core, ConnInv
    <3> QED
      BY <1>1, <3>1 DEF ConnOK, SameConn
  <2> QED
    BY <2>1, <2>2
<1>8. RefInv(conn2, req2, cache, V2)
  <2> SUFFICES ASSUME NEW q \in Reqs PROVE RefOK(conn2, req2, cache, V2, q)
    BY DEF RefInv
  <2>1. RefOK(conn, req, cache, V, q)
    BY DEF Core, RefInv
  <2>2. CASE q = r
    <3>1. IsFiniteSet(HoldersOf(conn, r)) /\ IsFiniteSet(BorrowersOf(V, r))
      BY Bounds, FS_Subset DEF HoldersOf, BorrowersOf
    <3>2. Cardinality(HoldersOf(conn, r)) \in Nat /\ Cardinality(BorrowersOf(V, r)) \in Nat
      BY <3>1, FS_CardinalityType
    <3>3. /\ Cardinality(HoldersOf(conn2, r)) = Cardinality(HoldersOf(conn, r)) + 1
          /\ Cardinality(BorrowersOf(V2, r)) = Cardinality(BorrowersOf(V, r)) - 1
      BY <1>3, <3>1, OneMore, OneLess
    <3>4. req2[r].result # -1 => req2[r].notify = {}
      BY <1>1, <2>1, <2>2 DEF RefOK
    <3> QED
      BY <1>1, <1>5, <2>1, <2>2, <3>2, <3>3, <3>4 DEF RefOK
  <2>3. CASE q # r
    BY <1>1, <1>2, <1>4, <2>1, <2>3 DEF RefOK
  <2> QED
    BY <2>2, <2>3
<1>9. WaitInv(conn2, req2, Q2, V2)
  <2> SUFFICES ASSUME NEW d \in Conns PROVE WaitOK(conn2, req2, Q2, V2, d)
    BY DEF WaitInv
  <2>1. CASE d = c
    <3>1. \A q \in Reqs : c \notin req[q].notify /\ c \notin req[q].moved
      BY <1>6 DEF WaitOK
    <3>2. \A k \in Loops : c \notin Q[k] /\ c \notin V[k].drain
      BY <1>6 DEF WaitOK
    <3>3. \A q \in Reqs : c \in req2[q].notify => q = r /\ req[r].result = -1
      BY <1>2, <3>1
    <3>4. \A k \in Loops : c \in Q2[k] => k = l /\ req[r].result # -1
      BY <3>2
    <3>5. c \in req2[r].notify \/ c \in Q2[l]
      OBVIOUS
    <3> QED
      BY <1>0, <1>1, <2>1, <3>1, <3>2, <3>3, <3>4, <3>5 DEF WaitOK
  <2>2. CASE d # c
    <3>1. WaitOK(conn, req, Q, V, d) /\ SameConn(conn[d], conn2[d]) /\ ConnOK(conn[d], req)
      BY <2>2 DEF Core, WaitInv, ConnInv
    <3>2. \A q \in Reqs : d \in req2[q].notify <=> d \in req[q].notify
      BY <1>2, <2>2
    <3>3. \A k \in Loops : d \in Q2[k] <=> d \in Q[k]
      BY <2>2
    <3> QED
      BY <1>1, <3>1, <3>2, <3>3 DEF WaitOK, SameConn, ConnOK
  <2> QED
    BY <2>1, <2>2
<1>10. LeadInv(conn2, req2, V2)
  <2> SUFFICES ASSUME NEW k \in Loops PROVE LeadOK(conn2, req2, V2, k)
    BY DEF LeadInv
  <2>1. LeadOK(conn, req, V, k) /\ V[k] \in Views /\ V2[k] \in Views
    BY DEF Core, LeadInv, ViewMap
  <2>2. \A q \in V2[k].hit : q \in V2[k].borrow /\ req2[q].result # -1
    BY <1>1, <2>1 DEF LeadOK, Views
  <2>3. c \notin V[k].closing
    BY <2>1 DEF LeadOK
  <2>4. \A d \in Conns \ {c} : SameConn(conn[d], conn2[d])
    OBVIOUS
  <2> QED
    BY <2>1, <2>2, <2>3, <2>4 DEF LeadOK, SameConn, Views
<1> QED
  BY <1>7, <1>8, <1>9, <1>10 DEF Core

\* A result is set, and the worker takes the list of who waits for it.
LEMMA CoreResult ==
  ASSUME NEW conn \in ConnMap, NEW req \in ReqMap, NEW cache \in SUBSET Reqs,
         NEW Q \in QueueMap, NEW V \in ViewMap,
         Core(conn, req, cache, Q, V),
         NEW r \in Reqs, req[r].life = "live", req[r].result = -1, NEW req2 \in ReqMap,
         \A q \in Reqs \ {r} : req2[q] = req[q],
         /\ req2[r].life = "live" /\ req2[r].result # -1 /\ req2[r].notify = {}
         /\ req2[r].moved = req[r].notify /\ req2[r].refs = req[r].refs - 1
  PROVE  Core(conn, req2, cache, Q, V)
<1>1. \A q \in Reqs : req2[q].life = req[q].life /\ (req[q].result # -1 => req2[q].result # -1)
  OBVIOUS
<1>2. ConnInv(conn, req2)
  <2> SUFFICES ASSUME NEW d \in Conns PROVE ConnOK(conn[d], req2)
    BY DEF ConnInv
  <2>1. ConnOK(conn[d], req)
    BY DEF Core, ConnInv
  <2> QED
    BY <1>1, <2>1 DEF ConnOK
<1>3. RefInv(conn, req2, cache, V)
  <2> SUFFICES ASSUME NEW q \in Reqs PROVE RefOK(conn, req2, cache, V, q)
    BY DEF RefInv
  <2>1. RefOK(conn, req, cache, V, q)
    BY DEF Core, RefInv
  <2>2. CASE q = r
    <3>1. IsFiniteSet(HoldersOf(conn, r)) /\ IsFiniteSet(BorrowersOf(V, r))
      BY Bounds, FS_Subset DEF HoldersOf, BorrowersOf
    <3>2. Cardinality(HoldersOf(conn, r)) \in Nat /\ Cardinality(BorrowersOf(V, r)) \in Nat
      BY <3>1, FS_CardinalityType
    <3> QED
      BY <2>1, <2>2, <3>2 DEF RefOK
  <2>3. CASE q # r
    BY <2>1, <2>3 DEF RefOK
  <2> QED
    BY <2>2, <2>3
<1>4. WaitInv(conn, req2, Q, V)
  <2> SUFFICES ASSUME NEW d \in Conns PROVE WaitOK(conn, req2, Q, V, d)
    BY DEF WaitInv
  <2>1. WaitOK(conn, req, Q, V, d) /\ ConnOK(conn[d], req) /\ req[r].moved = {}
    BY DEF Core, WaitInv, ConnInv, RefInv, RefOK
  <2>2. \A q \in Reqs : (d \in req2[q].notify \/ d \in req2[q].moved)
                        <=> (d \in req[q].notify \/ d \in req[q].moved)
    BY <2>1
  <2>3. ASSUME NEW l \in Loops, d \in Q[l] \/ d \in V[l].drain
        PROVE  /\ conn[d].life = "live" /\ conn[d].pending /\ conn[d].loop = l
               /\ req2[conn[d].req].result # -1 /\ d \notin req2[conn[d].req].moved
               /\ ~(d \in Q[l] /\ d \in V[l].drain)
    <3>1. /\ conn[d].life = "live" /\ conn[d].pending /\ conn[d].loop = l
          /\ req[conn[d].req].result # -1 /\ d \notin req[conn[d].req].moved
          /\ ~(d \in Q[l] /\ d \in V[l].drain)
      BY <2>1, <2>3 DEF WaitOK
    <3>2. conn[d].req \in Reqs /\ conn[d].req # r
      BY <2>1, <3>1 DEF ConnOK
    <3> QED
      BY <3>1, <3>2
  <2>4. conn[d].life = "live" /\ conn[d].pending =>
          \/ d \in req2[conn[d].req].notify \/ d \in req2[conn[d].req].moved
          \/ d \in Q[conn[d].loop] \/ d \in V[conn[d].loop].drain
    BY <2>1, <2>2 DEF WaitOK, ConnOK
  <2>5. \A q \in Reqs : d \in req2[q].notify \/ d \in req2[q].moved =>
          conn[d].life = "live" /\ conn[d].pending /\ conn[d].req = q
    BY <2>1, <2>2 DEF WaitOK
  <2> QED
    BY <2>3, <2>4, <2>5 DEF WaitOK
<1>5. LeadInv(conn, req2, V)
  <2> SUFFICES ASSUME NEW k \in Loops PROVE LeadOK(conn, req2, V, k)
    BY DEF LeadInv
  <2>1. LeadOK(conn, req, V, k) /\ V[k] \in Views
    BY DEF Core, LeadInv, ViewMap
  <2> QED
    BY <1>1, <2>1 DEF LeadOK, Views
<1> QED
  BY <1>2, <1>3, <1>4, <1>5 DEF Core

\* The worker queues a connect on its loop.
Notifies(req, req2, Q, Q2, r, l, c) ==
  /\ c \in req[r].moved
  /\ \A q \in Reqs \ {r} : req2[q] = req[q]
  /\ req2[r].life = req[r].life /\ req2[r].result = req[r].result
  /\ req2[r].notify = req[r].notify /\ req2[r].refs = req[r].refs
  /\ req2[r].moved = req[r].moved \ {c}
  /\ \A x \in Loops : Q2[x] = IF x = l THEN Q[x] \cup {c} ELSE Q[x]

\* A worker puts a connect of its list into the queue of its loop.
LEMMA CoreNotify ==
  ASSUME NEW conn \in ConnMap, NEW req \in ReqMap, NEW cache \in SUBSET Reqs,
         NEW Q \in QueueMap, NEW V \in ViewMap,
         Core(conn, req, cache, Q, V),
         NEW r \in Reqs, NEW c \in Conns, NEW req2 \in ReqMap, NEW Q2 \in QueueMap,
         Notifies(req, req2, Q, Q2, r, conn[c].loop, c)
  PROVE  Core(conn, req2, cache, Q2, V) /\ c \notin Q[conn[c].loop]
<1> USE DEF Notifies
<1>0. c \in Conns
  BY DEF ReqMap, ReqRecord
<1>1. /\ conn[c].life = "live" /\ conn[c].pending /\ conn[c].req = r
      /\ \A l \in Loops : c \notin Q[l] /\ c \notin V[l].drain
  BY <1>0 DEF Core, WaitInv, WaitOK
<1>2. conn[c].loop \in Loops
  BY <1>0, <1>1 DEF Core, ConnInv, ConnOK
<1>3. req[r].result # -1
  BY DEF Core, RefInv, RefOK
<1>4. \A q \in Reqs : req2[q].life = req[q].life /\ req2[q].result = req[q].result
                      /\ req2[q].notify = req[q].notify /\ req2[q].refs = req[q].refs
                      /\ req2[q].moved \subseteq req[q].moved
  OBVIOUS
<1>5. ConnInv(conn, req2)
  <2> SUFFICES ASSUME NEW d \in Conns PROVE ConnOK(conn[d], req2)
    BY DEF ConnInv
  <2>1. ConnOK(conn[d], req)
    BY DEF Core, ConnInv
  <2> QED
    BY <1>4, <2>1 DEF ConnOK
<1>6. RefInv(conn, req2, cache, V)
  <2> SUFFICES ASSUME NEW q \in Reqs PROVE RefOK(conn, req2, cache, V, q)
    BY DEF RefInv
  <2>1. RefOK(conn, req, cache, V, q)
    BY DEF Core, RefInv
  <2> QED
    BY <1>4, <2>1 DEF RefOK
<1>7. WaitInv(conn, req2, Q2, V)
  <2> SUFFICES ASSUME NEW d \in Conns PROVE WaitOK(conn, req2, Q2, V, d)
    BY DEF WaitInv
  <2>1. WaitOK(conn, req, Q, V, d) /\ ConnOK(conn[d], req)
    BY DEF Core, WaitInv, ConnInv
  <2>2. CASE d = c
    <3>1. c \notin req2[r].moved /\ c \in Q2[conn[c].loop]
      BY <1>2
    <3>2. ASSUME NEW l \in Loops, c \in Q2[l] PROVE l = conn[c].loop
      <4>1. l # conn[c].loop => Q2[l] = Q[l]
        OBVIOUS
      <4> QED
        BY <1>1, <3>2, <4>1
    <3> QED
      BY <1>1, <1>3, <1>4, <2>1, <2>2, <3>1, <3>2 DEF WaitOK
  <2>3. CASE d # c
    <3>1. ASSUME NEW q \in Reqs PROVE d \in req2[q].moved <=> d \in req[q].moved
      <4>1. req2[q].moved = req[q].moved \/ req2[q].moved = req[q].moved \ {c}
        OBVIOUS
      <4> QED
        BY ONLY <2>3, <4>1
    <3>2. ASSUME NEW l \in Loops PROVE d \in Q2[l] <=> d \in Q[l]
      <4>1. Q2[l] = Q[l] \/ Q2[l] = Q[l] \cup {c}
        OBVIOUS
      <4> QED
        BY ONLY <2>3, <4>1
    <3> QED
      BY <1>4, <2>1, <3>1, <3>2 DEF WaitOK, ConnOK
  <2> QED
    BY <2>2, <2>3
<1>8. LeadInv(conn, req2, V)
  <2> SUFFICES ASSUME NEW k \in Loops PROVE LeadOK(conn, req2, V, k)
    BY DEF LeadInv
  <2>1. LeadOK(conn, req, V, k) /\ V[k] \in Views
    BY DEF Core, LeadInv, ViewMap
  <2> QED
    BY <1>4, <2>1 DEF LeadOK, Views
<1> QED
  BY <1>0, <1>1, <1>2, <1>5, <1>6, <1>7, <1>8 DEF Core

\* A queue becomes a drain.
Queued(Q, Q2, V, V2, l) ==
  /\ \A k \in Loops \ {l} : Q2[k] = Q[k] /\ V2[k].drain = V[k].drain
  /\ Q2[l] = {} /\ V2[l].drain = V[l].drain \cup Q[l]
  /\ \A k \in Loops :
       /\ V2[k].borrow = V[k].borrow /\ V2[k].hit = V[k].hit
       /\ V2[k].closing = V[k].closing /\ V2[k].free = V[k].free

\* The connects of a queue go into a drain.
LEMMA CoreDrain ==
  ASSUME NEW conn \in ConnMap, NEW req \in ReqMap, NEW cache \in SUBSET Reqs,
         NEW Q \in QueueMap, NEW V \in ViewMap,
         Core(conn, req, cache, Q, V),
         NEW l \in Loops, NEW Q2 \in QueueMap, NEW V2 \in ViewMap,
         Queued(Q, Q2, V, V2, l)
  PROVE  Core(conn, req, cache, Q2, V2)
<1> USE DEF Queued
<1>1. ConnInv(conn, req)
  BY DEF Core
<1>2. RefInv(conn, req, cache, V2)
  <2>1. \A r \in Reqs : BorrowersOf(V2, r) = BorrowersOf(V, r)
    BY DEF BorrowersOf
  <2> QED
    BY <2>1 DEF Core, RefInv, RefOK
<1>3. WaitInv(conn, req, Q2, V2)
  <2> SUFFICES ASSUME NEW d \in Conns PROVE WaitOK(conn, req, Q2, V2, d)
    BY DEF WaitInv
  <2>1. WaitOK(conn, req, Q, V, d)
    BY DEF Core, WaitInv
  <2>2. ASSUME NEW k \in Loops
        PROVE  /\ (d \in Q2[k] \/ d \in V2[k].drain) <=> (d \in Q[k] \/ d \in V[k].drain)
               /\ (d \in Q2[k] /\ d \in V2[k].drain) => (d \in Q[k] /\ d \in V[k].drain)
    <3>1. CASE k = l
      <4>1. Q2[k] = {} /\ V2[k].drain = V[k].drain \cup Q[k]
        BY <3>1
      <4> QED
        BY ONLY <4>1
    <3>2. CASE k # l
      <4>1. Q2[k] = Q[k] /\ V2[k].drain = V[k].drain
        BY <3>2
      <4> QED
        BY ONLY <4>1
    <3> QED
      BY <3>1, <3>2
  <2>3. conn[d].life = "live" => conn[d].loop \in Loops
    BY DEF Core, ConnInv, ConnOK
  <2> QED
    BY <2>1, <2>2, <2>3 DEF WaitOK
<1>4. LeadInv(conn, req, V2)
  BY DEF Core, LeadInv, LeadOK
<1> QED
  BY <1>1, <1>2, <1>3, <1>4 DEF Core

\* The dead connects of a loop are freed, under nothing but its tick.
Ends(conn, conn2, l) ==
  \A c \in Conns :
    conn2[c] = IF conn[c].life = "dead" /\ conn[c].loop = l
               THEN [NoConn EXCEPT !.life = "freed", !.told = conn[c].told]
               ELSE conn[c]

\* The dead connects of a loop are freed at the end of its outermost tick.
LEMMA CoreEnd ==
  ASSUME NEW conn \in ConnMap, NEW req \in ReqMap, NEW cache \in SUBSET Reqs,
         NEW Q \in QueueMap, NEW V \in ViewMap,
         Core(conn, req, cache, Q, V),
         NEW l \in Loops, Is(V[l].closing, {}), NEW conn2 \in ConnMap, Ends(conn, conn2, l)
  PROVE  Core(conn2, req, cache, Q, V)
<1> USE DEF Ends, Is
<1>1. ASSUME NEW c \in Conns, conn2[c] # conn[c]
      PROVE  /\ conn[c].life = "dead" /\ conn[c].loop = l
             /\ conn2[c].life = "freed" /\ conn2[c].loop = Null /\ ~conn2[c].pending
             /\ ~conn2[c].linked /\ conn2[c].att = NoAttempts /\ conn2[c].told = conn[c].told
  BY <1>1 DEF NoConn
<1>2. ConnInv(conn2, req)
  <2> SUFFICES ASSUME NEW d \in Conns PROVE ConnOK(conn2[d], req)
    BY DEF ConnInv
  <2>1. ConnOK(conn[d], req)
    BY DEF Core, ConnInv
  <2> QED
    BY <1>1, <2>1 DEF ConnOK
<1>3. RefInv(conn2, req, cache, V)
  <2>1. \A r \in Reqs : HoldersOf(conn2, r) = HoldersOf(conn, r)
    BY <1>1 DEF HoldersOf
  <2> QED
    BY <2>1 DEF Core, RefInv, RefOK
<1>4. WaitInv(conn2, req, Q, V)
  <2> SUFFICES ASSUME NEW d \in Conns PROVE WaitOK(conn2, req, Q, V, d)
    BY DEF WaitInv
  <2>1. WaitOK(conn, req, Q, V, d)
    BY DEF Core, WaitInv
  <2>2. CASE conn2[d] = conn[d]
    BY <2>1, <2>2 DEF WaitOK
  <2>3. CASE conn2[d] # conn[d]
    <3>1. conn[d].life = "dead" /\ conn2[d].life = "freed" /\ ~conn2[d].pending
      BY <1>1, <2>3
    <3>2. conn2[d].loop = Null /\ conn2[d].att = NoAttempts
      BY <1>1, <2>3
    <3> QED
      BY ONLY <2>1, <3>1, <3>2 DEF WaitOK
  <2> QED
    BY <2>2, <2>3
<1>5. LeadInv(conn2, req, V)
  <2> SUFFICES ASSUME NEW k \in Loops PROVE LeadOK(conn2, req, V, k)
    BY DEF LeadInv
  <2>1. LeadOK(conn, req, V, k) /\ V[k] \in Views
    BY DEF Core, LeadInv, ViewMap
  <2>2. \A c \in V[k].closing : conn2[c] = conn[c]
    BY <1>1, <2>1 DEF LeadOK, Views
  <2>3. \A c \in V[k].free : conn2[c] = conn[c]
    BY <2>1, <2>2 DEF LeadOK, Views
  <2>4. \A c \in Conns : conn2[c].linked => conn2[c] = conn[c]
    BY <1>1
  <2> QED
    BY <2>1, <2>2, <2>3, <2>4 DEF LeadOK
<1> QED
  BY <1>2, <1>3, <1>4, <1>5 DEF Core

\* A walk over the group holds on to nothing the invariant speaks of.
LEMMA CoreView ==
  ASSUME NEW conn, NEW req, NEW cache, NEW Q, NEW V, NEW V2,
         Core(conn, req, cache, Q, V),
         \A k \in Loops :
           /\ V2[k].drain = V[k].drain
           /\ V2[k].borrow = V[k].borrow /\ V2[k].hit = V[k].hit
           /\ V2[k].closing = V[k].closing /\ V2[k].free = V[k].free,
         ConnInv(conn, req)
  PROVE  Core(conn, req, cache, Q, V2)
<1>1. \A r \in Reqs : BorrowersOf(V2, r) = BorrowersOf(V, r)
  BY DEF BorrowersOf
<1>2. \A d \in Conns : conn[d].life = "live" => conn[d].loop \in Loops
  BY DEF ConnInv, ConnOK
<1>3. RefInv(conn, req, cache, V2)
  BY <1>1 DEF Core, RefInv, RefOK
<1>4. WaitInv(conn, req, Q, V2)
  BY <1>2 DEF Core, WaitInv, WaitOK
<1>5. LeadInv(conn, req, V2)
  BY DEF Core, LeadInv, LeadOK
<1> QED
  BY <1>3, <1>4, <1>5 DEF Core

-----------------------------------------------------------------------------
(* One field of a connect.                                                 *)

\* What an assignment to linked changes.
LEMMA Conn_linked ==
  ASSUME NEW s \in ConnRecord, NEW v \in BOOLEAN, NEW t, t = [s EXCEPT !.linked = v]
  PROVE  /\ t \in ConnRecord /\ t.linked = v
         /\ t.life = s.life /\ t.loop = s.loop /\ t.req = s.req /\ t.pending = s.pending
         /\ t.closed = s.closed /\ t.np = s.np /\ t.pp = s.pp /\ t.addr = s.addr
         /\ t.own = s.own /\ t.att = s.att /\ t.told = s.told
  BY DEF ConnRecord

\* What an assignment to next_pending changes.
LEMMA Conn_np ==
  ASSUME NEW s \in ConnRecord, NEW v \in Ptr, NEW t, t = [s EXCEPT !.np = v]
  PROVE  /\ t \in ConnRecord /\ t.np = v
         /\ t.life = s.life /\ t.loop = s.loop /\ t.req = s.req /\ t.pending = s.pending
         /\ t.closed = s.closed /\ t.linked = s.linked /\ t.pp = s.pp /\ t.addr = s.addr
         /\ t.own = s.own /\ t.att = s.att /\ t.told = s.told
  BY DEF ConnRecord

\* What an assignment to prev_pending changes.
LEMMA Conn_pp ==
  ASSUME NEW s \in ConnRecord, NEW v \in Ptr, NEW t, t = [s EXCEPT !.pp = v]
  PROVE  /\ t \in ConnRecord /\ t.pp = v
         /\ t.life = s.life /\ t.loop = s.loop /\ t.req = s.req /\ t.pending = s.pending
         /\ t.closed = s.closed /\ t.linked = s.linked /\ t.np = s.np /\ t.addr = s.addr
         /\ t.own = s.own /\ t.att = s.att /\ t.told = s.told
  BY DEF ConnRecord

-----------------------------------------------------------------------------
(* One field of a request.                                                 *)

\* What an assignment to the life of a request changes.
LEMMA Req_life ==
  ASSUME NEW s \in ReqRecord, NEW v \in {"unused", "live", "freed"}, NEW t, t = [s EXCEPT !.life = v]
  PROVE  /\ t \in ReqRecord /\ t.life = v
         /\ t.host = s.host /\ t.result = s.result /\ t.notify = s.notify /\ t.refs = s.refs
         /\ t.valid = s.valid /\ t.old = s.old /\ t.moved = s.moved /\ t.wakes = s.wakes
  BY DEF ReqRecord

\* What an assignment to valid changes.
LEMMA Req_valid ==
  ASSUME NEW s \in ReqRecord, NEW v \in BOOLEAN, NEW t, t = [s EXCEPT !.valid = v]
  PROVE  /\ t \in ReqRecord /\ t.valid = v
         /\ t.life = s.life /\ t.host = s.host /\ t.result = s.result /\ t.notify = s.notify
         /\ t.refs = s.refs /\ t.old = s.old /\ t.moved = s.moved /\ t.wakes = s.wakes
  BY DEF ReqRecord

-----------------------------------------------------------------------------
(* Assignments.                                                            *)

IsMem(m) == m = [conn |-> m.conn, req |-> m.req, cache |-> m.cache, ready |-> m.ready,
                 head |-> m.head, wake |-> m.wake, keep |-> m.keep]

\* k is m but for the components in S; g is f but for x; t is s but for the fields in F.
SameBut(m, k, S) ==
  /\ IsMem(k)
  /\ "conn" \notin S => k.conn = m.conn
  /\ "req" \notin S => k.req = m.req
  /\ "cache" \notin S => k.cache = m.cache
  /\ "ready" \notin S => k.ready = m.ready
  /\ "head" \notin S => k.head = m.head
  /\ "wake" \notin S => k.wake = m.wake
  /\ "keep" \notin S => k.keep = m.keep

Puts(f, g, x, v) == g = [f EXCEPT ![x] = v]

Only(f, g, x) == \A y \in (DOMAIN f) \ {x} : g[y] = f[y]

ConnBut(s, t, F) ==
  /\ "life" \notin F => t.life = s.life
  /\ "loop" \notin F => t.loop = s.loop
  /\ "req" \notin F => t.req = s.req
  /\ "pending" \notin F => t.pending = s.pending
  /\ "closed" \notin F => t.closed = s.closed
  /\ "linked" \notin F => t.linked = s.linked
  /\ "np" \notin F => t.np = s.np
  /\ "pp" \notin F => t.pp = s.pp
  /\ "addr" \notin F => t.addr = s.addr
  /\ "own" \notin F => t.own = s.own
  /\ "att" \notin F => t.att = s.att
  /\ "told" \notin F => t.told = s.told

ReqBut(s, t, F) ==
  /\ "life" \notin F => t.life = s.life
  /\ "host" \notin F => t.host = s.host
  /\ "result" \notin F => t.result = s.result
  /\ "notify" \notin F => t.notify = s.notify
  /\ "refs" \notin F => t.refs = s.refs
  /\ "valid" \notin F => t.valid = s.valid
  /\ "old" \notin F => t.old = s.old
  /\ "moved" \notin F => t.moved = s.moved
  /\ "wakes" \notin F => t.wakes = s.wakes

\* The components of memory have their types.
LEMMA MemParts ==
  ASSUME NEW m \in Mem
  PROVE  /\ m.conn \in ConnMap /\ m.req \in ReqMap /\ m.cache \in SUBSET Reqs
         /\ m.ready \in [Loops -> Seq(Conns)] /\ m.head \in [Loops -> Ptr]
         /\ m.wake \in [Loops -> BOOLEAN] /\ m.keep \in [Loops -> Int]
         /\ IsMem(m)
  BY DEF Mem, ConnMap, ReqMap, IsMem

\* A map with one value replaced: it has its type, and the rest of it is as it was.
LEMMA SetConnAt ==
  ASSUME NEW f \in ConnMap, NEW c \in Conns, NEW t \in ConnRecord, NEW g,
         Puts(f, g, c, t)
  PROVE  g \in ConnMap /\ Only(f, g, c) /\ g[c] = t
<1>1. g \in ConnMap
  BY DEF Puts, ConnMap
<1>2. Only(f, g, c)
  BY DEF Puts, ConnMap, Only
<1>3. g[c] = t
  BY DEF Puts, ConnMap
<1> QED
  BY <1>1, <1>2, <1>3

LEMMA SetReqAt ==
  ASSUME NEW f \in ReqMap, NEW c \in Reqs, NEW t \in ReqRecord, NEW g,
         Puts(f, g, c, t)
  PROVE  g \in ReqMap /\ Only(f, g, c) /\ g[c] = t
<1>1. g \in ReqMap
  BY DEF Puts, ReqMap
<1>2. Only(f, g, c)
  BY DEF Puts, ReqMap, Only
<1>3. g[c] = t
  BY DEF Puts, ReqMap
<1> QED
  BY <1>1, <1>2, <1>3

\* A memory is of its type if its components are, those it has from another among them.
LEMMA SameMem ==
  ASSUME NEW m \in Mem, NEW k, IsMem(k),
         k.conn = m.conn \/ k.conn \in ConnMap,
         k.req = m.req \/ k.req \in ReqMap,
         k.cache = m.cache \/ k.cache \in SUBSET Reqs,
         k.ready = m.ready \/ k.ready \in [Loops -> Seq(Conns)],
         k.head = m.head \/ k.head \in [Loops -> Ptr],
         k.wake = m.wake \/ k.wake \in [Loops -> BOOLEAN],
         k.keep = m.keep \/ k.keep \in [Loops -> Int]
  PROVE  k \in Mem
<1>1. /\ k.conn \in ConnMap /\ k.req \in ReqMap /\ k.cache \in SUBSET Reqs
      /\ k.ready \in [Loops -> Seq(Conns)] /\ k.head \in [Loops -> Ptr]
      /\ k.wake \in [Loops -> BOOLEAN] /\ k.keep \in [Loops -> Int]
  BY MemParts
<1> QED
  BY <1>1 DEF Mem, ConnMap, ReqMap, IsMem

\* Whole components.
LEMMA SetConn ==
  ASSUME NEW m, IsMem(m), NEW a, NEW k, k = [m EXCEPT !.conn = a]
  PROVE  SameBut(m, k, {"conn"}) /\ k.conn = a
  BY DEF IsMem, SameBut

SetsReady(m, k, l, a) == k = [m EXCEPT !.ready[l] = a]

\* A queue is assigned.
LEMMA SetReady ==
  ASSUME NEW m, IsMem(m), NEW l, NEW a, NEW k, SetsReady(m, k, l, a)
  PROVE  SameBut(m, k, {"ready"}) /\ Is(k.ready, [m.ready EXCEPT ![l] = a])
  BY DEF IsMem, SameBut, SetsReady, Is

SetsWake(m, k, l, a) == k = [m EXCEPT !.wake[l] = a]

\* A wakeup is set or reset.
LEMMA SetWake ==
  ASSUME NEW m, IsMem(m), NEW l, NEW a, NEW k, SetsWake(m, k, l, a)
  PROVE  SameBut(m, k, {"wake"}) /\ Is(k.wake, [m.wake EXCEPT ![l] = a])
  BY DEF IsMem, SameBut, SetsWake, Is

\* The cache is assigned.
LEMMA SetCache ==
  ASSUME NEW m, IsMem(m), NEW a, NEW k, k = [m EXCEPT !.cache = a]
  PROVE  SameBut(m, k, {"cache"}) /\ k.cache = a
  BY DEF IsMem, SameBut

\* A loop is kept alive by one connect less.
LEMMA SetKeep ==
  ASSUME NEW m \in Mem, NEW l \in Loops, NEW k, k = [m EXCEPT !.keep[l] = @ - 1]
  PROVE  k \in Mem /\ SameBut(m, k, {"keep"}) /\ k.keep = [m.keep EXCEPT ![l] = m.keep[l] - 1]
<1>1. IsMem(m) /\ m.keep \in [Loops -> Int]
  BY MemParts
<1>2. SameBut(m, k, {"keep"}) /\ k.keep = [m.keep EXCEPT ![l] = m.keep[l] - 1]
  BY <1>1 DEF IsMem, SameBut
<1>3. k.keep \in [Loops -> Int]
  BY <1>1, <1>2
<1> QED
  BY <1>2, <1>3, SameMem DEF SameBut

\* Fields of a connect.
LEMMA SetClosed ==
  ASSUME NEW m \in Mem, NEW c \in Conns, NEW k,
         k = [m EXCEPT !.conn[c].closed = TRUE, !.conn[c].att = NoAttempts]
  PROVE  /\ k \in Mem /\ SameBut(m, k, {"conn"}) /\ Only(m.conn, k.conn, c)
         /\ ConnBut(m.conn[c], k.conn[c], {"closed", "att"})
         /\ k.conn[c].closed /\ k.conn[c].att = NoAttempts
<1> DEFINE s == m.conn[c]
<1> DEFINE t == [s EXCEPT !.closed = TRUE, !.att = NoAttempts]
<1>0. c \in Conns
  OBVIOUS
<1>1. IsMem(m) /\ m.conn \in ConnMap /\ s \in ConnRecord
  BY MemParts DEF ConnMap
<1>2. /\ SameBut(m, k, {"conn"})
      /\ k.conn = [m.conn EXCEPT ![c].closed = TRUE, ![c].att = NoAttempts]
  BY <1>1 DEF IsMem, SameBut
<1>3. Puts(m.conn, k.conn, c, t)
  BY <1>1, <1>2 DEF ConnMap, Puts
<1>4. t \in ConnRecord /\ ConnBut(s, t, {"closed", "att"}) /\ t.closed /\ t.att = NoAttempts
  BY <1>1 DEF ConnRecord, ConnBut, Is, NoAttempts
<1> HIDE DEF s, t
<1>5. /\ k.conn \in ConnMap /\ Only(m.conn, k.conn, c) /\ k.conn[c] = t
  BY ONLY <1>0, <1>1, <1>3, <1>4, SetConnAt
<1>6. k \in Mem
  BY <1>2, <1>5, SameMem DEF SameBut
<1> QED
  BY <1>2, <1>4, <1>5, <1>6 DEF s

\* A connect is told its end.
LEMMA SetTold ==
  ASSUME NEW m \in Mem, NEW c \in Conns, NEW k,
         k = [m EXCEPT !.conn[c].told = @ + 1]
  PROVE  /\ k \in Mem /\ SameBut(m, k, {"conn"}) /\ Only(m.conn, k.conn, c)
         /\ ConnBut(m.conn[c], k.conn[c], {"told"})
         /\ k.conn[c].told = m.conn[c].told + 1
<1> DEFINE s == m.conn[c]
<1> DEFINE t == [s EXCEPT !.told = @ + 1]
<1>0. c \in Conns
  OBVIOUS
<1>1. IsMem(m) /\ m.conn \in ConnMap /\ s \in ConnRecord
  BY MemParts DEF ConnMap
<1>2. /\ SameBut(m, k, {"conn"})
      /\ k.conn = [m.conn EXCEPT ![c].told = @ + 1]
  BY <1>1 DEF IsMem, SameBut
<1>3. Puts(m.conn, k.conn, c, t)
  BY <1>1, <1>2 DEF ConnMap, Puts
<1>4. t \in ConnRecord /\ ConnBut(s, t, {"told"}) /\ t.told = s.told + 1
  BY <1>1 DEF ConnRecord, ConnBut, Is
<1> HIDE DEF s, t
<1>5. /\ k.conn \in ConnMap /\ Only(m.conn, k.conn, c) /\ k.conn[c] = t
  BY ONLY <1>0, <1>1, <1>3, <1>4, SetConnAt
<1>6. k \in Mem
  BY <1>2, <1>5, SameMem DEF SameBut
<1> QED
  BY <1>2, <1>4, <1>5, <1>6 DEF s

\* A connect forgets its request.
LEMMA SetNoReq ==
  ASSUME NEW m \in Mem, NEW c \in Conns, NEW k,
         k = [m EXCEPT !.conn[c].req = Null]
  PROVE  /\ k \in Mem /\ SameBut(m, k, {"conn"}) /\ Only(m.conn, k.conn, c)
         /\ ConnBut(m.conn[c], k.conn[c], {"req"})
         /\ k.conn[c].req = Null
<1> DEFINE s == m.conn[c]
<1> DEFINE t == [s EXCEPT !.req = Null]
<1>0. c \in Conns
  OBVIOUS
<1>1. IsMem(m) /\ m.conn \in ConnMap /\ s \in ConnRecord
  BY MemParts DEF ConnMap
<1>2. /\ SameBut(m, k, {"conn"})
      /\ k.conn = [m.conn EXCEPT ![c].req = Null]
  BY <1>1 DEF IsMem, SameBut
<1>3. Puts(m.conn, k.conn, c, t)
  BY <1>1, <1>2 DEF ConnMap, Puts
<1>4. t \in ConnRecord /\ ConnBut(s, t, {"req"}) /\ t.req = Null
  BY <1>1 DEF ConnRecord, ConnBut, Is
<1> HIDE DEF s, t
<1>5. /\ k.conn \in ConnMap /\ Only(m.conn, k.conn, c) /\ k.conn[c] = t
  BY ONLY <1>0, <1>1, <1>3, <1>4, SetConnAt
<1>6. k \in Mem
  BY <1>2, <1>5, SameMem DEF SameBut
<1> QED
  BY <1>2, <1>4, <1>5, <1>6 DEF s

\* A connect was queued by its own loop.
LEMMA SetOwn ==
  ASSUME NEW m \in Mem, NEW c \in Conns, NEW k,
         k = [m EXCEPT !.conn[c].own = TRUE]
  PROVE  /\ k \in Mem /\ SameBut(m, k, {"conn"}) /\ Only(m.conn, k.conn, c)
         /\ ConnBut(m.conn[c], k.conn[c], {"own"})
         /\ k.conn[c].own
<1> DEFINE s == m.conn[c]
<1> DEFINE t == [s EXCEPT !.own = TRUE]
<1>0. c \in Conns
  OBVIOUS
<1>1. IsMem(m) /\ m.conn \in ConnMap /\ s \in ConnRecord
  BY MemParts DEF ConnMap
<1>2. /\ SameBut(m, k, {"conn"})
      /\ k.conn = [m.conn EXCEPT ![c].own = TRUE]
  BY <1>1 DEF IsMem, SameBut
<1>3. Puts(m.conn, k.conn, c, t)
  BY <1>1, <1>2 DEF ConnMap, Puts
<1>4. t \in ConnRecord /\ ConnBut(s, t, {"own"}) /\ t.own
  BY <1>1 DEF ConnRecord, ConnBut, Is
<1> HIDE DEF s, t
<1>5. /\ k.conn \in ConnMap /\ Only(m.conn, k.conn, c) /\ k.conn[c] = t
  BY ONLY <1>0, <1>1, <1>3, <1>4, SetConnAt
<1>6. k \in Mem
  BY <1>2, <1>5, SameMem DEF SameBut
<1> QED
  BY <1>2, <1>4, <1>5, <1>6 DEF s

\* A connect is put on the list of the closed.
LEMMA SetDead ==
  ASSUME NEW m \in Mem, NEW c \in Conns, NEW k,
         k = [m EXCEPT !.conn[c].life = "dead"]
  PROVE  /\ k \in Mem /\ SameBut(m, k, {"conn"}) /\ Only(m.conn, k.conn, c)
         /\ ConnBut(m.conn[c], k.conn[c], {"life"})
         /\ k.conn[c].life = "dead"
<1> DEFINE s == m.conn[c]
<1> DEFINE t == [s EXCEPT !.life = "dead"]
<1>0. c \in Conns
  OBVIOUS
<1>1. IsMem(m) /\ m.conn \in ConnMap /\ s \in ConnRecord
  BY MemParts DEF ConnMap
<1>2. /\ SameBut(m, k, {"conn"})
      /\ k.conn = [m.conn EXCEPT ![c].life = "dead"]
  BY <1>1 DEF IsMem, SameBut
<1>3. Puts(m.conn, k.conn, c, t)
  BY <1>1, <1>2 DEF ConnMap, Puts
<1>4. t \in ConnRecord /\ ConnBut(s, t, {"life"}) /\ t.life = "dead"
  BY <1>1 DEF ConnRecord, ConnBut, Is
<1> HIDE DEF s, t
<1>5. /\ k.conn \in ConnMap /\ Only(m.conn, k.conn, c) /\ k.conn[c] = t
  BY ONLY <1>0, <1>1, <1>3, <1>4, SetConnAt
<1>6. k \in Mem
  BY <1>2, <1>5, SameMem DEF SameBut
<1> QED
  BY <1>2, <1>4, <1>5, <1>6 DEF s

\* A connect handles its result.
LEMMA SetResolved ==
  ASSUME NEW m \in Mem, NEW c \in Conns, NEW k,
         k = [m EXCEPT !.conn[c].pending = FALSE, !.conn[c].own = FALSE]
  PROVE  /\ k \in Mem /\ SameBut(m, k, {"conn"}) /\ Only(m.conn, k.conn, c)
         /\ ConnBut(m.conn[c], k.conn[c], {"pending", "own"})
         /\ ~k.conn[c].pending /\ ~k.conn[c].own
<1> DEFINE s == m.conn[c]
<1> DEFINE t == [s EXCEPT !.pending = FALSE, !.own = FALSE]
<1>0. c \in Conns
  OBVIOUS
<1>1. IsMem(m) /\ m.conn \in ConnMap /\ s \in ConnRecord
  BY MemParts DEF ConnMap
<1>2. /\ SameBut(m, k, {"conn"})
      /\ k.conn = [m.conn EXCEPT ![c].pending = FALSE, ![c].own = FALSE]
  BY <1>1 DEF IsMem, SameBut
<1>3. Puts(m.conn, k.conn, c, t)
  BY <1>1, <1>2 DEF ConnMap, Puts
<1>4. t \in ConnRecord /\ ConnBut(s, t, {"pending", "own"}) /\ ~t.pending /\ ~t.own
  BY <1>1 DEF ConnRecord, ConnBut, Is
<1> HIDE DEF s, t
<1>5. /\ k.conn \in ConnMap /\ Only(m.conn, k.conn, c) /\ k.conn[c] = t
  BY ONLY <1>0, <1>1, <1>3, <1>4, SetConnAt
<1>6. k \in Mem
  BY <1>2, <1>5, SameMem DEF SameBut
<1> QED
  BY <1>2, <1>4, <1>5, <1>6 DEF s

\* A connect begins with its first address.
LEMMA SetAddr ==
  ASSUME NEW m \in Mem, NEW c \in Conns, NEW k,
         k = [m EXCEPT !.conn[c].addr = 1]
  PROVE  /\ k \in Mem /\ SameBut(m, k, {"conn"}) /\ Only(m.conn, k.conn, c)
         /\ ConnBut(m.conn[c], k.conn[c], {"addr"})
         /\ k.conn[c].addr = 1
<1> DEFINE s == m.conn[c]
<1> DEFINE t == [s EXCEPT !.addr = 1]
<1>0. c \in Conns
  OBVIOUS
<1>1. IsMem(m) /\ m.conn \in ConnMap /\ s \in ConnRecord
  BY MemParts DEF ConnMap
<1>2. /\ SameBut(m, k, {"conn"})
      /\ k.conn = [m.conn EXCEPT ![c].addr = 1]
  BY <1>1 DEF IsMem, SameBut
<1>3. Puts(m.conn, k.conn, c, t)
  BY <1>1, <1>2 DEF ConnMap, Puts
<1>4. t \in ConnRecord /\ ConnBut(s, t, {"addr"}) /\ t.addr = 1
  BY <1>1 DEF ConnRecord, ConnBut, Is
<1> HIDE DEF s, t
<1>5. /\ k.conn \in ConnMap /\ Only(m.conn, k.conn, c) /\ k.conn[c] = t
  BY ONLY <1>0, <1>1, <1>3, <1>4, SetConnAt
<1>6. k \in Mem
  BY <1>2, <1>5, SameMem DEF SameBut
<1> QED
  BY <1>2, <1>4, <1>5, <1>6 DEF s

Atts == [Addrs -> {"none", "pending", "ready"}]

Tries(m, k, c, a, w) == k = [m EXCEPT !.conn[c].addr = a, !.conn[c].att = w]

\* Attempts are begun, and the addresses behind them are left.
LEMMA SetTried ==
  ASSUME NEW m \in Mem, NEW c \in Conns, NEW a \in Int,
         NEW w \in Atts, NEW k, Tries(m, k, c, a, w)
  PROVE  /\ k \in Mem /\ SameBut(m, k, {"conn"}) /\ Only(m.conn, k.conn, c)
         /\ ConnBut(m.conn[c], k.conn[c], {"addr", "att"})
         /\ k.conn[c].addr = a /\ k.conn[c].att = w
<1> DEFINE s == m.conn[c]
<1> DEFINE t == [s EXCEPT !.addr = a, !.att = w]
<1>1. IsMem(m) /\ m.conn \in ConnMap /\ s \in ConnRecord
  BY MemParts DEF ConnMap
<1>2. /\ SameBut(m, k, {"conn"})
      /\ k.conn = [m.conn EXCEPT ![c].addr = a, ![c].att = w]
  BY <1>1 DEF IsMem, SameBut, Tries
<1>3. Puts(m.conn, k.conn, c, t)
  BY <1>1, <1>2 DEF ConnMap, Puts
<1>4. t \in ConnRecord /\ ConnBut(s, t, {"addr", "att"}) /\ t.addr = a /\ t.att = w
  BY <1>1 DEF ConnRecord, ConnBut, Is, Atts
<1> HIDE DEF s, t
<1>5. /\ k.conn \in ConnMap /\ Only(m.conn, k.conn, c) /\ k.conn[c] = t
  BY <1>1, <1>3, <1>4, SetConnAt
<1>6. k \in Mem
  BY <1>2, <1>5, SameMem DEF SameBut
<1> QED
  BY <1>2, <1>4, <1>5, <1>6 DEF s

SetsAtt(m, k, c, w) == k = [m EXCEPT !.conn[c].att = w]

\* All attempts of a connect are assigned.
LEMMA SetAtt ==
  ASSUME NEW m \in Mem, NEW c \in Conns, NEW w \in Atts, NEW k, SetsAtt(m, k, c, w)
  PROVE  /\ k \in Mem /\ SameBut(m, k, {"conn"}) /\ Only(m.conn, k.conn, c)
         /\ ConnBut(m.conn[c], k.conn[c], {"att"})
         /\ k.conn[c].att = w
<1> DEFINE s == m.conn[c]
<1> DEFINE t == [s EXCEPT !.att = w]
<1>1. IsMem(m) /\ m.conn \in ConnMap /\ s \in ConnRecord
  BY MemParts DEF ConnMap
<1>2. /\ SameBut(m, k, {"conn"})
      /\ k.conn = [m.conn EXCEPT ![c].att = w]
  BY <1>1 DEF IsMem, SameBut, SetsAtt
<1>3. Puts(m.conn, k.conn, c, t)
  BY <1>1, <1>2 DEF ConnMap, Puts
<1>4. t \in ConnRecord /\ ConnBut(s, t, {"att"}) /\ t.att = w
  BY <1>1 DEF ConnRecord, ConnBut, Is, Atts
<1> HIDE DEF s, t
<1>5. /\ k.conn \in ConnMap /\ Only(m.conn, k.conn, c) /\ k.conn[c] = t
  BY <1>1, <1>3, <1>4, SetConnAt
<1>6. k \in Mem
  BY <1>2, <1>5, SameMem DEF SameBut
<1> QED
  BY <1>2, <1>4, <1>5, <1>6 DEF s

\* A connect is told that an attempt opened, and the others are closed.
LEMMA SetOpened ==
  ASSUME NEW m \in Mem, NEW c \in Conns, NEW k,
         k = [m EXCEPT !.conn[c].att = NoAttempts, !.conn[c].told = @ + 1]
  PROVE  /\ k \in Mem /\ SameBut(m, k, {"conn"}) /\ Only(m.conn, k.conn, c)
         /\ ConnBut(m.conn[c], k.conn[c], {"att", "told"})
         /\ k.conn[c].att = NoAttempts /\ k.conn[c].told = m.conn[c].told + 1
<1> DEFINE s == m.conn[c]
<1> DEFINE w == s.told + 1
<1> DEFINE t == [s EXCEPT !.att = NoAttempts, !.told = w]
<1>1. IsMem(m) /\ m.conn \in ConnMap /\ s \in ConnRecord
  BY MemParts DEF ConnMap
<1>2. /\ SameBut(m, k, {"conn"})
      /\ k.conn = [m.conn EXCEPT ![c].att = NoAttempts, ![c].told = @ + 1]
  BY <1>1 DEF IsMem, SameBut
<1>3. Puts(m.conn, k.conn, c, t)
  BY <1>1, <1>2 DEF ConnMap, Puts
<1>w. w \in Int
  BY <1>1 DEF ConnRecord
<1> HIDE DEF w
<1>4. t \in ConnRecord /\ ConnBut(s, t, {"att", "told"}) /\ t.att = NoAttempts /\ t.told = w
  BY <1>1, <1>w DEF ConnRecord, ConnBut, Is, NoAttempts
<1> HIDE DEF s, t
<1>5. /\ k.conn \in ConnMap /\ Only(m.conn, k.conn, c) /\ k.conn[c] = t
  BY <1>1, <1>3, <1>4, SetConnAt
<1>6. k \in Mem
  BY <1>2, <1>5, SameMem DEF SameBut
<1> QED
  BY <1>2, <1>4, <1>5, <1>6 DEF s, w

\* A connect no longer waits for its result.
LEMMA SetPending ==
  ASSUME NEW m \in Mem, NEW c \in Conns, NEW k,
         k = [m EXCEPT !.conn[c].pending = FALSE]
  PROVE  /\ k \in Mem /\ SameBut(m, k, {"conn"}) /\ Only(m.conn, k.conn, c)
         /\ ConnBut(m.conn[c], k.conn[c], {"pending"})
         /\ ~k.conn[c].pending
<1> DEFINE s == m.conn[c]
<1> DEFINE t == [s EXCEPT !.pending = FALSE]
<1>0. c \in Conns
  OBVIOUS
<1>1. IsMem(m) /\ m.conn \in ConnMap /\ s \in ConnRecord
  BY MemParts DEF ConnMap
<1>2. /\ SameBut(m, k, {"conn"})
      /\ k.conn = [m.conn EXCEPT ![c].pending = FALSE]
  BY <1>1 DEF IsMem, SameBut
<1>3. Puts(m.conn, k.conn, c, t)
  BY <1>1, <1>2 DEF ConnMap, Puts
<1>4. t \in ConnRecord /\ ConnBut(s, t, {"pending"}) /\ ~t.pending
  BY <1>1 DEF ConnRecord, ConnBut, Is
<1> HIDE DEF s, t
<1>5. /\ k.conn \in ConnMap /\ Only(m.conn, k.conn, c) /\ k.conn[c] = t
  BY ONLY <1>0, <1>1, <1>3, <1>4, SetConnAt
<1>6. k \in Mem
  BY <1>2, <1>5, SameMem DEF SameBut
<1> QED
  BY <1>2, <1>4, <1>5, <1>6 DEF s

SetsPrev(m, k, c, p) == k = [m EXCEPT !.conn[c].pp = p]

\* A back pointer is assigned.
LEMMA SetPrev ==
  ASSUME NEW m \in Mem, NEW c \in Conns, NEW p \in Ptr, NEW k, SetsPrev(m, k, c, p)
  PROVE  /\ k \in Mem /\ SameBut(m, k, {"conn"}) /\ Only(m.conn, k.conn, c)
         /\ ConnBut(m.conn[c], k.conn[c], {"pp"})
         /\ k.conn[c].pp = p
<1> USE DEF SetsPrev
<1> DEFINE s == m.conn[c]
<1> DEFINE t == [s EXCEPT !.pp = p]
<1>0. c \in Conns
  OBVIOUS
<1>1. IsMem(m) /\ m.conn \in ConnMap /\ s \in ConnRecord
  BY MemParts DEF ConnMap
<1>2. /\ SameBut(m, k, {"conn"})
      /\ k.conn = [m.conn EXCEPT ![c].pp = p]
  BY <1>1 DEF IsMem, SameBut
<1>3. Puts(m.conn, k.conn, c, t)
  BY <1>1, <1>2 DEF ConnMap, Puts
<1>4. t \in ConnRecord /\ ConnBut(s, t, {"pp"}) /\ t.pp = p
  BY <1>1 DEF ConnRecord, ConnBut, Is
<1> HIDE DEF s, t
<1>5. /\ k.conn \in ConnMap /\ Only(m.conn, k.conn, c) /\ k.conn[c] = t
  BY ONLY <1>0, <1>1, <1>3, <1>4, SetConnAt
<1>6. k \in Mem
  BY <1>2, <1>5, SameMem DEF SameBut
<1> QED
  BY <1>2, <1>4, <1>5, <1>6 DEF s

\* Fields of a request.
SetsNotify(m, k, r, a) == k = [m EXCEPT !.req[r].notify = a]

\* The list of a request is assigned.
LEMMA SetNotify ==
  ASSUME NEW m \in Mem, NEW r \in Reqs, NEW a \in SUBSET Conns, NEW k, SetsNotify(m, k, r, a)
  PROVE  /\ k \in Mem /\ SameBut(m, k, {"req"}) /\ Only(m.req, k.req, r)
         /\ ReqBut(m.req[r], k.req[r], {"notify"})
         /\ Is(k.req[r].notify, a)
<1> USE DEF SetsNotify
<1> DEFINE s == m.req[r]
<1> DEFINE t == [s EXCEPT !.notify = a]
<1>0. r \in Reqs
  OBVIOUS
<1>1. IsMem(m) /\ m.req \in ReqMap /\ s \in ReqRecord
  BY MemParts DEF ReqMap
<1>2. /\ SameBut(m, k, {"req"})
      /\ k.req = [m.req EXCEPT ![r].notify = a]
  BY <1>1 DEF IsMem, SameBut
<1>3. Puts(m.req, k.req, r, t)
  BY <1>1, <1>2 DEF ReqMap, Puts
<1>4. t \in ReqRecord /\ ReqBut(s, t, {"notify"}) /\ Is(t.notify, a)
  BY <1>1 DEF ReqRecord, ReqBut, Is
<1> HIDE DEF s, t
<1>5. /\ k.req \in ReqMap /\ Only(m.req, k.req, r) /\ k.req[r] = t
  BY ONLY <1>0, <1>1, <1>3, <1>4, SetReqAt
<1>6. k \in Mem
  BY <1>2, <1>5, SameMem DEF SameBut
<1> QED
  BY <1>2, <1>4, <1>5, <1>6 DEF s

SetsRefs(m, k, r, n) == k = [m EXCEPT !.req[r].refs = @ + n]

\* The count of a request changes.
LEMMA SetRefs ==
  ASSUME NEW m \in Mem, NEW r \in Reqs, NEW n \in Int, NEW k, SetsRefs(m, k, r, n)
  PROVE  /\ k \in Mem /\ SameBut(m, k, {"req"}) /\ Only(m.req, k.req, r)
         /\ ReqBut(m.req[r], k.req[r], {"refs"})
         /\ k.req[r].refs = m.req[r].refs + n
<1> USE DEF SetsRefs
<1> DEFINE s == m.req[r]
<1> DEFINE t == [s EXCEPT !.refs = @ + n]
<1>0. r \in Reqs
  OBVIOUS
<1>1. IsMem(m) /\ m.req \in ReqMap /\ s \in ReqRecord
  BY MemParts DEF ReqMap
<1>2. /\ SameBut(m, k, {"req"})
      /\ k.req = [m.req EXCEPT ![r].refs = @ + n]
  BY <1>1 DEF IsMem, SameBut
<1>3. Puts(m.req, k.req, r, t)
  BY <1>1, <1>2 DEF ReqMap, Puts
<1>4. t \in ReqRecord /\ ReqBut(s, t, {"refs"}) /\ t.refs = s.refs + n
  BY <1>1 DEF ReqRecord, ReqBut, Is
<1> HIDE DEF s, t
<1>5. /\ k.req \in ReqMap /\ Only(m.req, k.req, r) /\ k.req[r] = t
  BY ONLY <1>0, <1>1, <1>3, <1>4, SetReqAt
<1>6. k \in Mem
  BY <1>2, <1>5, SameMem DEF SameBut
<1> QED
  BY <1>2, <1>4, <1>5, <1>6 DEF s

\* A holder of a request is counted no longer, and tells whether it is valid.
LEMMA SetValid ==
  ASSUME NEW m \in Mem, NEW r \in Reqs, NEW v \in BOOLEAN, NEW k,
         k = [m EXCEPT !.req[r].valid = v, !.req[r].refs = @ - 1]
  PROVE  /\ k \in Mem /\ SameBut(m, k, {"req"}) /\ Only(m.req, k.req, r)
         /\ ReqBut(m.req[r], k.req[r], {"valid", "refs"})
         /\ k.req[r].refs = m.req[r].refs - 1
<1> DEFINE s == m.req[r]
<1> DEFINE w == s.refs - 1
<1> DEFINE t == [s EXCEPT !.valid = v, !.refs = w]
<1>1. IsMem(m) /\ m.req \in ReqMap /\ s \in ReqRecord
  BY MemParts DEF ReqMap
<1>2. /\ SameBut(m, k, {"req"})
      /\ k.req = [m.req EXCEPT ![r].valid = v, ![r].refs = @ - 1]
  BY <1>1 DEF IsMem, SameBut
<1>3. Puts(m.req, k.req, r, t)
  BY <1>1, <1>2 DEF ReqMap, Puts
<1>w. w \in Int
  BY <1>1 DEF ReqRecord
<1> HIDE DEF w
<1>4. t \in ReqRecord /\ ReqBut(s, t, {"valid", "refs"}) /\ t.refs = w
  BY <1>1, <1>w DEF ReqRecord, ReqBut, Is
<1> HIDE DEF s, t
<1>5. /\ k.req \in ReqMap /\ Only(m.req, k.req, r) /\ k.req[r] = t
  BY <1>1, <1>3, <1>4, SetReqAt
<1>6. k \in Mem
  BY <1>2, <1>5, SameMem DEF SameBut
<1> QED
  BY <1>2, <1>4, <1>5, <1>6 DEF s, w

SetsResult(m, k, r, n) ==
  k = [m EXCEPT !.req[r].result = n, !.req[r].moved = m.req[r].notify,
                !.req[r].notify = {}, !.req[r].refs = @ - 1]

\* A request gets its result, and its worker takes the list.
LEMMA SetResult ==
  ASSUME NEW m \in Mem, NEW r \in Reqs, NEW n \in Int, NEW k, SetsResult(m, k, r, n)
  PROVE  /\ k \in Mem /\ SameBut(m, k, {"req"}) /\ Only(m.req, k.req, r)
         /\ ReqBut(m.req[r], k.req[r], {"result", "moved", "notify", "refs"})
         /\ k.req[r].result = n /\ Is(k.req[r].moved, m.req[r].notify) /\ Is(k.req[r].notify, {}) /\ k.req[r].refs = m.req[r].refs - 1
<1> DEFINE s == m.req[r]
<1> DEFINE w == s.refs - 1
<1> DEFINE t == [s EXCEPT !.result = n, !.moved = m.req[r].notify, !.notify = {}, !.refs = w]
<1>1. IsMem(m) /\ m.req \in ReqMap /\ s \in ReqRecord
  BY MemParts DEF ReqMap
<1>2. /\ SameBut(m, k, {"req"})
      /\ k.req = [m.req EXCEPT ![r].result = n, ![r].moved = m.req[r].notify, ![r].notify = {}, ![r].refs = @ - 1]
  BY <1>1 DEF IsMem, SameBut, SetsResult
<1>3. Puts(m.req, k.req, r, t)
  BY <1>1, <1>2 DEF ReqMap, Puts
<1>w. w \in Int
  BY <1>1 DEF ReqRecord
<1> HIDE DEF w
<1>4. t \in ReqRecord /\ ReqBut(s, t, {"result", "moved", "notify", "refs"}) /\ t.result = n /\ Is(t.moved, s.notify) /\ Is(t.notify, {}) /\ t.refs = w
  BY <1>1, <1>w DEF ReqRecord, ReqBut, Is
<1> HIDE DEF s, t
<1>5. /\ k.req \in ReqMap /\ Only(m.req, k.req, r) /\ k.req[r] = t
  BY <1>1, <1>3, <1>4, SetReqAt
<1>6. k \in Mem
  BY <1>2, <1>5, SameMem DEF SameBut
<1> QED
  BY <1>2, <1>4, <1>5, <1>6 DEF s, w

SetsMoved(m, k, r, a, w) == k = [m EXCEPT !.req[r].moved = a, !.req[r].wakes = w]

\* A worker takes a connect off its own list, to wake its loop next.
LEMMA SetMoved ==
  ASSUME NEW m \in Mem, NEW r \in Reqs, NEW a \in SUBSET Conns,
         NEW w \in Loops \cup {Null}, NEW k, SetsMoved(m, k, r, a, w)
  PROVE  /\ k \in Mem /\ SameBut(m, k, {"req"}) /\ Only(m.req, k.req, r)
         /\ ReqBut(m.req[r], k.req[r], {"moved", "wakes"})
         /\ Is(k.req[r].moved, a) /\ k.req[r].wakes = w
<1> DEFINE s == m.req[r]
<1> DEFINE t == [s EXCEPT !.moved = a, !.wakes = w]
<1>1. IsMem(m) /\ m.req \in ReqMap /\ s \in ReqRecord
  BY MemParts DEF ReqMap
<1>2. /\ SameBut(m, k, {"req"})
      /\ k.req = [m.req EXCEPT ![r].moved = a, ![r].wakes = w]
  BY <1>1 DEF IsMem, SameBut, SetsMoved
<1>3. Puts(m.req, k.req, r, t)
  BY <1>1, <1>2 DEF ReqMap, Puts
<1>4. t \in ReqRecord /\ ReqBut(s, t, {"moved", "wakes"}) /\ Is(t.moved, a) /\ t.wakes = w
  BY <1>1 DEF ReqRecord, ReqBut, Is
<1> HIDE DEF s, t
<1>5. /\ k.req \in ReqMap /\ Only(m.req, k.req, r) /\ k.req[r] = t
  BY <1>1, <1>3, <1>4, SetReqAt
<1>6. k \in Mem
  BY <1>2, <1>5, SameMem DEF SameBut
<1> QED
  BY <1>2, <1>4, <1>5, <1>6 DEF s

\* A request outlives its time.
LEMMA SetOld ==
  ASSUME NEW m \in Mem, NEW r \in Reqs, NEW k,
         k = [m EXCEPT !.req[r].old = TRUE]
  PROVE  /\ k \in Mem /\ SameBut(m, k, {"req"}) /\ Only(m.req, k.req, r)
         /\ ReqBut(m.req[r], k.req[r], {"old"})
         /\ k.req[r].old
<1> DEFINE s == m.req[r]
<1> DEFINE t == [s EXCEPT !.old = TRUE]
<1>0. r \in Reqs
  OBVIOUS
<1>1. IsMem(m) /\ m.req \in ReqMap /\ s \in ReqRecord
  BY MemParts DEF ReqMap
<1>2. /\ SameBut(m, k, {"req"})
      /\ k.req = [m.req EXCEPT ![r].old = TRUE]
  BY <1>1 DEF IsMem, SameBut
<1>3. Puts(m.req, k.req, r, t)
  BY <1>1, <1>2 DEF ReqMap, Puts
<1>4. t \in ReqRecord /\ ReqBut(s, t, {"old"}) /\ t.old
  BY <1>1 DEF ReqRecord, ReqBut, Is
<1> HIDE DEF s, t
<1>5. /\ k.req \in ReqMap /\ Only(m.req, k.req, r) /\ k.req[r] = t
  BY ONLY <1>0, <1>1, <1>3, <1>4, SetReqAt
<1>6. k \in Mem
  BY <1>2, <1>5, SameMem DEF SameBut
<1> QED
  BY <1>2, <1>4, <1>5, <1>6 DEF s

\* A worker has no loop left to wake.
LEMMA SetWoken ==
  ASSUME NEW m \in Mem, NEW r \in Reqs, NEW k,
         k = [m EXCEPT !.req[r].wakes = Null]
  PROVE  /\ k \in Mem /\ SameBut(m, k, {"req"}) /\ Only(m.req, k.req, r)
         /\ ReqBut(m.req[r], k.req[r], {"wakes"})
         /\ k.req[r].wakes = Null
<1> DEFINE s == m.req[r]
<1> DEFINE t == [s EXCEPT !.wakes = Null]
<1>0. r \in Reqs
  OBVIOUS
<1>1. IsMem(m) /\ m.req \in ReqMap /\ s \in ReqRecord
  BY MemParts DEF ReqMap
<1>2. /\ SameBut(m, k, {"req"})
      /\ k.req = [m.req EXCEPT ![r].wakes = Null]
  BY <1>1 DEF IsMem, SameBut
<1>3. Puts(m.req, k.req, r, t)
  BY <1>1, <1>2 DEF ReqMap, Puts
<1>4. t \in ReqRecord /\ ReqBut(s, t, {"wakes"}) /\ t.wakes = Null
  BY <1>1 DEF ReqRecord, ReqBut, Is
<1> HIDE DEF s, t
<1>5. /\ k.req \in ReqMap /\ Only(m.req, k.req, r) /\ k.req[r] = t
  BY ONLY <1>0, <1>1, <1>3, <1>4, SetReqAt
<1>6. k \in Mem
  BY <1>2, <1>5, SameMem DEF SameBut
<1> QED
  BY <1>2, <1>4, <1>5, <1>6 DEF s

-----------------------------------------------------------------------------
(* What keeps the lists of connects.                                       *)

\* The pointers between connects.
SameLinks(s, t) == s.linked = t.linked /\ s.loop = t.loop /\ s.np = t.np /\ s.pp = t.pp

\* Alive for a walk: not freed, and closed unless live.
Stays(s) == s.life = "live" \/ (s.life = "dead" /\ s.closed)

\* The lists and walks are as they were, and nobody a walk needs is freed.
LEMMA GroupSame ==
  ASSUME NEW conn \in ConnMap, NEW conn2 \in ConnMap, NEW head \in [Loops -> Ptr],
         NEW V \in ViewMap, NEW V2 \in ViewMap, NEW rank \in [Conns -> Int],
         Groups(conn, head, V, rank),
         \A c \in Conns : conn[c].linked \/ conn2[c].linked => SameLinks(conn[c], conn2[c]),
         \A c \in Conns : conn2[c].told = 0 => conn[c].told = 0,
         \A l \in Loops : V2[l].walk \subseteq V[l].walk,
         \A l \in Loops, c \in Conns : V2[l].walk # {} /\ conn[c].loop = l =>
           SameLinks(conn[c], conn2[c]) /\ (Stays(conn[c]) => Stays(conn2[c]))
  PROVE  Groups(conn2, head, V2, rank)
<1>1. \A c \in Conns : conn2[c].linked => conn[c].linked /\ SameLinks(conn[c], conn2[c])
  BY DEF SameLinks
<1>2. \A c \in Conns : conn[c].linked => conn2[c].linked /\ SameLinks(conn[c], conn2[c])
  BY DEF SameLinks
<1>3. ASSUME NEW c \in Conns, SameLinks(conn[c], conn2[c]), Skips(conn, rank, c)
      PROVE  Skips(conn2, rank, c)
  BY <1>1, <1>3 DEF Skips, SameLinks
<1>4. \A c \in Conns : LinkOK(conn2, head, c)
  <2> SUFFICES ASSUME NEW c \in Conns, conn2[c].linked PROVE LinkOK(conn2, head, c)
    BY DEF LinkOK
  <2>1. LinkOK(conn, head, c) /\ conn[c].linked /\ SameLinks(conn[c], conn2[c])
    BY <1>1 DEF Groups, Ranked
  <2>2. conn[c] \in ConnRecord
    BY DEF ConnMap
  <2>3. conn[c].np \in Ptr /\ conn[c].pp \in Ptr
    BY <2>2 DEF ConnRecord
  <2>4. conn[c].np # Null => SameLinks(conn[conn[c].np], conn2[conn[c].np])
    BY <1>2, <2>1, <2>3 DEF LinkOK, Ptr
  <2>5. conn[c].pp # Null => SameLinks(conn[conn[c].pp], conn2[conn[c].pp])
    BY <1>2, <2>1, <2>3 DEF LinkOK, Ptr
  <2> QED
    BY <2>1, <2>4, <2>5 DEF LinkOK, SameLinks
<1>5. \A l \in Loops : HeadOK(conn2, head, l)
  <2> SUFFICES ASSUME NEW l \in Loops PROVE HeadOK(conn2, head, l)
    OBVIOUS
  <2>1. HeadOK(conn, head, l) /\ head[l] \in Ptr
    BY DEF Groups, Ranked
  <2>2. head[l] # Null => SameLinks(conn[head[l]], conn2[head[l]])
    BY <1>2, <2>1 DEF HeadOK, Ptr
  <2> QED
    BY <2>1, <2>2 DEF HeadOK, SameLinks
<1>6. \A c \in Conns : conn2[c].linked => Skips(conn2, rank, c) /\ rank[c] <= rank[head[conn2[c].loop]]
  <2> SUFFICES ASSUME NEW c \in Conns, conn2[c].linked
               PROVE  Skips(conn2, rank, c) /\ rank[c] <= rank[head[conn2[c].loop]]
    OBVIOUS
  <2>1. conn[c].linked /\ SameLinks(conn[c], conn2[c])
    BY <1>1
  <2>2. Skips(conn, rank, c) /\ rank[c] <= rank[head[conn[c].loop]]
    BY <2>1 DEF Groups, Ranked
  <2>3. conn2[c].loop = conn[c].loop
    BY <2>1 DEF SameLinks
  <2> QED
    BY <1>3, <2>1, <2>2, <2>3
<1>7. ASSUME NEW l \in Loops, V2[l].walk # {}
      PROVE  \E G \in SUBSET Conns : Walkable(conn2, rank, l, V2[l].walk, G)
  <2>1. PICK G \in SUBSET Conns : Walkable(conn, rank, l, V[l].walk, G)
    BY <1>7 DEF Groups
  <2>2. \A c \in G : /\ conn[c].loop = l /\ conn[c].np \in G \cup {Null}
                     /\ Stays(conn[c]) /\ Skips(conn, rank, c)
    BY <2>1 DEF Walkable, Stays
  <2>3. \A c \in G : SameLinks(conn[c], conn2[c]) /\ Stays(conn2[c])
    BY <1>7, <2>2
  <2>4. \A c \in G : /\ conn2[c].loop = l /\ conn2[c].np \in G \cup {Null}
                     /\ Stays(conn2[c]) /\ Skips(conn2, rank, c)
    BY <1>3, <2>2, <2>3 DEF SameLinks
  <2>5. \A c \in Conns : conn2[c].linked /\ conn2[c].loop = l => c \in G
    BY <1>1, <2>1 DEF Walkable, SameLinks
  <2>6. \A d \in Conns : conn2[d].linked /\ conn2[d].loop = l /\ conn2[d].told = 0 =>
                           conn[d].linked /\ conn[d].loop = l /\ conn[d].told = 0
    BY <1>1 DEF SameLinks
  <2>7. \A p \in V2[l].walk : p \in V[l].walk
    OBVIOUS
  <2>8. Walkable(conn2, rank, l, V2[l].walk, G)
    BY <2>1, <2>4, <2>5, <2>6, <2>7 DEF Walkable, Stays
  <2> QED
    BY <2>8
<1> QED
  BY <1>4, <1>5, <1>6, <1>7 DEF Groups, Ranked

\* A new connect at the head of its loop's list.
LinksIn(conn, conn2, head, head2, V, V2, l, c) ==
  /\ ~conn[c].linked /\ conn[c].loop = Null
  /\ V2[l].walk = {} /\ \A k \in Loops : V2[k].walk \subseteq V[k].walk
  /\ conn2[c].linked /\ conn2[c].loop = l
  /\ conn2[c].np = head[l] /\ conn2[c].pp = Null
  /\ \A d \in Conns \ {c} :
       /\ conn2[d].linked = conn[d].linked /\ conn2[d].loop = conn[d].loop
       /\ conn2[d].np = conn[d].np
       /\ conn2[d].pp = IF d = head[l] THEN c ELSE conn[d].pp
       /\ conn2[d].life = conn[d].life /\ conn2[d].closed = conn[d].closed
       /\ conn2[d].told = conn[d].told
  /\ head2 = [head EXCEPT ![l] = c]

\* A connect at the head of a list comes before the others in a new order.
LEMMA GroupLink ==
  ASSUME NEW conn \in ConnMap, NEW conn2 \in ConnMap,
         NEW head \in [Loops -> Ptr], NEW head2 \in [Loops -> Ptr],
         NEW V \in ViewMap, NEW V2 \in ViewMap, NEW rank \in [Conns -> Int],
         Groups(conn, head, V, rank),
         NEW l \in Loops, NEW c \in Conns, LinksIn(conn, conn2, head, head2, V, V2, l, c)
  PROVE  \E rank2 \in [Conns -> Int] : Groups(conn2, head2, V2, rank2)
<1> USE DEF LinksIn
<1> DEFINE rank2 == [rank EXCEPT ![c] = IF head[l] = Null THEN 0 ELSE rank[head[l]] + 1]
<1>0. head[l] \in Ptr /\ c # Null /\ Null \notin Loops
  BY Bounds
<1>1. rank2 \in [Conns -> Int]
  BY <1>0 DEF Ptr
<1>2. \A d \in Conns \ {c} : rank2[d] = rank[d]
  OBVIOUS
<1>3. head[l] # Null => /\ head[l] \in Conns /\ head[l] # c
                        /\ conn[head[l]].linked /\ conn[head[l]].loop = l
                        /\ conn[head[l]].pp = Null
                        /\ rank2[c] = rank[head[l]] + 1
  BY <1>0 DEF Groups, Ranked, HeadOK, Ptr
<1> HIDE DEF rank2
<1>4. ASSUME NEW d \in Conns, conn[d].linked
      PROVE  /\ d # c /\ LinkOK(conn, head, d) /\ Skips(conn, rank, d)
             /\ rank[d] <= rank[head[conn[d].loop]] /\ head[conn[d].loop] # Null
             /\ conn[d].np \in Ptr /\ conn[d].pp \in Ptr /\ conn[d].np # c /\ conn[d].pp # c
  <2>1. LinkOK(conn, head, d) /\ Skips(conn, rank, d) /\ rank[d] <= rank[head[conn[d].loop]]
    BY <1>4 DEF Groups, Ranked
  <2>2. conn[d].np \in Ptr /\ conn[d].pp \in Ptr
    BY DEF ConnMap, ConnRecord
  <2> QED
    BY <1>0, <1>4, <2>1, <2>2 DEF LinkOK
<1>5. \A d \in Conns : conn2[d].linked <=> d = c \/ conn[d].linked
  OBVIOUS
<1>6. ASSUME NEW d \in Conns, conn2[d].linked PROVE LinkOK(conn2, head2, d)
  <2>1. CASE d = c
    <3>1. conn2[c].np # Null => /\ conn2[conn2[c].np].linked /\ conn2[conn2[c].np].loop = l
                                /\ conn2[conn2[c].np].pp = c
      BY <1>3
    <3>2. head2[l] = c
      OBVIOUS
    <3> QED
      BY <1>0, <2>1, <3>1, <3>2 DEF LinkOK
  <2>2. CASE d # c
    <3>1. /\ conn[d].linked /\ LinkOK(conn, head, d)
          /\ conn[d].np \in Ptr /\ conn[d].pp \in Ptr /\ conn[d].np # c /\ conn[d].pp # c
      BY <1>4, <1>5, <1>6, <2>2
    <3>2. /\ conn2[d].loop = conn[d].loop /\ conn2[d].np = conn[d].np
          /\ conn2[d].pp = IF d = head[l] THEN c ELSE conn[d].pp
      BY <2>2
    <3>3. head2[conn2[d].loop] # Null
      BY <1>0, <3>1, <3>2 DEF LinkOK
    <3>4. conn2[d].np # Null => /\ conn2[conn2[d].np].linked /\ conn2[conn2[d].np].loop = conn2[d].loop
                                /\ conn2[conn2[d].np].pp = d
      BY <1>3, <3>1, <3>2, Bounds DEF LinkOK, Ptr
    <3>5. CASE d = head[l]
      <4>1. conn2[d].pp = c /\ conn2[d].loop = l
        BY <1>3, <3>2, <3>5, Bounds
      <4> QED
        BY <1>0, <3>3, <3>4, <3>5, <4>1 DEF LinkOK
    <3>6. CASE d # head[l]
      <4>1. conn2[d].pp = conn[d].pp
        BY <3>2, <3>6
      <4>2. conn[d].pp = Null => head2[conn2[d].loop] = d
        BY <3>1, <3>2, <3>6 DEF LinkOK
      <4>3. conn[d].pp # Null => /\ conn2[conn[d].pp].linked /\ conn2[conn[d].pp].loop = conn2[d].loop
                                 /\ conn2[conn[d].pp].np = d
        BY <3>1, <3>2 DEF LinkOK, Ptr
      <4>4. conn2[d].loop \in Loops
        BY <3>1, <3>2 DEF LinkOK
      <4> QED
        BY <3>3, <3>4, <4>1, <4>2, <4>3, <4>4 DEF LinkOK
    <3> QED
      BY <3>5, <3>6
  <2> QED
    BY <2>1, <2>2
<1>7. \A k \in Loops : HeadOK(conn2, head2, k)
  <2> SUFFICES ASSUME NEW k \in Loops, k # l PROVE HeadOK(conn2, head2, k)
    BY DEF HeadOK
  <2>1. HeadOK(conn, head, k) /\ head2[k] = head[k] /\ head[k] \in Ptr
    BY DEF Groups, Ranked
  <2>2. head[k] # Null => head[k] # c /\ head[k] # head[l] /\ head[k] \in Conns
    BY <1>3, <2>1 DEF HeadOK, Ptr
  <2> QED
    BY <2>1, <2>2 DEF HeadOK
<1>8. ASSUME NEW d \in Conns, d # c, conn[d].loop \in Loops, Skips(conn, rank, d), conn[d].np # c,
             conn[d].loop = l => conn[d].linked
      PROVE  Skips(conn2, rank2, d)
  <2>0. conn[d].np \in Ptr /\ conn2[d].np = conn[d].np /\ conn2[d].loop = conn[d].loop
    BY <1>8 DEF ConnMap, ConnRecord
  <2>1. conn2[d].np # Null => rank2[conn2[d].np] < rank2[d]
    BY <1>2, <1>8, <2>0 DEF Skips, Ptr
  <2>2. ASSUME NEW e \in Conns, conn2[e].linked, conn2[e].loop = conn2[d].loop
        PROVE  /\ rank2[e] = rank2[d] => e = d
               /\ rank2[e] < rank2[d] => conn2[d].np # Null /\ rank2[e] <= rank2[conn2[d].np]
    <3>1. CASE e = c
      <4>1. conn[d].linked /\ conn[d].loop = l
        BY <1>8, <2>0, <2>2, <3>1
      <4>2. head[l] # Null /\ rank[d] <= rank[head[l]] /\ rank[d] \in Int /\ rank[head[l]] \in Int
        BY <1>3, <1>4, <4>1
      <4>3. rank2[c] > rank2[d] /\ rank2[c] \in Int
        BY <1>1, <1>2, <1>3, <1>8, <4>2
      <4> QED
        BY <1>1, <3>1, <4>3
    <3>2. CASE e # c
      <4>1. conn[e].linked /\ conn[e].loop = conn[d].loop
        BY <2>0, <2>2, <3>2
      <4> QED
        BY <1>2, <1>8, <2>0, <3>2, <4>1 DEF Skips, Ptr
    <3> QED
      BY <3>1, <3>2
  <2> QED
    BY <2>1, <2>2 DEF Skips
<1>9. ASSUME NEW d \in Conns, conn2[d].linked
      PROVE  Skips(conn2, rank2, d) /\ rank2[d] <= rank2[head2[conn2[d].loop]]
  <2>1. CASE d = c
    <3>1. conn2[c].np # Null => rank2[conn2[c].np] < rank2[c]
      BY <1>2, <1>3
    <3>2. ASSUME NEW e \in Conns, conn2[e].linked, conn2[e].loop = l, e # c
          PROVE  rank2[e] < rank2[c] /\ conn2[c].np # Null /\ rank2[e] <= rank2[conn2[c].np]
      <4>1. conn[e].linked /\ conn[e].loop = l
        BY <1>5, <3>2
      <4>2. head[l] # Null /\ rank[e] <= rank[head[l]]
        BY <1>4, <4>1
      <4> QED
        BY <1>2, <1>3, <3>2, <4>2
    <3>3. Skips(conn2, rank2, c)
      BY <1>1, <3>1, <3>2 DEF Skips
    <3> QED
      BY <1>1, <2>1, <3>3
  <2>2. CASE d # c
    <3>1. conn[d].linked /\ conn2[d].loop = conn[d].loop
      BY <1>5, <1>9, <2>2
    <3>2. /\ Skips(conn, rank, d) /\ conn[d].np # c /\ rank[d] <= rank[head[conn[d].loop]]
          /\ head[conn[d].loop] # Null /\ LinkOK(conn, head, d)
      BY <1>4, <3>1
    <3>3. conn[d].loop \in Loops
      BY <3>1, <3>2 DEF LinkOK
    <3>4. Skips(conn2, rank2, d)
      BY <1>8, <2>2, <3>1, <3>2, <3>3
    <3>5. rank2[d] <= rank2[head2[conn2[d].loop]]
      <4>1. CASE conn[d].loop = l
        BY <1>0, <1>2, <1>3, <2>2, <3>1, <3>2, <4>1
      <4>2. CASE conn[d].loop # l
        <5>1. head2[conn[d].loop] = head[conn[d].loop] /\ head[conn[d].loop] # c
              /\ head[conn[d].loop] \in Conns
          BY <1>0, <3>2, <3>3, <4>2 DEF Groups, Ranked, HeadOK, Ptr
        <5> QED
          BY <1>2, <2>2, <3>1, <3>2, <5>1
      <4> QED
        BY <4>1, <4>2
    <3> QED
      BY <3>4, <3>5
  <2> QED
    BY <2>1, <2>2
<1>10. ASSUME NEW k \in Loops, V2[k].walk # {}
       PROVE  \E G \in SUBSET Conns : Walkable(conn2, rank2, k, V2[k].walk, G)
  <2>1. PICK G \in SUBSET Conns : Walkable(conn, rank, k, V[k].walk, G)
    BY <1>10 DEF Groups
  <2>2. k # l /\ c \notin G
    BY <1>0, <1>10, <2>1 DEF Walkable
  <2>3. ASSUME NEW d \in G
        PROVE  /\ conn2[d].loop = k /\ conn2[d].np \in G \cup {Null}
               /\ conn2[d].life = "live" \/ (conn2[d].life = "dead" /\ conn2[d].closed)
               /\ Skips(conn2, rank2, d)
    <3>1. /\ conn[d].loop = k /\ conn[d].np \in G \cup {Null}
          /\ conn[d].life = "live" \/ (conn[d].life = "dead" /\ conn[d].closed)
          /\ Skips(conn, rank, d)
      BY <2>1 DEF Walkable
    <3>2. d # c /\ conn[d].np # c
      BY <1>0, <2>2, <3>1
    <3>3. Skips(conn2, rank2, d)
      BY <1>8, <2>2, <3>1, <3>2
    <3> QED
      BY <3>1, <3>2, <3>3
  <2>4. \A d \in Conns : conn2[d].linked /\ conn2[d].loop = k => d \in G
    BY <2>1, <2>2 DEF Walkable
  <2>5. ASSUME NEW p \in V2[k].walk
        PROVE  /\ p \in G \cup {Null}
               /\ \A d \in Conns : conn2[d].linked /\ conn2[d].loop = k /\ conn2[d].told = 0 =>
                    p # Null /\ rank2[d] <= rank2[p]
    <3>1. /\ p \in G \cup {Null}
          /\ \A d \in Conns : conn[d].linked /\ conn[d].loop = k /\ conn[d].told = 0 =>
               p # Null /\ rank[d] <= rank[p]
      BY <2>1, <2>5 DEF Walkable
    <3>2. \A d \in Conns : conn2[d].linked /\ conn2[d].loop = k /\ conn2[d].told = 0 =>
            conn[d].linked /\ conn[d].loop = k /\ conn[d].told = 0 /\ d # c
      BY <2>2
    <3> QED
      BY <1>2, <2>2, <3>1, <3>2
  <2>6. Walkable(conn2, rank2, k, V2[k].walk, G)
    BY <2>3, <2>4, <2>5 DEF Walkable
  <2> QED
    BY <2>6
<1>11. \A d \in Conns : LinkOK(conn2, head2, d)
  BY <1>6 DEF LinkOK
<1>12. Groups(conn2, head2, V2, rank2)
  BY <1>7, <1>9, <1>10, <1>11 DEF Groups, Ranked
<1> QED
  BY <1>1, <1>12

\* What Detach leaves alone: all but the pointers, and linked of c.
Detached(conn, conn2, c) ==
  \A d \in Conns :
    /\ conn2[d].life = conn[d].life /\ conn2[d].loop = conn[d].loop
    /\ conn2[d].req = conn[d].req /\ conn2[d].pending = conn[d].pending
    /\ conn2[d].closed = conn[d].closed /\ conn2[d].att = conn[d].att
    /\ conn2[d].told = conn[d].told /\ conn2[d].own = conn[d].own
    /\ conn2[d].addr = conn[d].addr
    /\ conn2[d].linked = (conn[d].linked /\ d # c)

\* What Detach does to the pointers, case by case, as unlink does.
LEMMA DetachEffect ==
  ASSUME NEW m \in Mem, NEW c \in Conns
  PROVE  LET k == Detach(m, c) IN
         /\ k \in Mem /\ Detached(m.conn, k.conn, c)
         /\ k.req = m.req /\ k.cache = m.cache /\ k.ready = m.ready
         /\ k.wake = m.wake /\ k.keep = m.keep
         /\ ~m.conn[c].linked => k = m
         /\ m.conn[c].linked =>
              LET p == m.conn[c].pp
                  n == m.conn[c].np
                  l == m.conn[c].loop
              IN  /\ k.head = IF p = n THEN [m.head EXCEPT ![l] = Null]
                              ELSE IF p = Null THEN [m.head EXCEPT ![l] = n] ELSE m.head
                  /\ \A d \in Conns :
                       /\ k.conn[d].np = IF p # n /\ p # Null /\ d = p THEN n ELSE m.conn[d].np
                       /\ k.conn[d].pp = IF p # n /\ n # Null /\ d = n THEN p ELSE m.conn[d].pp
<1> DEFINE k == Detach(m, c)
           p == m.conn[c].pp
           n == m.conn[c].np
           l == m.conn[c].loop
<1>0. /\ m.conn \in [Conns -> ConnRecord] /\ m.head \in [Loops -> Ptr]
      /\ m = [conn |-> m.conn, req |-> m.req, cache |-> m.cache, ready |-> m.ready,
              head |-> m.head, wake |-> m.wake, keep |-> m.keep]
      /\ p \in Ptr /\ n \in Ptr /\ m.conn[c] \in ConnRecord
  BY MemParts DEF ConnMap, ConnRecord, IsMem
<1>1. CASE ~m.conn[c].linked
  <2>1. k = m
    BY <1>1 DEF Detach
  <2>2. m.conn[c].linked = FALSE
    BY <1>0, <1>1 DEF ConnRecord
  <2>3. \A d \in Conns : m.conn[d].linked \in BOOLEAN
    BY <1>0 DEF ConnRecord
  <2>4. \A d \in Conns : m.conn[d].linked = (m.conn[d].linked /\ d # c)
    BY <2>2, <2>3
  <2>5. Detached(m.conn, k.conn, c)
    BY <2>1, <2>4 DEF Detached
  <2> QED
    BY <1>1, <2>1, <2>5
<1>2. CASE m.conn[c].linked
  <2> DEFINE u == UnlinkConnecting(m, l, c)
             fwd == IF p = n \/ p = Null THEN m.conn ELSE [m.conn EXCEPT ![p].np = n]
             uc == IF p = n \/ n = Null THEN fwd ELSE [fwd EXCEPT ![n].pp = p]
             kc == [uc EXCEPT ![c].linked = FALSE]
             uh == IF p = n THEN [m.head EXCEPT ![l] = Null]
                   ELSE IF p = Null THEN [m.head EXCEPT ![l] = n] ELSE m.head
  <2>1. k = [u EXCEPT !.conn[c].linked = FALSE]
    BY <1>2 DEF Detach
  <2>2. u = [conn |-> uc, req |-> m.req, cache |-> m.cache, ready |-> m.ready,
             head |-> uh, wake |-> m.wake, keep |-> m.keep]
    <3>1. CASE p = n
      BY <1>0, <3>1 DEF UnlinkConnecting
    <3>2. CASE p # n /\ p = Null
      BY <1>0, <3>2 DEF UnlinkConnecting
    <3>3. CASE p # n /\ p # Null /\ n = Null
      BY <1>0, <3>3 DEF UnlinkConnecting
    <3>4. CASE p # n /\ p # Null /\ n # Null
      BY <1>0, <3>4, Zenon DEF UnlinkConnecting
    <3> QED
      BY <3>1, <3>2, <3>3, <3>4, Zenon
  <2>3. uh \in [Loops -> Ptr]
    BY <1>0 DEF Ptr
  <2> HIDE DEF u, uc, uh
  <2>4. k = [conn |-> kc, req |-> m.req, cache |-> m.cache, ready |-> m.ready,
             head |-> uh, wake |-> m.wake, keep |-> m.keep]
    BY <2>1, <2>2
  <2>5. /\ k.conn = kc /\ k.head = uh /\ k.req = m.req /\ k.cache = m.cache
        /\ k.ready = m.ready /\ k.wake = m.wake /\ k.keep = m.keep
    BY <2>4
  <2> HIDE DEF k
  <2>6. /\ fwd \in [Conns -> ConnRecord]
        /\ \A d \in Conns :
             fwd[d] = IF p # n /\ p # Null /\ d = p THEN [m.conn[d] EXCEPT !.np = n] ELSE m.conn[d]
    <3>1. p # Null => [m.conn[p] EXCEPT !.np = n] \in ConnRecord
      BY <1>0, Conn_np DEF Ptr
    <3> HIDE DEF p, n
    <3> QED
      BY <1>0, <3>1 DEF Ptr
  <2>7. /\ uc \in [Conns -> ConnRecord]
        /\ \A d \in Conns :
             uc[d] = IF p # n /\ n # Null /\ d = n THEN [fwd[d] EXCEPT !.pp = p] ELSE fwd[d]
    <3>1. n # Null => [fwd[n] EXCEPT !.pp = p] \in ConnRecord
      BY <1>0, <2>6, Conn_pp DEF Ptr
    <3> HIDE DEF p, n, fwd
    <3> QED
      BY <1>0, <2>6, <3>1 DEF Ptr, uc
  <2>8. /\ kc \in [Conns -> ConnRecord]
        /\ \A d \in Conns : kc[d] = IF d = c THEN [uc[d] EXCEPT !.linked = FALSE] ELSE uc[d]
    <3>1. [uc[c] EXCEPT !.linked = FALSE] \in ConnRecord
      BY <2>7, Conn_linked
    <3> QED
      BY <2>7, <3>1
  <2> HIDE DEF fwd, kc, p, n, l
  <2>9. ASSUME NEW d \in Conns
        PROVE  /\ kc[d].np = IF p # n /\ p # Null /\ d = p THEN n ELSE m.conn[d].np
               /\ kc[d].pp = IF p # n /\ n # Null /\ d = n THEN p ELSE m.conn[d].pp
               /\ kc[d].life = m.conn[d].life /\ kc[d].loop = m.conn[d].loop
               /\ kc[d].req = m.conn[d].req /\ kc[d].pending = m.conn[d].pending
               /\ kc[d].closed = m.conn[d].closed /\ kc[d].att = m.conn[d].att
               /\ kc[d].told = m.conn[d].told /\ kc[d].own = m.conn[d].own
               /\ kc[d].addr = m.conn[d].addr
               /\ kc[d].linked = IF d = c THEN FALSE ELSE m.conn[d].linked
    <3>1. m.conn[d] \in ConnRecord /\ fwd[d] \in ConnRecord /\ uc[d] \in ConnRecord
      BY <1>0, <2>6, <2>7
    <3>2. /\ fwd[d].np = IF p # n /\ p # Null /\ d = p THEN n ELSE m.conn[d].np
          /\ fwd[d].pp = m.conn[d].pp /\ fwd[d].linked = m.conn[d].linked
          /\ fwd[d].life = m.conn[d].life /\ fwd[d].loop = m.conn[d].loop
          /\ fwd[d].req = m.conn[d].req /\ fwd[d].pending = m.conn[d].pending
          /\ fwd[d].closed = m.conn[d].closed /\ fwd[d].att = m.conn[d].att
          /\ fwd[d].told = m.conn[d].told /\ fwd[d].own = m.conn[d].own
          /\ fwd[d].addr = m.conn[d].addr
      <4>1. CASE p # n /\ p # Null /\ d = p
        <5>1. fwd[d] = [m.conn[d] EXCEPT !.np = n]
          BY <2>6, <4>1
        <5> QED
          BY <1>0, <3>1, <4>1, <5>1, Conn_np
      <4>2. CASE ~(p # n /\ p # Null /\ d = p)
        BY <2>6, <4>2
      <4> QED
        BY <4>1, <4>2
    <3>3. /\ uc[d].pp = IF p # n /\ n # Null /\ d = n THEN p ELSE fwd[d].pp
          /\ uc[d].np = fwd[d].np /\ uc[d].linked = fwd[d].linked
          /\ uc[d].life = fwd[d].life /\ uc[d].loop = fwd[d].loop
          /\ uc[d].req = fwd[d].req /\ uc[d].pending = fwd[d].pending
          /\ uc[d].closed = fwd[d].closed /\ uc[d].att = fwd[d].att
          /\ uc[d].told = fwd[d].told /\ uc[d].own = fwd[d].own
          /\ uc[d].addr = fwd[d].addr
      <4>1. CASE p # n /\ n # Null /\ d = n
        <5>1. uc[d] = [fwd[d] EXCEPT !.pp = p]
          BY <2>7, <4>1
        <5> QED
          BY <1>0, <3>1, <4>1, <5>1, Conn_pp
      <4>2. CASE ~(p # n /\ n # Null /\ d = n)
        BY <2>7, <4>2
      <4> QED
        BY <4>1, <4>2
    <3>4. /\ kc[d].linked = IF d = c THEN FALSE ELSE uc[d].linked
          /\ kc[d].np = uc[d].np /\ kc[d].pp = uc[d].pp
          /\ kc[d].life = uc[d].life /\ kc[d].loop = uc[d].loop
          /\ kc[d].req = uc[d].req /\ kc[d].pending = uc[d].pending
          /\ kc[d].closed = uc[d].closed /\ kc[d].att = uc[d].att
          /\ kc[d].told = uc[d].told /\ kc[d].own = uc[d].own
          /\ kc[d].addr = uc[d].addr
      <4>1. CASE d = c
        <5>1. kc[d] = [uc[d] EXCEPT !.linked = FALSE] /\ FALSE \in BOOLEAN
          BY <2>8, <4>1
        <5> QED
          BY <3>1, <4>1, <5>1, Conn_linked
      <4>2. CASE d # c
        BY <2>8, <4>2
      <4> QED
        BY <4>1, <4>2
    <3> QED
      BY <3>2, <3>3, <3>4
  <2>10. Detached(m.conn, k.conn, c)
    <3> SUFFICES ASSUME NEW d \in Conns
                 PROVE  k.conn[d].linked = (m.conn[d].linked /\ d # c)
      BY <2>5, <2>9, ZenonT(20) DEF Detached
    <3>1. m.conn[d].linked \in BOOLEAN
      BY <1>0 DEF ConnRecord
    <3>2. k.conn[d].linked = IF d = c THEN FALSE ELSE m.conn[d].linked
      BY <2>5, <2>9
    <3> QED
      BY <3>1, <3>2
  <2>11. k \in Mem
    BY <2>3, <2>4, <2>8 DEF Mem
  <2> QED
    BY <1>2, <2>5, <2>9, <2>10, <2>11 DEF k, p, n, l, uh
<1> QED
  BY <1>1, <1>2

\* A connect taken off its list. Its neighbours are not one and the same.
LEMMA GroupUnlink ==
  ASSUME NEW m \in Mem, NEW c \in Conns, NEW V \in ViewMap, NEW rank \in [Conns -> Int],
         Groups(m.conn, m.head, V, rank)
  PROVE  Groups(Detach(m, c).conn, Detach(m, c).head, V, rank)
<1> DEFINE conn == m.conn
           conn2 == Detach(m, c).conn
           head == m.head
           head2 == Detach(m, c).head
           p == conn[c].pp
           n == conn[c].np
           l == conn[c].loop
<1>0. CASE ~conn[c].linked
  BY <1>0 DEF Detach
<1>1. CASE conn[c].linked
  <2>1. /\ Detached(conn, conn2, c)
        /\ head2 = IF p = n THEN [head EXCEPT ![l] = Null]
                   ELSE IF p = Null THEN [head EXCEPT ![l] = n] ELSE head
        /\ \A d \in Conns :
             /\ conn2[d].np = IF p # n /\ p # Null /\ d = p THEN n ELSE conn[d].np
             /\ conn2[d].pp = IF p # n /\ n # Null /\ d = n THEN p ELSE conn[d].pp
    BY <1>1, DetachEffect
  <2>2. /\ conn \in ConnMap /\ head \in [Loops -> Ptr]
        /\ Ranked(conn, head, rank)
        /\ \A k \in Loops : V[k].walk # {} =>
             \E G \in SUBSET Conns : Walkable(conn, rank, k, V[k].walk, G)
    BY MemParts DEF Groups
  <2>3. \A d \in Conns : conn2[d].linked = (conn[d].linked /\ d # c) /\ conn2[d].loop = conn[d].loop
                         /\ conn2[d].told = conn[d].told /\ conn2[d].life = conn[d].life
                         /\ conn2[d].closed = conn[d].closed
    BY <2>1 DEF Detached
  <2> HIDE DEF conn, conn2, head, head2
  <2>4. \A d \in Conns : conn[d].np \in Ptr /\ conn[d].pp \in Ptr /\ conn[d].linked \in BOOLEAN
    BY <2>2 DEF ConnMap, ConnRecord
  <2>5. \A d \in Conns : conn2[d].linked <=> conn[d].linked /\ d # c
    BY <2>3, <2>4
  <2>6. \A d \in Conns : conn[d].linked =>
          LinkOK(conn, head, d) /\ Skips(conn, rank, d) /\ rank[d] <= rank[head[conn[d].loop]]
    BY <2>2 DEF Ranked
  <2>7. /\ l \in Loops /\ p \in Ptr /\ n \in Ptr /\ head[l] # Null
        /\ n # Null => conn[n].linked /\ conn[n].loop = l /\ conn[n].pp = c /\ rank[n] < rank[c]
        /\ p = Null => head[l] = c
        /\ p # Null => conn[p].linked /\ conn[p].loop = l /\ conn[p].np = c /\ rank[c] < rank[p]
    <3>1. c \in Conns /\ conn[c].linked
      BY <1>1 DEF conn
    <3>2. LinkOK(conn, head, c) /\ Skips(conn, rank, c) /\ p \in Ptr /\ n \in Ptr
      BY <2>4, <2>6, <3>1
    <3>3. /\ l \in Loops /\ head[l] # Null
          /\ n # Null => conn[n].linked /\ conn[n].loop = l /\ conn[n].pp = c
          /\ p = Null => head[l] = c
          /\ p # Null => conn[p].linked /\ conn[p].loop = l /\ conn[p].np = c
      BY <3>1, <3>2 DEF LinkOK
    <3>4. n # Null => rank[n] < rank[c]
      BY <3>2 DEF Skips
    <3>5. p # Null => rank[c] < rank[p]
      <4>1. p # Null => p \in Conns /\ Skips(conn, rank, p)
        BY <2>6, <3>2, <3>3 DEF Ptr
      <4>2. c # Null
        BY Bounds
      <4> QED
        BY <3>3, <4>1, <4>2 DEF Skips
    <3> QED
      BY <3>2, <3>3, <3>4, <3>5
  <2>8. p = n => p = Null
    BY <2>7 DEF Ptr
  <2> HIDE DEF p, n, l
  <2>9. \A d \in Conns :
          /\ conn2[d].np = IF p # Null /\ d = p THEN n ELSE conn[d].np
          /\ conn2[d].pp = IF n # Null /\ d = n THEN p ELSE conn[d].pp
    BY <2>1, <2>8
  <2>10. head2 = IF p = Null THEN [head EXCEPT ![l] = n] ELSE head
    BY <2>1, <2>8
  <2>11. ASSUME NEW d \in Conns, conn[d].linked, d # c
         PROVE  /\ conn[d].np = c => d = p
                /\ conn[d].pp = c => d = n
    <3>1. /\ conn[d].np = c => conn[c].pp = d
          /\ conn[d].pp = c => conn[c].np = d
      BY <2>4, <2>6, <2>11, Bounds DEF LinkOK
    <3> QED
      BY <3>1 DEF p, n
  <2>12. ASSUME NEW d \in Conns, d # c, conn[d].linked,
                conn[d].loop = l, rank[d] < rank[c]
         PROVE  n # Null /\ rank[d] <= rank[n]
    BY <1>1, <2>6, <2>12 DEF Skips, n, l, conn
  <2>13. ASSUME NEW d \in Conns, conn2[d].linked PROVE LinkOK(conn2, head2, d)
    <3>1. conn[d].linked /\ d # c /\ LinkOK(conn, head, d)
      BY <2>5, <2>6, <2>13
    <3>2. /\ conn2[d].loop = conn[d].loop /\ conn[d].loop \in Loops
          /\ conn[d].np \in Ptr /\ conn[d].pp \in Ptr /\ d # Null /\ c # Null
      BY <2>3, <2>4, <3>1, Bounds DEF LinkOK
    <3>3. head2[conn[d].loop] # Null
      <4>1. CASE p = Null /\ conn[d].loop = l
        <5>1. rank[d] <= rank[c]
          BY <2>6, <2>7, <3>1, <4>1
        <5>2. rank[d] # rank[c]
          BY <1>1, <2>6, <3>1, <4>1 DEF Skips, conn, l
        <5>3. n # Null
          BY <2>12, <3>1, <4>1, <5>1, <5>2
        <5> QED
          BY <2>2, <2>7, <2>10, <4>1, <5>3
      <4>2. CASE ~(p = Null /\ conn[d].loop = l)
        BY <2>2, <2>10, <3>1, <3>2, <4>2 DEF LinkOK
      <4> QED
        BY <4>1, <4>2
    <3>4. conn2[d].np # Null => /\ conn2[conn2[d].np].linked /\ conn2[conn2[d].np].loop = conn[d].loop
                                /\ conn2[conn2[d].np].pp = d
      <4>1. CASE p # Null /\ d = p
        <5>1. conn2[d].np = n /\ conn[d].loop = l
          BY <2>7, <2>9, <4>1
        <5>2. ASSUME n # Null PROVE conn2[n].linked /\ conn2[n].loop = l /\ conn2[n].pp = d
          <6>1. n \in Conns /\ n # c
            BY <2>7, <5>2 DEF Ptr
          <6> QED
            BY <2>3, <2>7, <2>9, <4>1, <5>2, <6>1
        <5> QED
          BY <5>1, <5>2
      <4>2. CASE ~(p # Null /\ d = p)
        <5>1. conn2[d].np = conn[d].np /\ conn[d].np # c
          BY <2>7, <2>9, <2>11, <3>1, <3>2, <4>2
        <5>2. ASSUME conn[d].np # Null
              PROVE  conn[d].np \in Conns /\ conn[d].np # n
          <6>1. conn[d].np \in Conns /\ conn[conn[d].np].pp = d
            BY <3>1, <3>2, <5>2 DEF LinkOK, Ptr
          <6> QED
            BY <2>7, <3>1, <6>1, Bounds
        <5> QED
          BY <2>3, <2>5, <2>9, <3>1, <5>1, <5>2 DEF LinkOK
      <4> QED
        BY <4>1, <4>2
    <3>5. conn2[d].pp # Null => /\ conn2[conn2[d].pp].linked /\ conn2[conn2[d].pp].loop = conn[d].loop
                                /\ conn2[conn2[d].pp].np = d
      <4>1. CASE n # Null /\ d = n
        <5>1. conn2[d].pp = p /\ conn[d].loop = l
          BY <2>7, <2>9, <4>1
        <5>2. ASSUME p # Null PROVE conn2[p].linked /\ conn2[p].loop = l /\ conn2[p].np = d
          <6>1. p \in Conns /\ p # c
            BY <2>7, <5>2 DEF Ptr
          <6> QED
            BY <2>3, <2>7, <2>9, <4>1, <5>2, <6>1
        <5> QED
          BY <5>1, <5>2
      <4>2. CASE ~(n # Null /\ d = n)
        <5>1. conn2[d].pp = conn[d].pp /\ conn[d].pp # c
          BY <2>7, <2>9, <2>11, <3>1, <3>2, <4>2
        <5>2. ASSUME conn[d].pp # Null
              PROVE  conn[d].pp \in Conns /\ conn[d].pp # p
          <6>1. conn[d].pp \in Conns /\ conn[conn[d].pp].np = d
            BY <3>1, <3>2, <5>2 DEF LinkOK, Ptr
          <6> QED
            BY <2>7, <3>1, <6>1, Bounds
        <5> QED
          BY <2>3, <2>5, <2>9, <3>1, <5>1, <5>2 DEF LinkOK
      <4> QED
        BY <4>1, <4>2
    <3>6. conn2[d].pp = Null => head2[conn[d].loop] = d
      <4>1. CASE n # Null /\ d = n
        BY <2>2, <2>7, <2>9, <2>10, <4>1
      <4>2. CASE ~(n # Null /\ d = n)
        <5>1. conn2[d].pp = conn[d].pp
          BY <2>9, <4>2
        <5>2. conn[d].pp = Null => head[conn[d].loop] = d
          BY <3>1 DEF LinkOK
        <5>3. conn[d].pp = Null => conn[d].loop # l \/ p # Null
          BY <2>7, <3>1, <5>2
        <5> QED
          BY <2>2, <2>7, <2>10, <3>2, <5>1, <5>2, <5>3
      <4> QED
        BY <4>1, <4>2
    <3> QED
      BY <3>2, <3>3, <3>4, <3>5, <3>6 DEF LinkOK
  <2>14. ASSUME NEW k \in Loops PROVE HeadOK(conn2, head2, k)
    <3>1. HeadOK(conn, head, k) /\ head[k] \in Ptr
      BY <2>2 DEF Ranked
    <3>2. CASE p = Null /\ k = l
      <4>1. head2[k] = n
        BY <2>2, <2>10, <3>2
      <4>2. n # Null => n \in Conns /\ n # c
        BY <2>7 DEF Ptr
      <4> QED
        BY <2>3, <2>5, <2>7, <2>9, <3>2, <4>1, <4>2 DEF HeadOK
    <3>3. CASE ~(p = Null /\ k = l)
      <4>1. head2[k] = head[k]
        BY <2>2, <2>10, <3>3
      <4>2. head[k] # Null => head[k] \in Conns /\ head[k] # c /\ head[k] # n
        <5>1. head[k] # Null => head[k] \in Conns /\ conn[head[k]].loop = k /\ conn[head[k]].pp = Null
          BY <3>1 DEF HeadOK, Ptr
        <5>2. conn[c].loop = l /\ conn[c].pp = p
          BY DEF l, p
        <5> QED
          BY <2>7, <3>3, <5>1, <5>2, Bounds
      <4> QED
        BY <2>3, <2>5, <2>9, <3>1, <4>1, <4>2 DEF HeadOK
    <3> QED
      BY <3>2, <3>3
  <2>15. ASSUME NEW d \in Conns, Skips(conn, rank, d), conn[d].loop \in Loops,
                d = p \/ conn[d].np # c \/ ~conn[d].linked
         PROVE  Skips(conn2, rank, d)
    <3>1. CASE p # Null /\ d = p
      <4>1. conn2[d].np = n /\ conn2[d].loop = l /\ conn[d].np = c /\ conn[d].loop = l
        BY <2>3, <2>7, <2>9, <3>1
      <4>2. n # Null => rank[n] < rank[d]
        BY <2>7, <3>1 DEF Ptr
      <4>3. ASSUME NEW e \in Conns, conn2[e].linked, conn2[e].loop = l
            PROVE  /\ rank[e] = rank[d] => e = d
                   /\ rank[e] < rank[d] => n # Null /\ rank[e] <= rank[n]
        <5>1. conn[e].linked /\ conn[e].loop = l /\ e # c
          BY <2>3, <2>5, <4>3
        <5>2. /\ rank[e] = rank[d] => e = d
              /\ rank[e] < rank[d] => rank[e] <= rank[c]
          BY <2>15, <4>1, <5>1 DEF Skips
        <5>3. rank[e] # rank[c]
          BY <1>1, <2>6, <5>1 DEF Skips, conn, l
        <5> QED
          BY <2>12, <5>1, <5>2, <5>3
      <4> QED
        BY <4>1, <4>2, <4>3 DEF Skips
    <3>2. CASE ~(p # Null /\ d = p)
      <4>1. conn2[d].np = conn[d].np /\ conn2[d].loop = conn[d].loop
        BY <2>3, <2>9, <3>2
      <4>2. \A e \in Conns : conn2[e].linked /\ conn2[e].loop = conn[d].loop =>
                               conn[e].linked /\ conn[e].loop = conn[d].loop
        BY <2>3, <2>5
      <4> QED
        BY <2>15, <4>1, <4>2 DEF Skips
    <3> QED
      BY <3>1, <3>2
  <2>16. ASSUME NEW d \in Conns, conn2[d].linked
         PROVE  Skips(conn2, rank, d) /\ rank[d] <= rank[head2[conn2[d].loop]]
    <3>1. /\ conn[d].linked /\ d # c /\ LinkOK(conn, head, d) /\ Skips(conn, rank, d)
          /\ rank[d] <= rank[head[conn[d].loop]]
      BY <2>5, <2>6, <2>16
    <3>2. conn[d].loop \in Loops /\ conn2[d].loop = conn[d].loop
      BY <2>3, <3>1 DEF LinkOK
    <3>3. Skips(conn2, rank, d)
      BY <2>11, <2>15, <3>1, <3>2
    <3>4. rank[d] <= rank[head2[conn[d].loop]]
      <4>1. CASE p = Null /\ conn[d].loop = l
        <5>1. rank[d] <= rank[c]
          BY <2>7, <3>1, <4>1
        <5>2. rank[d] # rank[c]
          BY <1>1, <2>6, <3>1, <4>1 DEF Skips, conn, l
        <5>3. n # Null /\ rank[d] <= rank[n]
          BY <2>12, <3>1, <4>1, <5>1, <5>2
        <5> QED
          BY <2>2, <2>7, <2>10, <4>1, <5>3
      <4>2. CASE ~(p = Null /\ conn[d].loop = l)
        BY <2>2, <2>10, <3>1, <3>2, <4>2
      <4> QED
        BY <4>1, <4>2
    <3> QED
      BY <3>2, <3>3, <3>4
  <2>17. ASSUME NEW k \in Loops, V[k].walk # {}
         PROVE  \E G \in SUBSET Conns : Walkable(conn2, rank, k, V[k].walk, G)
    <3>1. PICK G \in SUBSET Conns : Walkable(conn, rank, k, V[k].walk, G)
      BY <2>2, <2>17
    <3>2. ASSUME NEW d \in G
          PROVE  /\ conn2[d].loop = k /\ conn2[d].np \in G \cup {Null}
                 /\ conn2[d].life = "live" \/ (conn2[d].life = "dead" /\ conn2[d].closed)
                 /\ Skips(conn2, rank, d)
      <4>1. /\ conn[d].loop = k /\ conn[d].np \in G \cup {Null}
            /\ conn[d].life = "live" \/ (conn[d].life = "dead" /\ conn[d].closed)
            /\ Skips(conn, rank, d)
        BY <3>1 DEF Walkable
      <4>2. d = p => n \in G \cup {Null}
        <5>1. d = p => c \in G
          BY <1>1, <2>7, <3>1, <4>1, Bounds DEF Walkable, l, conn, Ptr
        <5> QED
          BY <3>1, <5>1 DEF Walkable, n
      <4>3. conn2[d].np \in G \cup {Null}
        BY <2>9, <4>1, <4>2
      <4>4. Skips(conn2, rank, d)
        <5>1. d = c => conn[d].np # c
          BY <2>7, Bounds DEF n, Ptr
        <5> QED
          BY <2>11, <2>15, <4>1, <5>1
      <4> QED
        BY <2>3, <4>1, <4>3, <4>4
    <3>3. \A d \in Conns : conn2[d].linked /\ conn2[d].loop = k => d \in G
      BY <2>3, <2>5, <3>1 DEF Walkable
    <3>4. \A d \in Conns : conn2[d].linked /\ conn2[d].loop = k /\ conn2[d].told = 0 =>
                             conn[d].linked /\ conn[d].loop = k /\ conn[d].told = 0
      BY <2>3, <2>5
    <3>5. Walkable(conn2, rank, k, V[k].walk, G)
      BY <3>1, <3>2, <3>3, <3>4 DEF Walkable
    <3> QED
      BY <3>5
  <2>18. \A d \in Conns : LinkOK(conn2, head2, d)
    BY <2>13 DEF LinkOK
  <2>19. Groups(conn2, head2, V, rank)
    BY <2>14, <2>16, <2>17, <2>18 DEF Groups, Ranked
  <2> QED
    BY <2>19 DEF conn2, head2
<1> QED
  BY <1>0, <1>1

\* A walk goes on behind a connect that was told its end.
WalksOn(conn, V, V2, l, c) ==
  /\ c \in V[l].walk /\ conn[c].told = 1
  /\ V2[l].walk \subseteq V[l].walk \cup {conn[c].np}
  /\ \A k \in Loops \ {l} : V2[k].walk \subseteq V[k].walk

\* A close_all under way goes on to the successor of a connect that was told its end.
LEMMA GroupWalk ==
  ASSUME NEW conn \in ConnMap, NEW head \in [Loops -> Ptr],
         NEW V \in ViewMap, NEW V2 \in ViewMap, NEW rank \in [Conns -> Int],
         Groups(conn, head, V, rank),
         NEW l \in Loops, NEW c \in Conns, WalksOn(conn, V, V2, l, c)
  PROVE  Groups(conn, head, V2, rank)
<1> USE DEF WalksOn
<1> SUFFICES ASSUME NEW k \in Loops, V2[k].walk # {}
             PROVE  \E G \in SUBSET Conns : Walkable(conn, rank, k, V2[k].walk, G)
  BY DEF Groups
<1>0. V[k].walk # {}
  OBVIOUS
<1>1. PICK G \in SUBSET Conns : Walkable(conn, rank, k, V[k].walk, G)
  BY <1>0 DEF Groups
<1>2. ASSUME NEW p \in V2[k].walk
      PROVE  /\ p \in G \cup {Null}
             /\ \A d \in Conns : conn[d].linked /\ conn[d].loop = k /\ conn[d].told = 0 =>
                  p # Null /\ rank[d] <= rank[p]
  <2>1. CASE p \in V[k].walk
    BY <1>1, <2>1 DEF Walkable
  <2>2. CASE p \notin V[k].walk
    <3>1. k = l /\ p = conn[c].np
      BY <1>2, <2>2
    <3>2. c \in G /\ conn[c].loop = k /\ conn[c].np \in G \cup {Null} /\ Skips(conn, rank, c)
      BY <1>1, <3>1, Bounds DEF Walkable
    <3>3. ASSUME NEW d \in Conns, conn[d].linked, conn[d].loop = k, conn[d].told = 0
          PROVE  p # Null /\ rank[d] <= rank[p]
      <4>1. rank[d] <= rank[c]
        BY <1>1, <3>1, <3>3 DEF Walkable
      <4>2. rank[d] # rank[c]
        BY <3>2, <3>3 DEF Skips
      <4> QED
        BY <3>1, <3>2, <3>3, <4>1, <4>2 DEF Skips
    <3> QED
      BY <3>1, <3>2, <3>3
  <2> QED
    BY <2>1, <2>2
<1>3. Walkable(conn, rank, k, V2[k].walk, G)
  BY <1>1, <1>2 DEF Walkable
<1> QED
  BY <1>3

\* A walk begins at the head of the list.
LEMMA GroupStart ==
  ASSUME NEW conn \in ConnMap, NEW head \in [Loops -> Ptr],
         NEW V \in ViewMap, NEW V2 \in ViewMap, NEW rank \in [Conns -> Int],
         Groups(conn, head, V, rank),
         \A c \in Conns : conn[c].linked => conn[c].life = "live",
         NEW l \in Loops,
         V2[l].walk \subseteq V[l].walk \cup {head[l]},
         \A k \in Loops \ {l} : V2[k].walk \subseteq V[k].walk
  PROVE  Groups(conn, head, V2, rank)
<1> SUFFICES ASSUME NEW k \in Loops, V2[k].walk # {}
             PROVE  \E G \in SUBSET Conns : Walkable(conn, rank, k, V2[k].walk, G)
  BY DEF Groups
<1>0. /\ \A c \in Conns : conn[c].linked => LinkOK(conn, head, c) /\ Skips(conn, rank, c)
                                            /\ rank[c] <= rank[head[conn[c].loop]]
      /\ HeadOK(conn, head, l) /\ head[l] \in Ptr
      /\ \A c \in Conns : conn[c].np \in Ptr
  BY DEF Groups, Ranked, ConnMap, ConnRecord
<1>1. \E G \in SUBSET Conns : Walkable(conn, rank, k, V[k].walk, G)
  <2>1. CASE V[k].walk # {}
    BY <2>1 DEF Groups
  <2>2. CASE V[k].walk = {}
    <3> DEFINE G == {c \in Conns : conn[c].linked /\ conn[c].loop = k}
    <3>1. \A c \in G : conn[c].np \in G \cup {Null}
      BY <1>0 DEF LinkOK, Ptr
    <3>2. Walkable(conn, rank, k, V[k].walk, G)
      BY <1>0, <2>2, <3>1 DEF Walkable
    <3> QED
      BY <3>2
  <2> QED
    BY <2>1, <2>2
<1>2. PICK G \in SUBSET Conns : Walkable(conn, rank, k, V[k].walk, G)
  BY <1>1
<1>3. ASSUME NEW p \in V2[k].walk
      PROVE  /\ p \in G \cup {Null}
             /\ \A d \in Conns : conn[d].linked /\ conn[d].loop = k /\ conn[d].told = 0 =>
                  p # Null /\ rank[d] <= rank[p]
  <2>1. CASE p \in V[k].walk
    BY <1>2, <2>1 DEF Walkable
  <2>2. CASE p \notin V[k].walk
    <3>1. k = l /\ p = head[l]
      BY <1>3, <2>2
    <3>2. p \in G \cup {Null}
      BY <1>0, <1>2, <3>1 DEF Walkable, HeadOK, Ptr
    <3> QED
      BY <1>0, <3>1, <3>2 DEF LinkOK
  <2> QED
    BY <2>1, <2>2
<1>4. Walkable(conn, rank, k, V2[k].walk, G)
  BY <1>2, <1>3 DEF Walkable
<1> QED
  BY <1>4

-----------------------------------------------------------------------------
(* Stacks in a step.                                                       *)

Good(s) == s \in Seq(Frame) /\ Shape(s) /\ DrainedOnce(s)

\* The innermost frame of a stack, and the rest.
LEMMA StackTop ==
  ASSUME NEW s, Good(s), s # <<>>
  PROVE  LET f == Head(s)
             t == Tail(s)
         IN  /\ f \in Frame /\ s = <<f>> \o t /\ Good(t) /\ NoConnect(t)
             /\ View(s) = Both(Held(f), View(t))
             /\ f.k # "connect" => NoConnect(s)
             /\ f.k = "drain" => Once(f.cs) /\ Held(f).drain \cap View(t).drain = {}
             /\ f.k \in {"tick", "connect"} => View(t).walk = {}
             /\ f.k = "tick" => t = <<>> \/ \E i \in 1..Len(t) : i = Len(t) /\ t[i].k = "tick"
             /\ f.k # "tick" => (Dispatching(s) <=> Dispatching(t))
             /\ f.k = "tick" => (Dispatching(s) <=> f.at = "dispatch")
<1> DEFINE f == Head(s)
           t == Tail(s)
<1>1. f \in Frame /\ t \in Seq(Frame) /\ s = <<f>> \o t
  BY Popped DEF Good
<1> HIDE DEF f, t
<1>2. Shape(<<f>> \o t) /\ DrainedOnce(<<f>> \o t)
  BY <1>1 DEF Good
<1>3. /\ Shape(t) /\ NoConnect(t)
      /\ f.k \in {"tick", "connect"} => View(t).walk = {}
      /\ f.k = "tick" => t = <<>> \/ \E i \in 1..Len(t) : i = Len(t) /\ t[i].k = "tick"
  BY <1>1, <1>2, ShapePop
<1>4. /\ DrainedOnce(t)
      /\ f.k = "drain" => Once(f.cs) /\ Held(f).drain \cap View(t).drain = {}
  BY <1>1, <1>2, OncePush
<1>5. View(s) = Both(Held(f), View(t))
  BY <1>1, ViewPush
<1>6. /\ f.k # "tick" => (Dispatching(s) <=> Dispatching(t))
      /\ f.k = "tick" => (Dispatching(s) <=> f.at = "dispatch")
  BY <1>1, DispatchingPush
<1>7. f.k # "connect" => NoConnect(s)
  <2>1. \A i \in 1..Len(<<f>> \o t) : i = 1 \/ (i - 1 \in 1..Len(t) /\ (<<f>> \o t)[i] = t[i - 1])
    BY <1>1, Pushed
  <2>2. (<<f>> \o t)[1] = f
    BY <1>1, Pushed
  <2>3. \A i \in 1..Len(s) : s[i] = f \/ \E j \in 1..Len(t) : s[i] = t[j]
    BY <1>1, <2>1, <2>2
  <2> QED
    BY <1>3, <2>3 DEF NoConnect
<1> QED
  BY <1>1, <1>3, <1>4, <1>5, <1>6, <1>7, Zenon DEF f, t, Good

Apart(S, T) == S \cap T = {}

\* A frame put on a stack.
LEMMA StackPush ==
  ASSUME NEW s, Good(s), NoConnect(s), NEW f \in Frame,
         f.k = "tick" => s = <<>> \/ (View(s).walk = {} /\ \E i \in 1..Len(s) : s[i].k = "tick"),
         f.k = "connect" => View(s).walk = {},
         f.k = "drain" => Once(f.cs) /\ Apart(Held(f).drain, View(s).drain)
  PROVE  /\ Good(<<f>> \o s)
         /\ f.k # "connect" => NoConnect(<<f>> \o s)
         /\ View(<<f>> \o s) = Both(Held(f), View(s))
         /\ f.k # "tick" => (Dispatching(<<f>> \o s) <=> Dispatching(s))
         /\ f.k = "tick" => (Dispatching(<<f>> \o s) <=> f.at = "dispatch")
<1>0. s \in Seq(Frame) /\ Shape(s) /\ DrainedOnce(s)
  BY DEF Good
<1>1. Shape(<<f>> \o s) /\ (f.k # "connect" => NoConnect(<<f>> \o s))
  BY <1>0, ShapePush
<1>2. DrainedOnce(<<f>> \o s)
  BY <1>0, OncePush DEF Apart
<1>3. <<f>> \o s \in Seq(Frame)
  BY <1>0, Pushed
<1>4. View(<<f>> \o s) = Both(Held(f), View(s))
  BY <1>0, ViewPush
<1>5. /\ f.k # "tick" => (Dispatching(<<f>> \o s) <=> Dispatching(s))
      /\ f.k = "tick" => (Dispatching(<<f>> \o s) <=> f.at = "dispatch")
  BY <1>0, DispatchingPush
<1> QED
  BY <1>1, <1>2, <1>3, <1>4, <1>5 DEF Good

\* User code is told the end of c, and what follows that is put under it.
Tells(v, w, c, kk) ==
  /\ w.drain = v.drain /\ w.borrow = v.borrow /\ w.hit = v.hit /\ w.walk = v.walk
  /\ w.closing = v.closing \cup {c}
  /\ w.free = IF kk = "free" THEN v.free \cup {c} ELSE v.free

\* What each kind of frame adds to what a stack holds on to.
LEMMA HeldByClose ==
  ASSUME NEW c \in Conns, NEW k \in {"free", "detach"}, NEW v \in Views,
         NEW f, f = [k |-> k, c |-> c]
  PROVE  LET w == Both(Held(f), v)
         IN  /\ f \in Frame /\ w \in Views /\ f.k = k
             /\ Tells(v, w, c, k)
<1>1. f \in CloseFrame /\ f.k = k /\ f.c = c
  BY DEF CloseFrame
<1>2. /\ Held(f).drain = {} /\ Held(f).borrow = {} /\ Held(f).hit = {} /\ Held(f).walk = {}
      /\ Held(f).closing = {c} /\ Held(f).free = IF k = "free" THEN {c} ELSE {}
  BY <1>1 DEF Held
<1>3. f \in Frame
  BY <1>1 DEF Frame
<1> QED
  BY <1>1, <1>2, <1>3 DEF Both, Views, Tells

\* The frame of a close_all holds on to the next connect only.
LEMMA HeldByWalk ==
  ASSUME NEW c \in Ptr, NEW v \in Views
  PROVE  LET f == [k |-> "all", c |-> c]
             w == Both(Held(f), v)
         IN  /\ f \in Frame /\ w \in Views /\ f.k = "all"
             /\ w.drain = v.drain /\ w.borrow = v.borrow /\ w.hit = v.hit
             /\ w.closing = v.closing /\ w.walk = v.walk \cup {c} /\ w.free = v.free
<1> DEFINE f == [k |-> "all", c |-> c]
<1>1. f \in AllFrame /\ f.k = "all" /\ f.c = c
  BY DEF AllFrame
<1>2. /\ Held(f).drain = {} /\ Held(f).borrow = {} /\ Held(f).hit = {} /\ Held(f).walk = {c}
      /\ Held(f).closing = {} /\ Held(f).free = {}
  BY <1>1 DEF Held
<1> HIDE DEF f
<1>3. f \in Frame
  BY <1>1 DEF Frame
<1> QED
  BY <1>1, <1>2, <1>3 DEF Both, Views, f

\* The frame of a connect call holds on to its request only.
LEMMA HeldByConnect ==
  ASSUME NEW r \in Reqs, NEW h \in BOOLEAN, NEW v \in Views
  PROVE  LET f == [k |-> "connect", r |-> r, hit |-> h]
             w == Both(Held(f), v)
         IN  /\ f \in Frame /\ w \in Views /\ f.k = "connect"
             /\ w.drain = v.drain /\ w.borrow = v.borrow \cup {r}
             /\ w.hit = v.hit \cup {q \in {r} : h}
             /\ w.closing = v.closing /\ w.walk = v.walk /\ w.free = v.free
<1> DEFINE f == [k |-> "connect", r |-> r, hit |-> h]
<1>1. f \in ConnectFrame /\ f.k = "connect" /\ f.r = r /\ f.hit = h
  BY DEF ConnectFrame
<1>2. /\ Held(f).drain = {} /\ Held(f).borrow = {r} /\ Held(f).hit = {q \in {r} : h}
      /\ Held(f).walk = {} /\ Held(f).closing = {} /\ Held(f).free = {}
  BY <1>1 DEF Held
<1> HIDE DEF f
<1>3. f \in Frame
  BY <1>1 DEF Frame
<1> QED
  BY <1>1, <1>2, <1>3 DEF Both, Views, f

\* A list of connects put on a stack, to be drained.
PushesDrain(v, w, S) ==
  /\ w.drain = v.drain \cup S /\ w.borrow = v.borrow /\ w.hit = v.hit
  /\ w.closing = v.closing /\ w.free = v.free /\ w.walk = v.walk

\* The frame of a drain holds on to the connects in it only.
LEMMA HeldByDrain ==
  ASSUME NEW cs \in Seq(Conns), cs # <<>>, NEW v \in Views,
         NEW f, f = [k |-> "drain", cs |-> cs]
  PROVE  LET w == Both(Held(f), v)
         IN  /\ f \in Frame /\ w \in Views /\ f.k = "drain" /\ f.cs = cs
             /\ Is(Held(f).drain, {c \in Conns : In(c, cs)})
             /\ PushesDrain(v, w, Held(f).drain)
<1>1. f \in DrainFrame /\ f.k = "drain" /\ f.cs = cs
  BY DEF DrainFrame
<1>2. /\ Held(f).drain = {c \in Conns : In(c, cs)} /\ Held(f).borrow = {} /\ Held(f).hit = {}
      /\ Held(f).walk = {} /\ Held(f).closing = {} /\ Held(f).free = {}
  BY <1>1 DEF Held
<1>3. f \in Frame
  BY <1>1 DEF Frame
<1> QED
  BY <1>1, <1>2, <1>3 DEF Both, Views, PushesDrain, Is

-----------------------------------------------------------------------------
(* What keeps the wakeups and the share of num_polls.                      *)

\* A connect in a queue holds a request that is live.
LEMMA QueuedHolds ==
  ASSUME NEW conn, NEW req, NEW cache, NEW Q, NEW V, Core(conn, req, cache, Q, V),
         NEW l \in Loops, NEW c \in Conns, c \in Q[l] \/ c \in V[l].drain
  PROVE  /\ conn[c].life = "live" /\ conn[c].pending /\ conn[c].loop = l
         /\ conn[c].req \in Reqs /\ req[conn[c].req].life = "live"
         /\ req[conn[c].req].result # -1 /\ req[conn[c].req].notify = {}
         /\ c \notin req[conn[c].req].moved /\ ~(c \in Q[l] /\ c \in V[l].drain)
<1>1. /\ conn[c].life = "live" /\ conn[c].pending /\ conn[c].loop = l
      /\ req[conn[c].req].result # -1
      /\ c \notin req[conn[c].req].moved /\ ~(c \in Q[l] /\ c \in V[l].drain)
  BY DEF Core, WaitInv, WaitOK
<1>2. conn[c].req \in Reqs
  BY <1>1 DEF Core, ConnInv, ConnOK
<1>3. RefOK(conn, req, cache, V, conn[c].req)
  BY <1>2 DEF Core, RefInv
<1>4. c \in HoldersOf(conn, conn[c].req)
  BY <1>1 DEF HoldersOf
<1> QED
  BY <1>1, <1>2, <1>3, <1>4 DEF RefOK

\* Nothing is queued, and what is queued keeps its wakeup.
LEMMA WakeSame ==
  ASSUME NEW conn, NEW req, NEW cache, NEW Q, NEW V, NEW wake,
         NEW conn2, NEW req2, NEW cache2, NEW Q2, NEW V2,
         Core(conn, req, cache, Q, V), Core(conn2, req2, cache2, Q2, V2),
         \A l \in Loops : Q2[l] \subseteq Q[l],
         \A c \in Conns : conn[c].life = "live" /\ conn2[c].life = "live" /\ conn2[c].pending =>
           conn2[c].own = conn[c].own /\ conn2[c].req = conn[c].req,
         \A r \in Reqs : req[r].life = "live" /\ req2[r].life = "live" => req2[r].wakes = req[r].wakes,
         NEW l \in Loops, WakeOK(conn, req, Q, wake, l)
  PROVE  WakeOK(conn2, req2, Q2, wake, l)
<1> SUFFICES ASSUME NEW c \in Conns, c \in Q2[l], ~conn2[c].own
             PROVE  wake[l] \/ req2[conn2[c].req].wakes = l
  BY DEF WakeOK
<1>1. c \in Q[l]
  OBVIOUS
<1>2. conn[c].life = "live" /\ conn[c].req \in Reqs /\ req[conn[c].req].life = "live"
  BY <1>1, QueuedHolds
<1>3. conn2[c].life = "live" /\ conn2[c].pending /\ req2[conn2[c].req].life = "live"
  BY QueuedHolds
<1>4. conn2[c].req = conn[c].req /\ ~conn[c].own
  BY <1>2, <1>3
<1>5. req2[conn2[c].req].wakes = req[conn[c].req].wakes
  BY <1>2, <1>3, <1>4
<1> QED
  BY <1>1, <1>4, <1>5 DEF WakeOK

\* No connect on the list of a request becomes one its own loop queued.
LEMMA OwnSame ==
  ASSUME NEW conn, NEW req, NEW conn2, NEW req2 \in ReqMap, OwnOK(conn, req),
         \A r \in Reqs : req2[r].notify \cup req2[r].moved \subseteq req[r].notify \cup req[r].moved,
         \A c \in Conns : conn2[c].own => conn[c].own
  PROVE  OwnOK(conn2, req2)
<1> SUFFICES ASSUME NEW r \in Reqs, NEW c \in req2[r].notify \cup req2[r].moved PROVE ~conn2[c].own
  BY DEF OwnOK
<1>1. c \in Conns
  BY DEF ReqMap, ReqRecord
<1>2. ~conn[c].own
  BY DEF OwnOK
<1> QED
  BY <1>1, <1>2

Waits(s) == s.life = "live" /\ s.pending /\ ~s.closed

\* No connect begins or stops to wait.
LEMMA KeepSame ==
  ASSUME NEW conn, NEW conn2, NEW l,
         \A c \in Conns : (Waits(conn[c]) /\ conn[c].loop = l) <=> (Waits(conn2[c]) /\ conn2[c].loop = l)
  PROVE  Kept(conn2, l) = Kept(conn, l)
  BY DEF Kept, Waits

\* One connect more, or less, that waits.
OneWaits(conn, keep, conn2, keep2, l, c) ==
  /\ \A d \in Conns \ {c} : Waits(conn2[d]) = Waits(conn[d]) /\ conn2[d].loop = conn[d].loop
  /\ \/ /\ ~Waits(conn[c]) /\ Waits(conn2[c]) /\ conn2[c].loop = l
        /\ keep2 = [keep EXCEPT ![l] = keep[l] + 1]
     \/ /\ Waits(conn[c]) /\ ~Waits(conn2[c]) /\ conn[c].loop = l
        /\ keep2 = [keep EXCEPT ![l] = keep[l] - 1]

\* One connect begins or stops to wait, and the count of its loop follows.
LEMMA KeepOne ==
  ASSUME NEW conn, NEW conn2, NEW keep \in [Loops -> Int], NEW l \in Loops, NEW c \in Conns,
         KeepOK(conn, keep), NEW keep2, OneWaits(conn, keep, conn2, keep2, l, c)
  PROVE  KeepOK(conn2, keep2)
<1> USE DEF OneWaits, KeepOK
<1>0. IsFiniteSet(Kept(conn, l))
  BY Bounds, FS_Subset DEF Kept
<1>1. \A d \in Conns, k \in Loops : d \in Kept(conn, k) <=> Waits(conn[d]) /\ conn[d].loop = k
  BY DEF Kept, Waits
<1>2. \A d \in Conns, k \in Loops : d \in Kept(conn2, k) <=> Waits(conn2[d]) /\ conn2[d].loop = k
  BY DEF Kept, Waits
<1>3. \A k \in Loops : Kept(conn, k) \subseteq Conns /\ Kept(conn2, k) \subseteq Conns
  BY DEF Kept
<1>4. \A k \in Loops \ {l} : Kept(conn2, k) = Kept(conn, k)
  <2> SUFFICES ASSUME NEW k \in Loops, k # l, NEW d \in Conns
               PROVE  d \in Kept(conn2, k) <=> d \in Kept(conn, k)
    BY <1>3
  <2>1. CASE d = c
    BY <1>1, <1>2, <2>1
  <2>2. CASE d # c
    BY <1>1, <1>2, <2>2
  <2> QED
    BY <2>1, <2>2
<1>5. \A d \in Conns \ {c} : d \in Kept(conn2, l) <=> d \in Kept(conn, l)
  BY <1>1, <1>2
<1>6. CASE /\ ~Waits(conn[c]) /\ Waits(conn2[c]) /\ conn2[c].loop = l
           /\ keep2 = [keep EXCEPT ![l] = keep[l] + 1]
  <2>1. Kept(conn2, l) = Kept(conn, l) \cup {c} /\ c \notin Kept(conn, l)
    BY <1>1, <1>2, <1>3, <1>5, <1>6
  <2>2. Cardinality(Kept(conn2, l)) = Cardinality(Kept(conn, l)) + 1
    BY <1>0, <2>1, OneMore
  <2> QED
    BY <1>4, <1>6, <2>2
<1>7. CASE /\ Waits(conn[c]) /\ ~Waits(conn2[c]) /\ conn[c].loop = l
           /\ keep2 = [keep EXCEPT ![l] = keep[l] - 1]
  <2>1. Kept(conn2, l) = Kept(conn, l) \ {c} /\ c \in Kept(conn, l)
    BY <1>1, <1>2, <1>3, <1>5, <1>7
  <2>2. Cardinality(Kept(conn2, l)) = Cardinality(Kept(conn, l)) - 1
    BY <1>0, <2>1, OneLess
  <2> QED
    BY <1>4, <1>7, <2>2
<1> QED
  BY <1>6, <1>7

-----------------------------------------------------------------------------
(* The cache.                                                              *)

\* A freed request is a request.
LEMMA NoRequestType ==
  /\ NoRequest \in ReqRecord /\ NoRequest.life = "freed" /\ NoRequest.notify = {}
  /\ NoRequest.moved = {}
<1>1. NoReq \in ReqRecord /\ NoReq.notify = {} /\ NoReq.moved = {}
  BY DEF NoReq, ReqRecord
<1> QED
  BY <1>1, Req_life DEF NoRequest

\* Request r is freed, if nobody counts it, or not.
Drops(q, cache, req2, cache2, r) ==
  \/ req2 = q /\ cache2 = cache
  \/ q[r].refs = 0 /\ req2 = [q EXCEPT ![r] = NoRequest] /\ cache2 = cache \ {r}

\* One reference to r less, with the connects in N off its list, and r freed if
\* it was the last.
Loosens(req, cache, req2, cache2, r, N) ==
  \E q \in ReqMap :
    /\ Only(req, q, r) /\ ReqBut(req[r], q[r], {"notify", "refs", "valid"})
    /\ q[r].notify = req[r].notify \ N /\ q[r].refs = req[r].refs - 1
    /\ Drops(q, cache, req2, cache2, r)

\* What freeing a request does.
LEMMA DeinitEffect ==
  ASSUME NEW m \in Mem, NEW r \in Reqs, NEW k, k = Deinit(m, r)
  PROVE  /\ k \in Mem /\ SameBut(m, k, {"req", "cache"})
         /\ k.req = [m.req EXCEPT ![r] = NoRequest] /\ k.cache = m.cache \ {r}
<1>1. IsMem(m) /\ m.req \in ReqMap /\ m.cache \in SUBSET Reqs
  BY MemParts
<1>2. /\ SameBut(m, k, {"req", "cache"})
      /\ k.req = [m.req EXCEPT ![r] = NoRequest] /\ k.cache = m.cache \ {r}
  <2> HIDE DEF NoRequest
  <2>1. k = [m EXCEPT !.req[r] = NoRequest, !.cache = @ \ {r}]
    BY DEF Deinit, NoRequest
  <2> QED
    BY <1>1, <2>1 DEF IsMem, SameBut
<1>3. k.req \in ReqMap /\ k.cache \in SUBSET Reqs
  BY <1>1, <1>2, NoRequestType DEF ReqMap
<1>4. k \in Mem
  BY <1>2, <1>3, SameMem DEF SameBut
<1> QED
  BY <1>2, <1>4

\* What freeaddrinfo does: one holder less, and the request goes with the last.
LEMMA FreeEffect ==
  ASSUME NEW m \in Mem, NEW r \in Reqs, NEW err \in BOOLEAN, NEW k, k = freeaddrinfo(m, r, err)
  PROVE  /\ k \in Mem /\ SameBut(m, k, {"req", "cache"})
         /\ Loosens(m.req, m.cache, k.req, k.cache, r, {})
<1>1. PICK v \in BOOLEAN : v = (m.req[r].valid /\ ~err)
  BY MemParts DEF ReqMap, ReqRecord
<1>n. PICK n : n = [m EXCEPT !.req[r].valid = m.req[r].valid /\ ~err, !.req[r].refs = @ - 1]
  OBVIOUS
<1>k. k = n \/ (n.req[r].refs = 0 /\ k = Deinit(n, r))
  BY <1>n DEF freeaddrinfo
<1>v. n = [m EXCEPT !.req[r].valid = v, !.req[r].refs = @ - 1]
  BY <1>1, <1>n
<1>2. /\ n \in Mem /\ SameBut(m, n, {"req"}) /\ Only(m.req, n.req, r)
      /\ ReqBut(m.req[r], n.req[r], {"valid", "refs"})
      /\ n.req[r].refs = m.req[r].refs - 1
  BY <1>v, SetValid
<1>3. /\ n.req \in ReqMap /\ n.req[r].notify = m.req[r].notify \ {}
      /\ ReqBut(m.req[r], n.req[r], {"notify", "refs", "valid"})
  BY <1>2, MemParts DEF ReqBut
<1>4. CASE k = n
  BY <1>2, <1>3, <1>4 DEF SameBut, Loosens, Drops
<1>5. CASE n.req[r].refs = 0 /\ k = Deinit(n, r)
  <2>1. /\ k \in Mem /\ SameBut(n, k, {"req", "cache"})
        /\ k.req = [n.req EXCEPT ![r] = NoRequest] /\ k.cache = n.cache \ {r}
    BY <1>2, <1>5, DeinitEffect
  <2>2. n.cache = m.cache /\ SameBut(m, k, {"req", "cache"})
    BY <1>2, <2>1 DEF SameBut
  <2>3. Loosens(m.req, m.cache, k.req, k.cache, r, {})
    BY <1>2, <1>3, <1>5, <2>1, <2>2 DEF Loosens, Drops
  <2> QED
    BY <2>1, <2>2, <2>3
<1> QED
  BY <1>k, <1>4, <1>5

\* The invariant after a reference was given back.
LEMMA CoreLoosen ==
  ASSUME NEW conn \in ConnMap, NEW q \in ReqMap, NEW cache \in SUBSET Reqs,
         NEW Q \in QueueMap, NEW V \in ViewMap, Core(conn, q, cache, Q, V),
         NEW r \in Reqs, q[r].life = "live", NEW req2, NEW cache2,
         Drops(q, cache, req2, cache2, r)
  PROVE  Core(conn, req2, cache2, Q, V)
<1>1. CASE req2 = q /\ cache2 = cache
  BY <1>1
<1>2. CASE q[r].refs = 0 /\ req2 = [q EXCEPT ![r] = NoRequest] /\ cache2 = cache \ {r}
  <2>1. req2 \in ReqMap
    BY <1>2, NoRequestType DEF ReqMap
  <2>2. req2[r] = NoRequest /\ \A x \in Reqs \ {r} : SameReq(q[x], req2[x])
    BY <1>2 DEF SameReq, ReqMap
  <2>3. {r} \in SUBSET Reqs
    OBVIOUS
  <2> HIDE DEF NoRequest
  <2>4. PICK S \in SUBSET Reqs : S = {r}
    BY <2>3
  <2>5. Empties(q, req2, S) /\ Is(cache2, cache \ S)
    BY <1>2, <2>2, <2>4 DEF Empties, Is
  <2> QED
    BY <2>1, <2>5, CoreFree
<1> QED
  BY <1>1, <1>2 DEF Drops

-----------------------------------------------------------------------------
(* The invariant in a step of a loop: memory m becomes k, and stack st[l]   *)
(* becomes s.                                                               *)

\* The connects in the queues are connects.
LEMMA QueueType ==
  ASSUME NEW ready
  PROVE  /\ QueueOf(ready) \in QueueMap
         /\ \A l \in Loops : QueueOf(ready)[l] = {c \in Conns : In(c, ready[l])}
  BY DEF QueueOf, QueueMap

\* Only what loop l's stack holds on to changes.
Turns(V, V2, l, w) == V2 \in ViewMap /\ V2[l] = w /\ \A x \in Loops \ {l} : V2[x] = V[x]

\* A step changes what its own loop's stack holds on to, no other's.
LEMMA ViewAt ==
  ASSUME NEW st \in [Loops -> Seq(Frame)], NEW l \in Loops, NEW s,
         NEW st2, st2 = [st EXCEPT ![l] = s]
  PROVE  Turns(ViewOf(st), ViewOf(st2), l, View(s))
<1>1. \A x : View(x) \in Views
  BY ViewType
<1> QED
  BY <1>1 DEF ViewOf, ViewMap, Turns

\* The invariant, part by part.
LEMMA SoundParts ==
  ASSUME NEW m, NEW st, Sound(m, st)
  PROVE  /\ m \in Mem /\ st \in [Loops -> Seq(Frame)]
         /\ m.conn \in ConnMap /\ m.req \in ReqMap /\ m.cache \in SUBSET Reqs
         /\ m.ready \in [Loops -> Seq(Conns)] /\ m.head \in [Loops -> Ptr]
         /\ m.wake \in [Loops -> BOOLEAN] /\ m.keep \in [Loops -> Int] /\ IsMem(m)
         /\ \A l \in Loops : Good(st[l]) /\ Once(m.ready[l])
         /\ QueueOf(m.ready) \in QueueMap /\ ViewOf(st) \in ViewMap
         /\ \A l \in Loops : ViewOf(st)[l] = View(st[l])
         /\ Core(m.conn, m.req, m.cache, QueueOf(m.ready), ViewOf(st))
         /\ GroupsOK(m.conn, m.head, ViewOf(st)) /\ KeepOK(m.conn, m.keep)
         /\ \A l \in Loops : ~Dispatching(st[l]) =>
              WakeOK(m.conn, m.req, QueueOf(m.ready), m.wake, l)
         /\ OwnOK(m.conn, m.req)
<1>1. m \in Mem /\ st \in [Loops -> Seq(Frame)]
  BY DEF Sound, Typed
<1>2. /\ m.conn \in ConnMap /\ m.req \in ReqMap /\ m.cache \in SUBSET Reqs
      /\ m.ready \in [Loops -> Seq(Conns)] /\ m.head \in [Loops -> Ptr]
      /\ m.wake \in [Loops -> BOOLEAN] /\ m.keep \in [Loops -> Int] /\ IsMem(m)
  BY <1>1, MemParts
<1>3. \A l \in Loops : Good(st[l]) /\ Once(m.ready[l])
  BY <1>1 DEF Sound, StacksOK, Good
<1>4. QueueOf(m.ready) \in QueueMap
  BY QueueType
<1>5. ViewOf(st) \in ViewMap /\ \A l \in Loops : ViewOf(st)[l] = View(st[l])
  BY <1>1, ViewType DEF ViewOf, ViewMap
<1> QED
  BY <1>1, <1>2, <1>3, <1>4, <1>5 DEF Sound, CoreOK, WakesOK

\* A step of a loop keeps the invariant if it keeps each of its parts.
LEMMA SoundStep ==
  ASSUME NEW m, NEW st, Sound(m, st), NEW l \in Loops,
         NEW k \in Mem, NEW s, Good(s), NEW st2, st2 = [st EXCEPT ![l] = s],
         \A x \in Loops : Once(k.ready[x]),
         Core(k.conn, k.req, k.cache, QueueOf(k.ready), ViewOf(st2)),
         GroupsOK(k.conn, k.head, ViewOf(st2)), KeepOK(k.conn, k.keep),
         \A x \in Loops \ {l} : ~Dispatching(st[x]) =>
            WakeOK(k.conn, k.req, QueueOf(k.ready), k.wake, x),
         ~Dispatching(s) => WakeOK(k.conn, k.req, QueueOf(k.ready), k.wake, l),
         OwnOK(k.conn, k.req)
  PROVE  Sound(k, st2)
<1>1. st \in [Loops -> Seq(Frame)] /\ \A x \in Loops : Good(st[x])
  BY SoundParts
<1>2. st2 \in [Loops -> Seq(Frame)] /\ st2[l] = s /\ \A x \in Loops \ {l} : st2[x] = st[x]
  BY <1>1 DEF Good
<1>3. Typed(k, st2)
  BY <1>2 DEF Typed
<1>4. StacksOK(k, st2)
  BY <1>1, <1>2 DEF StacksOK, Good
<1>5. WakesOK(k, st2)
  BY <1>2 DEF WakesOK
<1> QED
  BY <1>3, <1>4, <1>5 DEF Sound, CoreOK

\* The frames by their kinds.
LEMMA FrameKinds ==
  ASSUME NEW f \in Frame
  PROVE  /\ f.k \in {"user", "free", "detach", "all", "connect", "drain", "tick"}
         /\ f.k \in {"free", "detach"} => f.c \in Conns /\ f = [k |-> f.k, c |-> f.c]
         /\ f.k = "all" => f.c \in Ptr /\ f = [k |-> "all", c |-> f.c]
         /\ f.k = "connect" => /\ f.r \in Reqs /\ f.hit \in BOOLEAN
                               /\ f = [k |-> "connect", r |-> f.r, hit |-> f.hit]
         /\ f.k = "drain" => /\ f.cs \in Seq(Conns) /\ f.cs # <<>>
                             /\ f = [k |-> "drain", cs |-> f.cs]
         /\ f.k = "tick" => f.at \in {"pre", "dispatch", "post"} /\ f.batch \in SUBSET (Conns \X Addrs)
<1>1. CASE f \in UserFrame
  BY <1>1 DEF UserFrame
<1>2. CASE f \in CloseFrame
  BY <1>2 DEF CloseFrame
<1>3. CASE f \in AllFrame
  BY <1>3 DEF AllFrame
<1>4. CASE f \in ConnectFrame
  BY <1>4 DEF ConnectFrame
<1>5. CASE f \in DrainFrame
  BY <1>5 DEF DrainFrame
<1>6. CASE f \in TickFrame
  BY <1>6 DEF TickFrame
<1> QED
  BY <1>1, <1>2, <1>3, <1>4, <1>5, <1>6 DEF Frame

\* The frames of user code and of ticks.
LEMMA OtherFrames ==
  /\ User \in Frame /\ User.k = "user"
  /\ \A at \in {"pre", "dispatch", "post"}, B \in SUBSET (Conns \X Addrs) :
       LET f == [k |-> "tick", at |-> at, batch |-> B]
       IN  f \in Frame /\ f.k = "tick" /\ f.at = at /\ f.batch = B
  BY DEF User, Frame, UserFrame, TickFrame

\* User code is called on a stack.
LEMMA PushUser ==
  ASSUME NEW b, Good(b), NoConnect(b), NEW s, s = <<User>> \o b
  PROVE  Good(s) /\ View(s) = View(b) /\ (Dispatching(s) <=> Dispatching(b))
<1>1. User \in Frame /\ User.k = "user"
  BY OtherFrames
<1>2. Good(s) /\ View(s) = Both(Held(User), View(b)) /\ (Dispatching(s) <=> Dispatching(b))
  BY <1>1, StackPush
<1>3. Both(Held(User), View(b)) = View(b)
  BY <1>1, HeldByNone, ViewType
<1> QED
  BY <1>2, <1>3

\* The callback and what follows it are put on a stack.
LEMMA PushTell ==
  ASSUME NEW b, Good(b), NoConnect(b), NEW c \in Conns, NEW kk \in {"free", "detach"},
         NEW s, s = <<User, [k |-> kk, c |-> c]>> \o b
  PROVE  /\ Good(s) /\ (Dispatching(s) <=> Dispatching(b))
         /\ Tells(View(b), View(s), c, kk)
<1> DEFINE f == [k |-> kk, c |-> c]
           t == <<f>> \o b
<1>0. View(b) \in Views
  BY ViewType
<1>1. f \in Frame /\ f.k = kk /\ Tells(View(b), Both(Held(f), View(b)), c, kk)
  BY <1>0, HeldByClose
<1>2. User \in Frame
  BY OtherFrames
<1>3. s = <<User>> \o t
  <2>1. PICK g \in Frame, u \in Frame, z \in Seq(Frame) : g = f /\ u = User /\ z = b
    BY <1>1, <1>2 DEF Good
  <2> HIDE DEF f
  <2>2. <<u, g>> \o z = <<u>> \o (<<g>> \o z)
    BY PushedFew
  <2> QED
    BY <2>1, <2>2 DEF f
<1> HIDE DEF f
<1>4. /\ Good(t) /\ NoConnect(t) /\ View(t) = Both(Held(f), View(b))
      /\ Dispatching(t) <=> Dispatching(b)
  BY <1>1, StackPush
<1> HIDE DEF t
<1>5. Good(s) /\ View(s) = View(t) /\ (Dispatching(s) <=> Dispatching(t))
  BY <1>3, <1>4, PushUser
<1> QED
  BY <1>1, <1>4, <1>5 DEF Tells

-----------------------------------------------------------------------------
(* What the operators do to memory.                                        *)

\* A request is given up, and the end told.
LEMMA DropEffect ==
  ASSUME NEW n \in Mem, NEW c \in Conns, NEW r \in Reqs, NEW a, NEW d, NEW k,
         a \in Mem, SameBut(n, a, {"req", "cache"}),
         Loosens(n.req, n.cache, a.req, a.cache, r, {}),
         SameBut(a, d, {"conn"}), Only(a.conn, d.conn, c),
         ConnBut(a.conn[c], d.conn[c], {"req"}), d.conn[c].req = Null, d \in Mem,
         SameBut(d, k, {"conn"}), Only(d.conn, k.conn, c),
         ConnBut(d.conn[c], k.conn[c], {"told"}), k.conn[c].told = d.conn[c].told + 1, k \in Mem
  PROVE  /\ SameBut(n, k, {"conn", "req", "cache"}) /\ Only(n.conn, k.conn, c)
         /\ ConnBut(n.conn[c], k.conn[c], {"req", "told"})
         /\ k.conn[c].req = Null /\ k.conn[c].told = n.conn[c].told + 1
         /\ Loosens(n.req, n.cache, k.req, k.cache, r, {})
<1>5. SameBut(n, k, {"conn", "req", "cache"}) /\ a.conn = n.conn /\ k.req = a.req /\ k.cache = a.cache
  BY DEF SameBut
<1>6. DOMAIN n.conn = Conns /\ DOMAIN d.conn = Conns
  BY MemParts DEF ConnMap
<1>7. Only(n.conn, k.conn, c)
  BY <1>5, <1>6 DEF Only
<1>8. ConnBut(n.conn[c], k.conn[c], {"req", "told"}) /\ k.conn[c].req = Null
  BY <1>5 DEF ConnBut
<1>9. k.conn[c].told = n.conn[c].told + 1
  BY <1>5 DEF ConnBut
<1> QED
  BY <1>5, <1>7, <1>8, <1>9

\* A connect no longer waits on its request.
LEMMA CancelEffect ==
  ASSUME NEW b \in Mem, NEW c \in Conns, NEW r \in Reqs, NEW n,
         n = [b EXCEPT !.req[r].notify = @ \ {c}, !.conn[c].pending = FALSE]
  PROVE  /\ n \in Mem /\ SameBut(b, n, {"conn", "req"})
         /\ Only(b.req, n.req, r) /\ ReqBut(b.req[r], n.req[r], {"notify"})
         /\ Is(n.req[r].notify, b.req[r].notify \ {c})
         /\ Only(b.conn, n.conn, c) /\ ConnBut(b.conn[c], n.conn[c], {"pending"})
         /\ ~n.conn[c].pending
<1>1. PICK A : A = b.req[r].notify \ {c}
  OBVIOUS
<1>2. PICK e : SetsNotify(b, e, r, A)
  BY DEF SetsNotify
<1>3. n = [e EXCEPT !.conn[c].pending = FALSE]
  BY <1>1, <1>2 DEF SetsNotify
<1>4. A \in SUBSET Conns
  BY <1>1, MemParts DEF ReqMap, ReqRecord
<1>5. /\ e \in Mem /\ SameBut(b, e, {"req"}) /\ Only(b.req, e.req, r)
      /\ ReqBut(b.req[r], e.req[r], {"notify"}) /\ Is(e.req[r].notify, A)
  BY <1>2, <1>4, SetNotify
<1>6. /\ n \in Mem /\ SameBut(e, n, {"conn"}) /\ Only(e.conn, n.conn, c)
      /\ ConnBut(e.conn[c], n.conn[c], {"pending"}) /\ ~n.conn[c].pending
  BY <1>3, <1>5, SetPending
<1>7. SameBut(b, n, {"conn", "req"}) /\ n.req = e.req /\ e.conn = b.conn
  BY <1>5, <1>6 DEF SameBut
<1>8. Is(n.req[r].notify, b.req[r].notify \ {c})
  BY <1>1, <1>5, <1>7
<1> QED
  BY <1>5, <1>6, <1>7, <1>8

\* A connect that is closed and told its end.
Closes(m, k, c) ==
  /\ k \in Mem /\ SameBut(m, k, {"conn", "req", "cache", "keep"}) /\ Only(m.conn, k.conn, c)
  /\ ConnBut(m.conn[c], k.conn[c], {"closed", "att", "pending", "req", "told"})
  /\ k.conn[c].closed /\ k.conn[c].att = NoAttempts /\ k.conn[c].told = m.conn[c].told + 1

\* ... and keeps its request for the result to come, or gives it up.
ClosesLate(m, k, c) == /\ k.conn[c].pending = m.conn[c].pending /\ k.conn[c].req = m.conn[c].req
                       /\ k.req = m.req /\ k.cache = m.cache

ClosesNow(m, k, c) ==
  /\ ~k.conn[c].pending /\ k.conn[c].req = Null
  /\ \/ m.conn[c].req = Null /\ k.req = m.req /\ k.cache = m.cache
     \/ \E N \in {{}, {c}} : /\ m.conn[c].req \in Reqs
                             /\ m.conn[c].pending => N = {c}
                             /\ Loosens(m.req, m.cache, k.req, k.cache, m.conn[c].req, N)

\* us_connecting_socket_close of a connect that is not closed.
LEMMA CloseEffect ==
  ASSUME NEW m \in Mem, NEW c \in Conns, ~m.conn[c].closed, m.conn[c].loop \in Loops,
         m.conn[c].pending => m.conn[c].req \in Reqs,
         NEW o, o = us_connecting_socket_close(m, c)
  PROVE  LET s == m.conn[c]
             f == [k |-> IF s.pending /\ ~Cancellable(m, s.req, c) THEN "detach" ELSE "free",
                   c |-> c]
         IN  /\ Closes(m, o.m, c)
             /\ o.m.keep = IF s.pending THEN [m.keep EXCEPT ![s.loop] = m.keep[s.loop] - 1]
                           ELSE m.keep
             /\ o.f = <<User, f>>
             /\ f.k = "detach" => ClosesLate(m, o.m, c)
             /\ f.k = "free" => ClosesNow(m, o.m, c)
<1> DEFINE s == m.conn[c]
           r == s.req
           l == s.loop
           a == [m EXCEPT !.conn[c].closed = TRUE, !.conn[c].att = NoAttempts]
           b == [a EXCEPT !.keep[l] = @ - 1]
           can == Cancellable(m, r, c)
<1>0. s \in ConnRecord /\ DOMAIN m.conn = Conns /\ DOMAIN m.req = Reqs /\ r \in Reqs \cup {Null}
      /\ s.pending \in BOOLEAN
  <2>1. m.conn \in ConnMap /\ m.req \in ReqMap
    BY MemParts
  <2>2. m.conn[c] \in ConnRecord /\ DOMAIN m.conn = Conns /\ DOMAIN m.req = Reqs
    BY ONLY <2>1, c \in Conns DEF ConnMap, ReqMap
  <2>3. m.conn[c].req \in Reqs \cup {Null} /\ m.conn[c].pending \in BOOLEAN
    BY ONLY <2>2 DEF ConnRecord
  <2> QED
    BY <2>2, <2>3
<1>5. o = IF s.pending
          THEN IF can
               THEN TellError([freeaddrinfo([b EXCEPT !.req[r].notify = @ \ {c},
                                                      !.conn[c].pending = FALSE], r, FALSE)
                                 EXCEPT !.conn[c].req = Null], c, "free")
               ELSE TellError(b, c, "detach")
          ELSE TellError(IF r = Null THEN a
                         ELSE [freeaddrinfo(a, r, FALSE) EXCEPT !.conn[c].req = Null], c, "free")
  BY Zenon DEF us_connecting_socket_close
<1>1. a = [m EXCEPT !.conn[c].closed = TRUE, !.conn[c].att = NoAttempts]
  OBVIOUS
<1>2. b = [a EXCEPT !.keep[l] = @ - 1]
  OBVIOUS
<1> HIDE DEF a, b, r, can, l
<1>3. /\ a \in Mem /\ SameBut(m, a, {"conn"}) /\ Only(m.conn, a.conn, c)
      /\ ConnBut(s, a.conn[c], {"closed", "att"})
      /\ a.conn[c].closed /\ a.conn[c].att = NoAttempts
  BY <1>1, SetClosed
<1>4. b \in Mem /\ SameBut(a, b, {"keep"}) /\ b.keep = [a.keep EXCEPT ![l] = a.keep[l] - 1]
  <2>1. l \in Loops
    BY DEF l
  <2> QED
    BY <1>2, <1>3, <2>1, SetKeep, ZenonT(20)
<1>6. \A n, then : TellError(n, c, then) = [m |-> [n EXCEPT !.conn[c].told = @ + 1],
                                            f |-> <<User, [k |-> then, c |-> c]>>]
  BY DEF TellError, Outcome
<1> HIDE DEF s
<1>7. CASE s.pending /\ can
  <2>1. r \in Reqs
    BY <1>7 DEF s, r
  <2>2. PICK n : n = [b EXCEPT !.req[r].notify = @ \ {c}, !.conn[c].pending = FALSE]
    OBVIOUS
  <2>3. PICK g : g = freeaddrinfo(n, r, FALSE)
    OBVIOUS
  <2>5. PICK d : d = [g EXCEPT !.conn[c].req = Null]
    OBVIOUS
  <2>6. PICK k : k = [d EXCEPT !.conn[c].told = @ + 1]
    OBVIOUS
  <2>7. o = [m |-> k, f |-> <<User, [k |-> "free", c |-> c]>>]
    BY <1>5, <1>6, <1>7, <2>2, <2>3, <2>5, <2>6, Zenon
  <2>9. /\ n \in Mem /\ SameBut(b, n, {"conn", "req"})
        /\ Only(b.req, n.req, r) /\ ReqBut(b.req[r], n.req[r], {"notify"})
        /\ Is(n.req[r].notify, b.req[r].notify \ {c})
        /\ Only(b.conn, n.conn, c) /\ ConnBut(b.conn[c], n.conn[c], {"pending"})
        /\ ~n.conn[c].pending
    BY <1>4, <2>1, <2>2, CancelEffect, Zenon
  <2>10. /\ g \in Mem /\ SameBut(n, g, {"req", "cache"})
         /\ Loosens(n.req, n.cache, g.req, g.cache, r, {})
    BY <2>1, <2>3, <2>9, FreeEffect
  <2>11. /\ k \in Mem /\ SameBut(n, k, {"conn", "req", "cache"}) /\ Only(n.conn, k.conn, c)
         /\ ConnBut(n.conn[c], k.conn[c], {"req", "told"})
         /\ k.conn[c].req = Null /\ k.conn[c].told = n.conn[c].told + 1
         /\ Loosens(n.req, n.cache, k.req, k.cache, r, {})
    <3>2. /\ d \in Mem /\ SameBut(g, d, {"conn"}) /\ Only(g.conn, d.conn, c)
          /\ ConnBut(g.conn[c], d.conn[c], {"req"}) /\ d.conn[c].req = Null
      BY <2>5, <2>10, SetNoReq
    <3>3. /\ k \in Mem /\ SameBut(d, k, {"conn"}) /\ Only(d.conn, k.conn, c)
          /\ ConnBut(d.conn[c], k.conn[c], {"told"}) /\ k.conn[c].told = d.conn[c].told + 1
      BY <2>6, <3>2, SetTold
    <3> QED
      BY <2>9, <2>10, <2>1, <3>2, <3>3, DropEffect
  <2>12. /\ SameBut(m, k, {"conn", "req", "cache", "keep"})
         /\ k.keep = [m.keep EXCEPT ![l] = m.keep[l] - 1]
         /\ b.conn = a.conn /\ b.req = m.req /\ n.cache = m.cache
    BY <1>3, <1>4, <2>9, <2>11 DEF SameBut
  <2>13. DOMAIN a.conn = Conns /\ DOMAIN n.conn = Conns /\ DOMAIN n.req = Reqs
    BY <1>3, <2>9, MemParts DEF ConnMap, ReqMap
  <2>14. Only(m.conn, k.conn, c)
    BY <1>0, <1>3, <2>9, <2>11, <2>12, <2>13 DEF Only
  <2>15. /\ ConnBut(s, k.conn[c], {"closed", "att", "pending", "req", "told"})
         /\ k.conn[c].closed /\ k.conn[c].att = NoAttempts /\ ~k.conn[c].pending
         /\ n.conn[c].told = s.told
    BY <1>3, <2>9, <2>11, <2>12 DEF ConnBut
  <2>16. Loosens(m.req, m.cache, k.req, k.cache, r, {c})
    <3>1. PICK q \in ReqMap :
            /\ Only(n.req, q, r) /\ ReqBut(n.req[r], q[r], {"notify", "refs", "valid"})
            /\ q[r].notify = n.req[r].notify \ {} /\ q[r].refs = n.req[r].refs - 1
            /\ Drops(q, n.cache, k.req, k.cache, r)
      BY <2>11 DEF Loosens
    <3>2. Only(m.req, q, r)
      BY <1>0, <2>9, <2>12, <2>13, <3>1 DEF Only
    <3>3. /\ ReqBut(m.req[r], q[r], {"notify", "refs", "valid"})
          /\ q[r].notify = m.req[r].notify \ {c} /\ n.req[r].refs = m.req[r].refs
      BY <2>9, <2>12, <3>1 DEF ReqBut, Is
    <3> QED
      BY <2>12, <3>1, <3>2, <3>3 DEF Loosens
  <2>17. Closes(m, k, c) /\ ClosesNow(m, k, c)
    BY <1>7, <2>1, <2>11, <2>12, <2>14, <2>15, <2>16 DEF Closes, ClosesNow, s, r
  <2>18. o.m = k /\ o.f = <<User, [k |-> "free", c |-> c]>>
    BY <2>7
  <2> QED
    BY <1>7, <2>12, <2>17, <2>18 DEF s, r, l, can
<1>8. CASE s.pending /\ ~can
  <2>1. PICK k : k = [b EXCEPT !.conn[c].told = @ + 1]
    OBVIOUS
  <2>2. o = [m |-> k, f |-> <<User, [k |-> "detach", c |-> c]>>]
    BY <1>5, <1>6, <1>8, <2>1
  <2>3. /\ k \in Mem /\ SameBut(b, k, {"conn"}) /\ Only(b.conn, k.conn, c)
        /\ ConnBut(b.conn[c], k.conn[c], {"told"}) /\ k.conn[c].told = b.conn[c].told + 1
    BY <1>4, <2>1, SetTold, Zenon
  <2>4. /\ SameBut(m, k, {"conn", "req", "cache", "keep"})
        /\ k.keep = [m.keep EXCEPT ![l] = m.keep[l] - 1]
        /\ b.conn = a.conn /\ k.req = m.req /\ k.cache = m.cache
    BY <1>3, <1>4, <2>3 DEF SameBut
  <2>5. DOMAIN a.conn = Conns
    BY <1>3, MemParts DEF ConnMap
  <2>6. Only(m.conn, k.conn, c)
    BY <1>0, <1>3, <2>3, <2>4, <2>5 DEF Only
  <2>7. /\ ConnBut(s, k.conn[c], {"closed", "att", "pending", "req", "told"})
        /\ k.conn[c].closed /\ k.conn[c].att = NoAttempts
        /\ b.conn[c].told = s.told
        /\ k.conn[c].pending = s.pending /\ k.conn[c].req = r
    BY <1>3, <2>3, <2>4 DEF ConnBut, r
  <2>8. Closes(m, k, c) /\ ClosesLate(m, k, c)
    BY <2>3, <2>4, <2>6, <2>7 DEF Closes, ClosesLate, s, r
  <2>9. o.m = k /\ o.f = <<User, [k |-> "detach", c |-> c]>>
    BY <2>2
  <2> QED
    BY <1>8, <2>4, <2>8, <2>9 DEF s, r, l, can
<1>9. CASE ~s.pending /\ r = Null
  <2>1. PICK k : k = [a EXCEPT !.conn[c].told = @ + 1]
    OBVIOUS
  <2>2. o = [m |-> k, f |-> <<User, [k |-> "free", c |-> c]>>]
    BY <1>5, <1>6, <1>9, <2>1
  <2>3. /\ k \in Mem /\ SameBut(a, k, {"conn"}) /\ Only(a.conn, k.conn, c)
        /\ ConnBut(a.conn[c], k.conn[c], {"told"}) /\ k.conn[c].told = a.conn[c].told + 1
    BY <1>3, <2>1, SetTold
  <2>4. /\ SameBut(m, k, {"conn", "req", "cache", "keep"})
        /\ k.keep = m.keep /\ k.req = m.req /\ k.cache = m.cache
    BY <1>3, <2>3 DEF SameBut
  <2>5. DOMAIN a.conn = Conns
    BY <1>3, MemParts DEF ConnMap
  <2>6. Only(m.conn, k.conn, c)
    BY <1>0, <1>3, <2>3, <2>4, <2>5 DEF Only
  <2>7. /\ ConnBut(s, k.conn[c], {"closed", "att", "pending", "req", "told"})
        /\ k.conn[c].closed /\ k.conn[c].att = NoAttempts
        /\ a.conn[c].told = s.told
        /\ k.conn[c].pending = s.pending /\ k.conn[c].req = r
    BY <1>3, <2>3, <2>4 DEF ConnBut, r
  <2>8. Closes(m, k, c) /\ ClosesNow(m, k, c)
    BY <1>9, <2>3, <2>4, <2>6, <2>7 DEF Closes, ClosesNow, s, r
  <2>9. o.m = k /\ o.f = <<User, [k |-> "free", c |-> c]>>
    BY <2>2
  <2> QED
    BY <1>9, <2>4, <2>8, <2>9 DEF s, r, l, can
<1>10. CASE ~s.pending /\ r # Null
  <2>1. r \in Reqs
    BY <1>0, <1>10
  <2>0. PICK g : g = freeaddrinfo(a, r, FALSE)
    OBVIOUS
  <2>5. PICK d : d = [g EXCEPT !.conn[c].req = Null]
    OBVIOUS
  <2>6. PICK k : k = [d EXCEPT !.conn[c].told = @ + 1]
    OBVIOUS
  <2>7. o = [m |-> k, f |-> <<User, [k |-> "free", c |-> c]>>]
    BY <1>5, <1>6, <1>10, <2>0, <2>5, <2>6, Zenon
  <2>11. /\ k \in Mem /\ SameBut(a, k, {"conn", "req", "cache"}) /\ Only(a.conn, k.conn, c)
         /\ ConnBut(a.conn[c], k.conn[c], {"req", "told"})
         /\ k.conn[c].req = Null /\ k.conn[c].told = a.conn[c].told + 1
         /\ Loosens(a.req, a.cache, k.req, k.cache, r, {})
    <3>1. /\ g \in Mem /\ SameBut(a, g, {"req", "cache"})
          /\ Loosens(a.req, a.cache, g.req, g.cache, r, {})
      BY <1>3, <2>0, <2>1, FreeEffect
    <3>2. /\ d \in Mem /\ SameBut(g, d, {"conn"}) /\ Only(g.conn, d.conn, c)
          /\ ConnBut(g.conn[c], d.conn[c], {"req"}) /\ d.conn[c].req = Null
      BY <2>5, <3>1, SetNoReq
    <3>3. /\ k \in Mem /\ SameBut(d, k, {"conn"}) /\ Only(d.conn, k.conn, c)
          /\ ConnBut(d.conn[c], k.conn[c], {"told"}) /\ k.conn[c].told = d.conn[c].told + 1
      BY <2>6, <3>2, SetTold
    <3> QED
      BY <1>3, <3>1, <2>1, <3>2, <3>3, DropEffect
  <2>12. /\ SameBut(m, k, {"conn", "req", "cache", "keep"})
         /\ k.keep = m.keep /\ a.req = m.req /\ a.cache = m.cache
    BY <1>3, <2>11 DEF SameBut
  <2>13. DOMAIN a.conn = Conns
    BY <1>3, MemParts DEF ConnMap
  <2>14. Only(m.conn, k.conn, c)
    BY <1>0, <1>3, <2>11, <2>13 DEF Only
  <2>15. /\ ConnBut(s, k.conn[c], {"closed", "att", "pending", "req", "told"})
         /\ k.conn[c].closed /\ k.conn[c].att = NoAttempts /\ k.conn[c].pending = s.pending
         /\ a.conn[c].told = s.told
    BY <1>3, <2>11, <2>12 DEF ConnBut
  <2>17. Closes(m, k, c) /\ ClosesNow(m, k, c)
    BY <1>10, <2>1, <2>11, <2>12, <2>14, <2>15 DEF Closes, ClosesNow, s, r
  <2>18. o.m = k /\ o.f = <<User, [k |-> "free", c |-> c]>>
    BY <2>7
  <2> QED
    BY <1>10, <2>12, <2>17, <2>18 DEF s, r, l, can
<1> QED
  BY <1>0, <1>7, <1>8, <1>9, <1>10

\* What a request that lost a reference keeps, and what everyone else does.
Fades(q, p) == /\ q.life = "live" /\ p.life = "live" => p.wakes = q.wakes
               /\ p.notify \cup p.moved \subseteq q.notify \cup q.moved

\* What becomes of the requests when a holder gives up its reference.
LEMMA LoosensKeeps ==
  ASSUME NEW req \in ReqMap, NEW cache, NEW req2, NEW cache2, NEW r \in Reqs, NEW N,
         Loosens(req, cache, req2, cache2, r, N), NEW x \in Reqs
  PROVE  Fades(req[x], req2[x])
<1> USE DEF Fades
<1>1. PICK q \in ReqMap :
        /\ Only(req, q, r) /\ ReqBut(req[r], q[r], {"notify", "refs", "valid"})
        /\ q[r].notify = req[r].notify \ N
        /\ req2 = q \/ req2 = [q EXCEPT ![r] = NoRequest]
  BY DEF Loosens, Drops
<1>2. DOMAIN req = Reqs
  BY DEF ReqMap
<1>3. CASE x # r
  <2>1. q[x] = req[x] /\ req2[x] = q[x]
    BY <1>1, <1>2, <1>3 DEF Only, ReqMap
  <2> QED
    BY <2>1
<1>4. CASE x = r
  <2>1. /\ q[r].moved = req[r].moved /\ q[r].wakes = req[r].wakes
        /\ q[r].notify = req[r].notify \ N
    BY <1>1 DEF ReqBut
  <2>2. CASE req2 = q
    BY <1>4, <2>1, <2>2
  <2>3. CASE req2 = [q EXCEPT ![r] = NoRequest]
    <3>1. req2[r] = NoRequest
      BY <2>3 DEF ReqMap
    <3> QED
      BY <1>4, <3>1, NoRequestType
  <2> QED
    BY <1>1, <2>2, <2>3
<1> QED
  BY <1>3, <1>4

\* Connect c gives back its reference to r, and is off its list.
GivesBack(req, cache, req2, cache2, r, c) ==
  \E N \in {{}, {c}} : /\ c \in req[r].notify => N = {c}
                       /\ Loosens(req, cache, req2, cache2, r, N)

\* Connect c of loop l is in no drain, and closing if it is linked.
Leaves(V, V2, l, c, linked) ==
  /\ linked => c \in V2[l].closing
  /\ \A x \in Loops :
       /\ V2[x].drain = V[x].drain \ {c}
       /\ V2[x].borrow = V[x].borrow /\ V2[x].hit = V[x].hit
       /\ V[x].closing \subseteq V2[x].closing
       /\ V2[x].closing \subseteq V[x].closing \cup {d \in {c} : l = x}
       /\ V2[x].free \subseteq V[x].free \cup {d \in {c} : l = x /\ c \in V2[x].closing}

\* A connect gives up its request, which may be freed.
LEMMA CoreGiveUp ==
  ASSUME NEW conn \in ConnMap, NEW req \in ReqMap, NEW cache \in SUBSET Reqs,
         NEW Q \in QueueMap, NEW V \in ViewMap,
         Core(conn, req, cache, Q, V),
         NEW c \in Conns, NEW r \in Reqs, conn[c].life = "live", conn[c].req = r,
         NEW conn2 \in ConnMap, NEW req2 \in ReqMap, NEW cache2, NEW V2 \in ViewMap,
         \A d \in Conns \ {c} : SameConn(conn[d], conn2[d]),
         LetsGo(conn[c], conn2[c]),
         GivesBack(req, cache, req2, cache2, r, c),
         c \notin req[r].moved, \A l \in Loops : c \notin Q[l],
         Leaves(V, V2, conn[c].loop, c, conn2[c].linked)
  PROVE  Core(conn2, req2, cache2, Q, V2)
<1> USE DEF Leaves
<1>0. PICK N \in {{}, {c}} : /\ c \in req[r].notify => N = {c}
                             /\ Loosens(req, cache, req2, cache2, r, N)
  BY DEF GivesBack
<1>1. PICK q \in ReqMap :
        /\ Only(req, q, r) /\ ReqBut(req[r], q[r], {"notify", "refs", "valid"})
        /\ q[r].notify = req[r].notify \ N /\ q[r].refs = req[r].refs - 1
        /\ Drops(q, cache, req2, cache2, r)
  BY <1>0 DEF Loosens
<1>2. /\ q[r].life = req[r].life /\ q[r].result = req[r].result /\ q[r].moved = req[r].moved
      /\ q[r].notify = req[r].notify \ {c}
  <2>1. q[r].notify = req[r].notify \ {c}
    BY <1>0, <1>1
  <2> QED
    BY <1>1, <2>1 DEF ReqBut
<1>3. \A x \in Reqs \ {r} : SameReq(req[x], q[x])
  BY <1>1 DEF Only, ReqMap, SameReq
<1>4. Core(conn2, q, cache, Q, V2)
  BY <1>1, <1>2, <1>3, CoreLetGo
<1>5. req[r].life = "live"
  BY DEF Core, RefInv, RefOK, HoldersOf
<1>6. q[r].life = "live"
  BY <1>2, <1>5
<1> QED
  BY <1>1, <1>4, <1>6, CoreLoosen

\* Stack b is what is left of s when connects were taken from a drain or the
\* walk of a close_all went on.
Rests(s, b) ==
  /\ Good(b) /\ NoConnect(b) /\ (Dispatching(b) <=> Dispatching(s))
  /\ View(b).borrow = View(s).borrow /\ View(b).hit = View(s).hit
  /\ View(b).closing = View(s).closing /\ View(b).free = View(s).free

\* Walks in W go on as those in W2, perhaps from c to its successor.
WalksPast(W, W2, c, next) ==
  \/ W2 \subseteq W
  \/ c \in W /\ W2 \subseteq W \cup {next}

\* The closing of connect c by its loop l: memory m becomes k, and on what is
\* left of the stack, b, user code is told, with what follows that under it.
\* If the connect gives up its request it comes out of the drain it may be in.
ClosedBy(m, st, l, c, k, b, kk) ==
  LET s == m.conn[c]
      t == k.conn[c]
      V == ViewOf(st)
  IN  /\ s.life = "live" /\ s.loop = l /\ s.told = 0
      /\ k \in Mem /\ SameBut(m, k, {"conn", "req", "cache", "keep"}) /\ Only(m.conn, k.conn, c)
      /\ ConnBut(s, t, {"closed", "att", "pending", "req", "told", "own", "addr"})
      /\ t.closed /\ t.att = NoAttempts /\ t.told = 1 /\ (t.own => s.own)
      /\ s.pending => k.keep = [m.keep EXCEPT ![l] = m.keep[l] - 1]
      /\ ~s.pending => k.keep = m.keep
      /\ Rests(st[l], b) /\ WalksPast(V[l].walk, View(b).walk, c, s.np)
      /\ \/ /\ kk = "detach" /\ s.pending /\ t.pending /\ t.req = s.req /\ t.own = s.own
            /\ k.req = m.req /\ k.cache = m.cache
            /\ View(b).drain = V[l].drain
         \/ /\ kk = "free" /\ ~t.pending /\ t.req = Null
            /\ View(b).drain = V[l].drain \ {c}
            /\ c \notin m.req[s.req].moved /\ c \notin QueueOf(m.ready)[l]
            /\ GivesBack(m.req, m.cache, k.req, k.cache, s.req, c)

\* Closing a connect that was not closed keeps the invariant.
LEMMA SoundClosed ==
  ASSUME NEW m, NEW st, Sound(m, st), NEW l \in Loops, NEW c \in Conns,
         NEW k, NEW b, NEW kk, ClosedBy(m, st, l, c, k, b, kk)
  PROVE  Sound(k, [st EXCEPT ![l] = <<User, [k |-> kk, c |-> c]>> \o b])
<1> DEFINE s == m.conn[c]
           t == k.conn[c]
           V == ViewOf(st)
           Q == QueueOf(m.ready)
           sn == <<User, [k |-> kk, c |-> c]>> \o b
           st2 == [st EXCEPT ![l] = sn]
           V2 == ViewOf(st2)
<1>0. /\ m \in Mem /\ st \in [Loops -> Seq(Frame)]
      /\ m.conn \in ConnMap /\ m.req \in ReqMap /\ m.cache \in SUBSET Reqs
      /\ m.ready \in [Loops -> Seq(Conns)] /\ m.head \in [Loops -> Ptr]
      /\ m.keep \in [Loops -> Int]
      /\ \A x \in Loops : Good(st[x]) /\ Once(m.ready[x])
      /\ Q \in QueueMap /\ V \in ViewMap
      /\ Core(m.conn, m.req, m.cache, Q, V)
      /\ GroupsOK(m.conn, m.head, V) /\ KeepOK(m.conn, m.keep)
      /\ \A x \in Loops : ~Dispatching(st[x]) => WakeOK(m.conn, m.req, Q, m.wake, x)
      /\ OwnOK(m.conn, m.req)
  BY SoundParts
<1>1. /\ s.life = "live" /\ s.loop = l /\ s.told = 0
      /\ k \in Mem /\ SameBut(m, k, {"conn", "req", "cache", "keep"}) /\ Only(m.conn, k.conn, c)
      /\ ConnBut(s, t, {"closed", "att", "pending", "req", "told", "own", "addr"})
      /\ t.closed /\ t.att = NoAttempts /\ t.told = 1 /\ (t.own => s.own)
  BY DEF ClosedBy
<1>2. /\ s.pending => k.keep = [m.keep EXCEPT ![l] = m.keep[l] - 1]
      /\ ~s.pending => k.keep = m.keep
  BY DEF ClosedBy
<1>3. /\ Good(b) /\ NoConnect(b) /\ (Dispatching(b) <=> Dispatching(st[l]))
      /\ View(b).borrow = V[l].borrow /\ View(b).hit = V[l].hit
      /\ View(b).closing = V[l].closing /\ View(b).free = V[l].free
      /\ \/ View(b).walk \subseteq V[l].walk
         \/ c \in V[l].walk /\ View(b).walk \subseteq V[l].walk \cup {s.np}
  BY <1>0, SoundParts DEF ClosedBy, Rests, WalksPast
<1>4. \/ /\ kk = "detach" /\ s.pending /\ t.pending /\ t.req = s.req /\ t.own = s.own
         /\ k.req = m.req /\ k.cache = m.cache
         /\ View(b).drain = V[l].drain
      \/ /\ kk = "free" /\ ~t.pending /\ t.req = Null
         /\ View(b).drain = V[l].drain \ {c}
         /\ c \notin m.req[s.req].moved /\ c \notin Q[l]
         /\ GivesBack(m.req, m.cache, k.req, k.cache, s.req, c)
  BY DEF ClosedBy
<1>5. kk \in {"free", "detach"}
  BY <1>4
<1>6. /\ Good(sn) /\ (Dispatching(sn) <=> Dispatching(b))
      /\ View(sn).drain = View(b).drain /\ View(sn).borrow = View(b).borrow
      /\ View(sn).hit = View(b).hit /\ View(sn).walk = View(b).walk
      /\ View(sn).closing = View(b).closing \cup {c}
      /\ View(sn).free = IF kk = "free" THEN View(b).free \cup {c} ELSE View(b).free
  <2>1. Good(sn) /\ (Dispatching(sn) <=> Dispatching(b)) /\ Tells(View(b), View(sn), c, kk)
    BY <1>3, <1>5, PushTell
  <2> QED
    BY <2>1 DEF Tells
<1>v. st2 = [st EXCEPT ![l] = sn]
  OBVIOUS
<1> HIDE DEF st2, V2, V, Q, sn
<1>7. /\ V2 \in ViewMap /\ V2[l] = View(sn) /\ \A x \in Loops \ {l} : V2[x] = V[x]
  <2>1. Turns(ViewOf(st), ViewOf(st2), l, View(sn))
    BY <1>0, <1>v, ViewAt
  <2> QED
    BY <2>1 DEF Turns, V, V2
<1>8. /\ k.conn \in ConnMap /\ k.req \in ReqMap /\ k.cache \in SUBSET Reqs
      /\ k.ready = m.ready /\ k.head = m.head /\ k.wake = m.wake
      /\ QueueOf(k.ready) = Q
  BY <1>1, MemParts DEF SameBut, Q
<1>9. /\ \A d \in Conns \ {c} : k.conn[d] = m.conn[d]
      /\ t.life = "live" /\ t.loop = l /\ t.linked = s.linked /\ t.np = s.np /\ t.pp = s.pp
  <2>1. DOMAIN m.conn = Conns
    BY <1>0 DEF ConnMap
  <2> QED
    BY <1>1, <2>1 DEF Only, ConnBut
<1>10. \A d \in Conns \ {c} : SameConn(m.conn[d], k.conn[d])
  BY <1>9 DEF SameConn
<1>11. ConnOK(s, m.req) /\ WaitOK(m.conn, m.req, Q, V, c) /\ s.req \in Reqs /\ ~s.closed /\ s.linked
  BY <1>0, <1>1 DEF Core, ConnInv, WaitInv, ConnOK
<1>12. Core(k.conn, k.req, k.cache, Q, V2)
  <2>1. CASE kk = "detach"
    <3>1. /\ s.pending /\ t.pending /\ t.req = s.req /\ k.req = m.req /\ k.cache = m.cache
          /\ View(b).drain = V[l].drain
      BY <1>4, <2>1
    <3>2. GoesOn(s, t)
      BY <1>1, <1>9, <3>1 DEF GoesOn
    <3>3. ConnOK(t, m.req)
      BY <1>1, <1>9, <1>11, <3>1 DEF ConnOK
    <3>4. \A x \in Loops :
            /\ V2[x].drain = V[x].drain
            /\ V2[x].borrow = V[x].borrow /\ V2[x].hit = V[x].hit
            /\ V2[x].closing \ {c} = V[x].closing \ {c}
            /\ V2[x].free \ {c} \subseteq V[x].free
            /\ V2[x].free = V[x].free
      BY <1>3, <1>6, <1>7, <2>1, <3>1
    <3>5. \A x \in Loops : LeadOK(m.conn, m.req, V, x)
      BY <1>0 DEF Core, LeadInv
    <3>6. \A x \in Loops :
            /\ c \in V2[x].closing => t.told = 1 /\ t.loop = x
            /\ c \in V2[x].free => c \in V2[x].closing /\ ~t.pending
      BY <1>1, <1>3, <1>6, <1>7, <1>9, <3>1, <3>4, <3>5 DEF LeadOK
    <3>7. c \in V2[s.loop].closing
      BY <1>1, <1>6, <1>7
    <3>8. Moves(m.conn, m.req, V, k.conn, V2, c)
      BY <1>9, <1>10, <1>1, <3>1, <3>2, <3>3, <3>4, <3>6, <3>7 DEF Moves
    <3>9. Core(k.conn, m.req, m.cache, Q, V2)
      BY <1>0, <1>7, <1>8, <3>8, CoreOne
    <3> QED
      BY <3>1, <3>9
  <2>2. CASE kk = "free"
    <3>1. /\ ~t.pending /\ t.req = Null /\ View(b).drain = V[l].drain \ {c}
          /\ c \notin m.req[s.req].moved /\ c \notin Q[l]
      BY <1>4, <2>2
    <3>2. GivesBack(m.req, m.cache, k.req, k.cache, s.req, c)
      BY <1>4, <2>2
    <3>3. LetsGo(s, t)
      BY <1>1, <1>9, <3>1 DEF LetsGo
    <3>4. \A x \in Loops : c \notin Q[x]
      BY <1>1, <1>11, <3>1 DEF WaitOK
    <3>5. \A x \in Loops : x # l => c \notin V[x].drain
      BY <1>1, <1>11 DEF WaitOK
    <3>6. \A x \in Loops :
            /\ V2[x].drain = V[x].drain \ {c}
            /\ V2[x].borrow = V[x].borrow /\ V2[x].hit = V[x].hit
            /\ V[x].closing \subseteq V2[x].closing
            /\ V2[x].closing \subseteq V[x].closing \cup {d \in {c} : s.loop = x}
            /\ V2[x].free \subseteq V[x].free \cup {d \in {c} : s.loop = x /\ c \in V2[x].closing}
      <4> SUFFICES ASSUME NEW x \in Loops
                   PROVE  /\ V2[x].drain = V[x].drain \ {c}
                          /\ V2[x].borrow = V[x].borrow /\ V2[x].hit = V[x].hit
                          /\ V[x].closing \subseteq V2[x].closing
                          /\ V2[x].closing \subseteq V[x].closing \cup {d \in {c} : s.loop = x}
                          /\ V2[x].free \subseteq
                               V[x].free \cup {d \in {c} : s.loop = x /\ c \in V2[x].closing}
        OBVIOUS
      <4>1. CASE x = l
        BY <1>1, <1>3, <1>6, <1>7, <2>2, <3>1, <4>1
      <4>2. CASE x # l
        BY <1>7, <3>5, <4>2
      <4> QED
        BY <4>1, <4>2
    <3>7. c \in V2[s.loop].closing
      BY <1>1, <1>6, <1>7
    <3>8. Leaves(V, V2, s.loop, c, t.linked)
      BY <3>6, <3>7 DEF Leaves
    <3> QED
      BY <1>0, <1>1, <1>7, <1>8, <1>10, <1>11, <3>1, <3>2, <3>3, <3>4, <3>8, CoreGiveUp, ZenonT(20)
  <2> QED
    BY <1>5, <2>1, <2>2
<1>13. GroupsOK(k.conn, k.head, V2)
  <2>1. PICK rank \in [Conns -> Int] : Groups(m.conn, m.head, V, rank)
    BY <1>0 DEF GroupsOK
  <2>2. \A d \in Conns : /\ SameLinks(m.conn[d], k.conn[d])
                         /\ Stays(m.conn[d]) => Stays(k.conn[d])
                         /\ k.conn[d].told = 0 => m.conn[d].told = 0
    BY <1>1, <1>9 DEF SameLinks, Stays
  <2>3. Groups(k.conn, k.head, V, rank)
    BY <1>0, <1>8, <2>1, <2>2, GroupSame
  <2>4. CASE View(b).walk \subseteq V[l].walk
    <3>1. \A x \in Loops : V2[x].walk \subseteq V[x].walk
      BY <1>6, <1>7, <2>4
    <3>2. \A d \in Conns : SameLinks(k.conn[d], k.conn[d])
      BY DEF SameLinks
    <3>3. Groups(k.conn, k.head, V2, rank)
      BY <1>0, <1>7, <1>8, <2>1, <2>3, <3>1, <3>2, GroupSame
    <3> QED
      BY <2>1, <3>3 DEF GroupsOK
  <2>5. CASE c \in V[l].walk /\ View(b).walk \subseteq V[l].walk \cup {s.np}
    <3>1. V2[l].walk \subseteq V[l].walk \cup {t.np}
      BY <1>6, <1>7, <1>9, <2>5
    <3>2. \A x \in Loops \ {l} : V2[x].walk \subseteq V[x].walk
      BY <1>7
    <3>0. WalksOn(k.conn, V, V2, l, c)
      BY <1>1, <2>5, <3>1, <3>2 DEF WalksOn
    <3>3. Groups(k.conn, k.head, V2, rank)
      BY <1>0, <1>7, <1>8, <2>1, <2>3, <3>0, GroupWalk
    <3> QED
      BY <2>1, <3>3 DEF GroupsOK
  <2> QED
    BY <1>3, <2>4, <2>5
<1>14. KeepOK(k.conn, k.keep)
  <2>1. \A x \in Loops : m.keep[x] = Cardinality(Kept(m.conn, x))
    BY <1>0 DEF KeepOK
  <2>2. ~Waits(t) /\ (Waits(s) <=> s.pending)
    BY <1>1, <1>9, <1>11 DEF Waits
  <2>3. \A d \in Conns \ {c} : Waits(k.conn[d]) = Waits(m.conn[d]) /\ k.conn[d].loop = m.conn[d].loop
    BY <1>9
  <2>4. CASE s.pending
    <3>1. OneWaits(m.conn, m.keep, k.conn, k.keep, l, c)
      BY <1>1, <1>2, <2>2, <2>3, <2>4 DEF OneWaits
    <3> QED
      BY <1>0, <3>1, KeepOne
  <2>5. CASE ~s.pending
    <3>1. \A x \in Loops : Kept(k.conn, x) = Kept(m.conn, x)
      BY <1>9, <2>2, <2>3, <2>5, KeepSame
    <3> QED
      BY <1>2, <2>1, <2>5, <3>1 DEF KeepOK
  <2> QED
    BY <2>4, <2>5
<1>15. /\ \A r \in Reqs : m.req[r].life = "live" /\ k.req[r].life = "live" => k.req[r].wakes = m.req[r].wakes
       /\ \A r \in Reqs : k.req[r].notify \cup k.req[r].moved \subseteq m.req[r].notify \cup m.req[r].moved
  <2>1. CASE k.req = m.req
    BY <2>1
  <2>2. CASE k.req # m.req
    <3>1. PICK N : Loosens(m.req, m.cache, k.req, k.cache, s.req, N)
      BY <1>4, <2>2 DEF GivesBack
    <3>2. \A r \in Reqs : Fades(m.req[r], k.req[r])
      BY <1>0, <1>11, <3>1, LoosensKeeps
    <3> QED
      BY <3>2 DEF Fades
  <2> QED
    BY <2>1, <2>2
<1>16. \A x \in Loops : ~Dispatching(st[x]) => WakeOK(k.conn, k.req, Q, k.wake, x)
  <2>1. \A d \in Conns : m.conn[d].life = "live" /\ k.conn[d].life = "live" /\ k.conn[d].pending =>
          k.conn[d].own = m.conn[d].own /\ k.conn[d].req = m.conn[d].req
    BY <1>4, <1>9
  <2>2. \A x \in Loops : Q[x] \subseteq Q[x]
    OBVIOUS
  <2>3. ASSUME NEW x \in Loops, WakeOK(m.conn, m.req, Q, m.wake, x)
        PROVE  WakeOK(k.conn, k.req, Q, m.wake, x)
    BY <1>0, <1>12, <1>15, <2>1, <2>2, <2>3, WakeSame
  <2> QED
    BY <1>0, <1>8, <2>3
<1>17. OwnOK(k.conn, k.req)
  <2>1. \A d \in Conns : k.conn[d].own => m.conn[d].own
    BY <1>1, <1>9
  <2> QED
    BY <1>0, <1>8, <1>15, <2>1, OwnSame
<1>18. \A x \in Loops : Once(k.ready[x])
  BY <1>0, <1>8
<1> QED
  <2>1. st2 = [st EXCEPT ![l] = sn]
    BY DEF st2
  <2>2. Core(k.conn, k.req, k.cache, QueueOf(k.ready), ViewOf(st2)) /\ GroupsOK(k.conn, k.head, ViewOf(st2))
    BY <1>8, <1>12, <1>13 DEF V2
  <2>3. /\ \A x \in Loops \ {l} : ~Dispatching(st[x]) => WakeOK(k.conn, k.req, QueueOf(k.ready), k.wake, x)
        /\ ~Dispatching(sn) => WakeOK(k.conn, k.req, QueueOf(k.ready), k.wake, l)
    BY <1>3, <1>6, <1>8, <1>16
  <2>4. Sound(k, st2)
    BY <1>1, <1>6, <1>14, <1>17, <1>18, <2>1, <2>2, <2>3, SoundStep, ZenonT(20)
  <2> QED
    BY <2>4 DEF st2, sn

\* us_connecting_socket_close of a connect that was not told its end.
LEMMA CloseStep ==
  ASSUME NEW m, NEW st, Sound(m, st), NEW l \in Loops, NEW c \in Conns,
         m.conn[c].life = "live", m.conn[c].loop = l, m.conn[c].told = 0,
         NEW o, o = us_connecting_socket_close(m, c),
         NEW b, Rests(st[l], b), WalksPast(View(st[l]).walk, View(b).walk, c, m.conn[c].np),
         Is(View(b).drain, View(st[l]).drain)
  PROVE  Sound(o.m, [st EXCEPT ![l] = o.f \o b])
<1> DEFINE s == m.conn[c]
           r == s.req
           k == o.m
           Q == QueueOf(m.ready)
           V == ViewOf(st)
<1>0. /\ m \in Mem /\ m.conn \in ConnMap /\ m.req \in ReqMap
      /\ Q \in QueueMap /\ V \in ViewMap /\ V[l] = View(st[l])
      /\ Core(m.conn, m.req, m.cache, Q, V)
  BY SoundParts
<1> HIDE DEF V, Q
<1>1. /\ ConnOK(s, m.req) /\ WaitOK(m.conn, m.req, Q, V, c)
      /\ ~s.closed /\ r \in Reqs /\ s.pending \in BOOLEAN
  BY <1>0 DEF Core, ConnInv, WaitInv, ConnOK, ConnMap, ConnRecord
<1>2. RefOK(m.conn, m.req, m.cache, V, r)
  BY <1>0, <1>1 DEF Core, RefInv
<1> DEFINE kk == IF s.pending /\ ~Cancellable(m, r, c) THEN "detach" ELSE "free"
<1>3. /\ Closes(m, k, c)
      /\ k.keep = IF s.pending THEN [m.keep EXCEPT ![l] = m.keep[l] - 1] ELSE m.keep
      /\ o.f = <<User, [k |-> kk, c |-> c]>>
      /\ kk = "detach" => ClosesLate(m, k, c)
      /\ kk = "free" => ClosesNow(m, k, c)
  BY <1>0, <1>1, CloseEffect
<1>4. kk \in {"free", "detach"} /\ (kk = "detach" <=> s.pending /\ ~Cancellable(m, r, c))
  OBVIOUS
<1> HIDE DEF kk, k
<1>5. /\ k \in Mem /\ SameBut(m, k, {"conn", "req", "cache", "keep"}) /\ Only(m.conn, k.conn, c)
      /\ ConnBut(s, k.conn[c], {"closed", "att", "pending", "req", "told"})
      /\ k.conn[c].closed /\ k.conn[c].att = NoAttempts /\ k.conn[c].told = 1
  BY <1>3 DEF Closes
<1>6. /\ ConnBut(s, k.conn[c], {"closed", "att", "pending", "req", "told", "own", "addr"})
      /\ k.conn[c].own = s.own
  BY <1>5 DEF ConnBut
<1>7. CASE kk = "detach"
  <2>1. /\ s.pending /\ k.conn[c].pending = s.pending /\ k.conn[c].req = s.req
        /\ k.req = m.req /\ k.cache = m.cache
    BY <1>3, <1>4, <1>7 DEF ClosesLate
  <2>2. ClosedBy(m, st, l, c, k, b, kk)
    BY <1>0, <1>3, <1>5, <1>6, <1>7, <2>1 DEF ClosedBy, V, Is
  <2>3. Sound(k, [st EXCEPT ![l] = <<User, [k |-> kk, c |-> c]>> \o b])
    BY <2>2, SoundClosed
  <2> QED
    BY <1>3, <2>3 DEF k
<1>8. CASE kk = "free"
  <2>1. /\ ~k.conn[c].pending /\ k.conn[c].req = Null
        /\ \E N \in {{}, {c}} : /\ s.pending => N = {c}
                                /\ Loosens(m.req, m.cache, k.req, k.cache, r, N)
    BY <1>1, <1>3, <1>8, Bounds DEF ClosesNow
  <2>2. s.pending => m.req[r].result = -1 /\ c \in m.req[r].notify
    BY <1>1, <1>4, <1>8 DEF Cancellable, Resolved
  <2>3. c \in m.req[r].notify => s.pending
    BY <1>1 DEF WaitOK
  <2>4. GivesBack(m.req, m.cache, k.req, k.cache, r, c)
    BY <2>1, <2>3 DEF GivesBack
  <2>5. c \notin m.req[r].moved
    BY <1>1, <1>2, <2>2, Zenon DEF WaitOK, RefOK
  <2>6. c \notin Q[l] /\ c \notin V[l].drain
    BY <1>1, <2>2 DEF WaitOK
  <2>7. View(b).drain = V[l].drain \ {c}
    BY <1>0, <2>6 DEF Is
  <2>8. ClosedBy(m, st, l, c, k, b, kk)
    BY <1>0, <1>3, <1>5, <1>6, <1>8, <2>1, <2>4, <2>5, <2>6, <2>7, Zenon DEF ClosedBy, V, Q
  <2>9. Sound(k, [st EXCEPT ![l] = <<User, [k |-> kk, c |-> c]>> \o b])
    BY <2>8, SoundClosed
  <2> QED
    BY <1>3, <2>9 DEF k
<1> QED
  BY <1>4, <1>7, <1>8

-----------------------------------------------------------------------------
(* Steps of a loop that change little but its stack.                       *)

\* Only walks come and go.
LEMMA SoundStack ==
  ASSUME NEW m, NEW st, Sound(m, st), NEW l \in Loops,
         NEW b, Rests(st[l], b), Is(View(b).drain, View(st[l]).drain),
         NEW st2, st2 = [st EXCEPT ![l] = b],
         GroupsOK(m.conn, m.head, ViewOf(st2))
  PROVE  Sound(m, st2)
<1> DEFINE V == ViewOf(st)
           V2 == ViewOf(st2)
           Q == QueueOf(m.ready)
<1>0. /\ m \in Mem /\ st \in [Loops -> Seq(Frame)]
      /\ V[l] = View(st[l])
      /\ Core(m.conn, m.req, m.cache, Q, V)
      /\ \A x \in Loops : Once(m.ready[x])
      /\ KeepOK(m.conn, m.keep)
      /\ \A x \in Loops : ~Dispatching(st[x]) => WakeOK(m.conn, m.req, Q, m.wake, x)
      /\ OwnOK(m.conn, m.req)
  BY SoundParts
<1>1. Turns(V, V2, l, View(b))
  BY <1>0, ViewAt
<1> HIDE DEF V, V2, Q
<1>2. \A x \in Loops :
        /\ V2[x].drain = V[x].drain
        /\ V2[x].borrow = V[x].borrow /\ V2[x].hit = V[x].hit
        /\ V2[x].closing = V[x].closing /\ V2[x].free = V[x].free
  BY <1>0, <1>1 DEF Turns, Rests, Is
<1>3. ConnInv(m.conn, m.req)
  BY <1>0 DEF Core
<1>4. Core(m.conn, m.req, m.cache, Q, V2)
  BY <1>0, <1>2, <1>3, CoreView
<1>5. Good(b) /\ (Dispatching(b) <=> Dispatching(st[l]))
  BY DEF Rests
<1>6. PICK k : k = m
  OBVIOUS
<1>7. /\ k \in Mem /\ Good(b) /\ \A x \in Loops : Once(k.ready[x])
      /\ Core(k.conn, k.req, k.cache, QueueOf(k.ready), ViewOf(st2))
      /\ GroupsOK(k.conn, k.head, ViewOf(st2)) /\ KeepOK(k.conn, k.keep)
      /\ \A x \in Loops \ {l} : ~Dispatching(st[x]) => WakeOK(k.conn, k.req, QueueOf(k.ready), k.wake, x)
      /\ ~Dispatching(b) => WakeOK(k.conn, k.req, QueueOf(k.ready), k.wake, l)
      /\ OwnOK(k.conn, k.req)
  BY <1>0, <1>4, <1>5, <1>6 DEF V2, Q
<1>8. Sound(k, st2)
  BY <1>7, SoundStep
<1> QED
  BY <1>6, <1>8

\* The stack of a loop without its walks: nothing is pushed on but walks.
LEMMA GroupsFewer ==
  ASSUME NEW m, NEW st, Sound(m, st), NEW l \in Loops,
         NEW b, View(b).walk \subseteq View(st[l]).walk, NEW st2, st2 = [st EXCEPT ![l] = b]
  PROVE  GroupsOK(m.conn, m.head, ViewOf(st2))
<1> DEFINE V == ViewOf(st)
           V2 == ViewOf(st2)
<1>0. /\ st \in [Loops -> Seq(Frame)] /\ V \in ViewMap /\ V[l] = View(st[l])
      /\ m.conn \in ConnMap /\ m.head \in [Loops -> Ptr]
      /\ GroupsOK(m.conn, m.head, V)
  BY SoundParts
<1>1. Turns(V, V2, l, View(b))
  BY <1>0, ViewAt
<1> HIDE DEF V, V2
<1>2. V2 \in ViewMap /\ \A x \in Loops : V2[x].walk \subseteq V[x].walk
  BY <1>0, <1>1 DEF Turns
<1>3. PICK rank \in [Conns -> Int] : Groups(m.conn, m.head, V, rank)
  BY <1>0 DEF GroupsOK
<1>4. \A d \in Conns : SameLinks(m.conn[d], m.conn[d])
  BY DEF SameLinks
<1>5. Groups(m.conn, m.head, V2, rank)
  BY <1>0, <1>2, <1>3, <1>4, GroupSame
<1> QED
  BY <1>3, <1>5 DEF GroupsOK, V2

\* User code returns, is called, or calls nothing.
LEMMA NoCall ==
  ASSUME NEW s, Good(s), s = <<>> \/ Head(s).k # "connect"
  PROVE  NoConnect(s) /\ Rests(s, s)
<1>1. NoConnect(s)
  <2>1. CASE s = <<>>
    BY <2>1, NoneIn DEF NoConnect
  <2>2. CASE s # <<>> /\ Head(s).k # "connect"
    BY <2>2, StackTop
  <2> QED
    BY <2>1, <2>2
<1> QED
  BY <1>1 DEF Rests

\* User code returns from a callback.
LEMMA ReturnStep ==
  ASSUME Inv, NEW l \in Loops, Return(l)
  PROVE  Inv'
<1>1. /\ stack[l] # <<>> /\ Head(stack[l]).k = "user" /\ mem' = mem
      /\ stack' = [stack EXCEPT ![l] = <<>> \o Tail(stack[l])]
  BY DEF Return, At, Top, Do, Outcome
<1>2. Sound(mem, stack) /\ Good(stack[l])
  BY SoundParts DEF Inv
<1> DEFINE f == Head(stack[l])
           t == Tail(stack[l])
<1>3. /\ f \in Frame /\ Good(t) /\ NoConnect(t) /\ View(stack[l]) = Both(Held(f), View(t))
      /\ Dispatching(stack[l]) <=> Dispatching(t)
  BY <1>1, <1>2, StackTop
<1>4. <<>> \o t = t
  BY <1>3, ConcatEmptySeq DEF Good
<1> HIDE DEF t, f
<1>5. View(stack[l]) = View(t)
  BY <1>1, <1>3, HeldByNone, ViewType DEF f
<1>6. Rests(stack[l], t) /\ Is(View(t).drain, View(stack[l]).drain)
  BY <1>3, <1>5 DEF Rests, Is
<1>7. stack' = [stack EXCEPT ![l] = t]
  BY <1>1, <1>4 DEF t
<1>8. GroupsOK(mem.conn, mem.head, ViewOf(stack'))
  BY <1>2, <1>5, <1>7, GroupsFewer
<1>9. Sound(mem, stack')
  BY <1>2, <1>6, <1>7, <1>8, SoundStack
<1> QED
  BY <1>1, <1>9 DEF Inv

\* The sweep calls user code.
LEMMA DispatchTimeoutStep ==
  ASSUME Inv, NEW l \in Loops, DispatchTimeout(l)
  PROVE  Inv'
<1>1. /\ stack[l] # <<>> /\ Head(stack[l]).k = "tick" /\ mem' = mem
      /\ stack' = [stack EXCEPT ![l] = <<User>> \o stack[l]]
  BY DEF DispatchTimeout, Ticks, At, Top, Do, Outcome
<1>2. Sound(mem, stack) /\ Good(stack[l])
  BY SoundParts DEF Inv
<1> DEFINE t == <<User>> \o stack[l]
<1>3. NoConnect(stack[l])
  BY <1>1, <1>2, NoCall
<1>4. Good(t) /\ View(t) = View(stack[l]) /\ (Dispatching(t) <=> Dispatching(stack[l]))
  BY <1>2, <1>3, PushUser
<1>5. NoConnect(t)
  BY <1>2, <1>3, StackPush, OtherFrames
<1> HIDE DEF t
<1>6. Rests(stack[l], t) /\ Is(View(t).drain, View(stack[l]).drain)
  BY <1>4, <1>5 DEF Rests, Is
<1>7. stack' = [stack EXCEPT ![l] = t]
  BY <1>1 DEF t
<1>8. GroupsOK(mem.conn, mem.head, ViewOf(stack'))
  BY <1>2, <1>4, <1>7, GroupsFewer
<1>9. Sound(mem, stack')
  BY <1>2, <1>6, <1>7, <1>8, SoundStack
<1> QED
  BY <1>1, <1>9 DEF Inv

\* User code closes a connect.
LEMMA CloseConnectStep ==
  ASSUME Inv, NEW l \in Loops, NEW c \in Conns, CloseConnect(l, c)
  PROVE  Inv'
<1>1. /\ stack[l] = <<>> \/ Head(stack[l]).k = "user"
      /\ mem.conn[c].loop = l /\ mem.conn[c].told = 0
  BY DEF CloseConnect, Call, At, Top
<1>2. PICK o : o = us_connecting_socket_close(mem, c)
  OBVIOUS
<1>3. mem' = o.m /\ stack' = [stack EXCEPT ![l] = o.f \o stack[l]]
  BY <1>2 DEF CloseConnect, Do
<1>4. Sound(mem, stack) /\ Good(stack[l])
  BY SoundParts DEF Inv
<1>5. Rests(stack[l], stack[l])
  BY <1>1, <1>4, NoCall
<1>6. WalksPast(View(stack[l]).walk, View(stack[l]).walk, c, mem.conn[c].np)
  BY DEF WalksPast
<1>7. Is(View(stack[l]).drain, View(stack[l]).drain)
  BY DEF Is
<1>8. mem.conn[c].life = "live"
  <2>1. ConnOK(mem.conn[c], mem.req) /\ mem.conn \in ConnMap
    BY <1>4, SoundParts DEF Core, ConnInv
  <2> QED
    BY <1>1, <2>1, Bounds DEF ConnOK, ConnMap, ConnRecord
<1>9. Sound(o.m, [stack EXCEPT ![l] = o.f \o stack[l]])
  BY <1>1, <1>2, <1>4, <1>5, <1>6, <1>7, <1>8, CloseStep
<1> QED
  BY <1>3, <1>9 DEF Inv

\* A walk put on a stack, or one that goes on.
PushesWalk(v, w, c) ==
  /\ w.drain = v.drain /\ w.borrow = v.borrow /\ w.hit = v.hit
  /\ w.closing = v.closing /\ w.free = v.free /\ w.walk = v.walk \cup {c}

\* A close_all put on a stack.
LEMMA PushWalk ==
  ASSUME NEW b, Good(b), NoConnect(b), NEW c \in Ptr,
         NEW s, s = <<[k |-> "all", c |-> c]>> \o b
  PROVE  /\ Good(s) /\ NoConnect(s) /\ (Dispatching(s) <=> Dispatching(b))
         /\ PushesWalk(View(b), View(s), c)
<1> DEFINE f == [k |-> "all", c |-> c]
<1>0. View(b) \in Views
  BY ViewType
<1>1. f \in Frame /\ f.k = "all" /\ PushesWalk(View(b), Both(Held(f), View(b)), c)
  BY <1>0, HeldByWalk DEF PushesWalk
<1> HIDE DEF f
<1>2. /\ Good(s) /\ NoConnect(s) /\ View(s) = Both(Held(f), View(b))
      /\ Dispatching(s) <=> Dispatching(b)
  <2>1. s = <<f>> \o b
    BY DEF f
  <2> QED
    BY <1>1, <2>1, StackPush
<1> QED
  BY <1>1, <1>2

\* A close_all taken from a stack.
LEMMA PopWalk ==
  ASSUME NEW s, Good(s), s # <<>>, Head(s).k = "all"
  PROVE  /\ Good(Tail(s)) /\ NoConnect(Tail(s)) /\ (Dispatching(s) <=> Dispatching(Tail(s)))
         /\ Head(s).c \in Ptr /\ PushesWalk(View(Tail(s)), View(s), Head(s).c)
<1> DEFINE f == Head(s)
           t == Tail(s)
<1>1. /\ f \in Frame /\ Good(t) /\ NoConnect(t) /\ View(s) = Both(Held(f), View(t))
      /\ Dispatching(s) <=> Dispatching(t)
  BY StackTop
<1>2. f.c \in Ptr /\ f = [k |-> "all", c |-> f.c]
  BY <1>1, FrameKinds
<1>3. PICK c \in Ptr : c = f.c /\ f = [k |-> "all", c |-> c]
  BY <1>2
<1>4. View(t) \in Views
  BY ViewType
<1> HIDE DEF f, t
<1>5. PushesWalk(View(t), Both(Held([k |-> "all", c |-> c]), View(t)), c)
  BY <1>4, HeldByWalk DEF PushesWalk
<1> QED
  BY <1>1, <1>3, <1>5 DEF f, t

\* User code begins a close_all: its walk starts at the head of the list.
LEMMA CloseAllStep ==
  ASSUME Inv, NEW l \in Loops, us_socket_group_close_all(l)
  PROVE  Inv'
<1> DEFINE h == mem.head[l]
           t == <<[k |-> "all", c |-> h]>> \o stack[l]
<1>1. /\ stack[l] = <<>> \/ Head(stack[l]).k = "user"
      /\ mem' = mem /\ stack' = [stack EXCEPT ![l] = t]
  BY DEF us_socket_group_close_all, Call, At, Top, Do, Outcome
<1>2. /\ Sound(mem, stack) /\ Good(stack[l])
      /\ stack \in [Loops -> Seq(Frame)] /\ ViewOf(stack) \in ViewMap /\ ViewOf(stack)[l] = View(stack[l])
      /\ mem.conn \in ConnMap /\ mem.head \in [Loops -> Ptr] /\ h \in Ptr
      /\ GroupsOK(mem.conn, mem.head, ViewOf(stack))
      /\ ConnInv(mem.conn, mem.req)
  BY SoundParts DEF Inv, Core
<1>3. NoConnect(stack[l])
  BY <1>1, <1>2, NoCall
<1>4. /\ Good(t) /\ NoConnect(t) /\ (Dispatching(t) <=> Dispatching(stack[l]))
      /\ PushesWalk(View(stack[l]), View(t), h)
  BY <1>2, <1>3, PushWalk
<1> HIDE DEF t
<1>5. Rests(stack[l], t) /\ Is(View(t).drain, View(stack[l]).drain)
  BY <1>4 DEF Rests, Is, PushesWalk
<1>6. GroupsOK(mem.conn, mem.head, ViewOf(stack'))
  <2>1. Turns(ViewOf(stack), ViewOf(stack'), l, View(t))
    BY <1>1, <1>2, ViewAt
  <2>2. /\ ViewOf(stack') \in ViewMap
        /\ ViewOf(stack')[l].walk \subseteq ViewOf(stack)[l].walk \cup {mem.head[l]}
        /\ \A x \in Loops \ {l} : ViewOf(stack')[x].walk \subseteq ViewOf(stack)[x].walk
    BY <1>2, <1>4, <2>1 DEF Turns, PushesWalk
  <2>3. PICK rank \in [Conns -> Int] : Groups(mem.conn, mem.head, ViewOf(stack), rank)
    BY <1>2 DEF GroupsOK
  <2>4. \A c \in Conns : mem.conn[c].linked => mem.conn[c].life = "live"
    BY <1>2 DEF ConnInv, ConnOK
  <2>5. Groups(mem.conn, mem.head, ViewOf(stack'), rank)
    BY <1>2, <2>2, <2>3, <2>4, GroupStart
  <2> QED
    BY <2>3, <2>5 DEF GroupsOK
<1>7. Sound(mem, stack')
  BY <1>1, <1>2, <1>5, <1>6, SoundStack
<1> QED
  BY <1>1, <1>7 DEF Inv

\* What a close_all gets to is its loop's, and live or closed.
LEMMA Walked ==
  ASSUME NEW m, NEW st, Sound(m, st), NEW l \in Loops, NEW c \in Conns,
         c \in View(st[l]).walk
  PROVE  /\ m.conn[c].loop = l
         /\ m.conn[c].closed => m.conn[c].told = 1
         /\ ~m.conn[c].closed => m.conn[c].life = "live" /\ m.conn[c].told = 0
<1>1. /\ ViewOf(st)[l] = View(st[l]) /\ m.conn \in ConnMap
      /\ GroupsOK(m.conn, m.head, ViewOf(st)) /\ ConnOK(m.conn[c], m.req)
  BY SoundParts DEF Core, ConnInv
<1>2. PICK rank \in [Conns -> Int] : Groups(m.conn, m.head, ViewOf(st), rank)
  BY <1>1 DEF GroupsOK
<1>3. PICK G \in SUBSET Conns : Walkable(m.conn, rank, l, ViewOf(st)[l].walk, G)
  BY <1>1, <1>2 DEF Groups
<1>4. c \in G
  BY <1>1, <1>3, Bounds DEF Walkable
<1>5. m.conn[c].loop = l /\ (m.conn[c].life = "live" \/ (m.conn[c].life = "dead" /\ m.conn[c].closed))
  BY <1>3, <1>4 DEF Walkable
<1> QED
  BY <1>1, <1>5 DEF ConnOK, ConnMap, ConnRecord

\* A close_all closes a connect and goes on to the successor, or returns.
LEMMA CloseAllGoesOnStep ==
  ASSUME Inv, NEW l \in Loops, CloseAllGoesOn(l)
  PROVE  Inv'
<1> DEFINE c == Head(stack[l]).c
           t == Tail(stack[l])
<1>1. /\ stack[l] # <<>> /\ Head(stack[l]).k = "all"
      /\ c = Null => mem' = mem /\ stack' = [stack EXCEPT ![l] = <<>> \o t]
      /\ c # Null => Do(l, us_connecting_socket_close(mem, c),
                        <<[k |-> "all", c |-> mem.conn[c].np]>> \o t)
  BY Zenon DEF CloseAllGoesOn, At, Top, Do, Outcome
<1>2. /\ Sound(mem, stack) /\ Good(stack[l])
      /\ stack \in [Loops -> Seq(Frame)] /\ ViewOf(stack) \in ViewMap /\ ViewOf(stack)[l] = View(stack[l])
      /\ mem.conn \in ConnMap /\ mem.head \in [Loops -> Ptr]
      /\ GroupsOK(mem.conn, mem.head, ViewOf(stack))
  BY SoundParts DEF Inv
<1>3. /\ Good(t) /\ NoConnect(t) /\ (Dispatching(stack[l]) <=> Dispatching(t))
      /\ c \in Ptr /\ PushesWalk(View(t), View(stack[l]), c)
  BY <1>1, <1>2, PopWalk
<1>4. <<>> \o t = t
  BY <1>3, ConcatEmptySeq DEF Good
<1> HIDE DEF c, t
<1>5. CASE c = Null
  <2>1. mem' = mem /\ stack' = [stack EXCEPT ![l] = t]
    BY <1>1, <1>4, <1>5
  <2>2. Rests(stack[l], t) /\ Is(View(t).drain, View(stack[l]).drain)
    BY <1>3 DEF Rests, Is, PushesWalk
  <2>3. View(t).walk \subseteq View(stack[l]).walk
    BY <1>3 DEF PushesWalk
  <2>4. GroupsOK(mem.conn, mem.head, ViewOf(stack'))
    BY <1>2, <2>1, <2>3, GroupsFewer
  <2>5. Sound(mem, stack')
    BY <1>2, <2>1, <2>2, <2>4, SoundStack
  <2> QED
    BY <2>1, <2>5 DEF Inv
<1>6. CASE c # Null
  <2> DEFINE n == mem.conn[c].np
             b == <<[k |-> "all", c |-> n]>> \o t
  <2>1. c \in Conns /\ c \in View(stack[l]).walk /\ n \in Ptr
    BY <1>2, <1>3, <1>6 DEF PushesWalk, Ptr, ConnMap, ConnRecord
  <2>2. /\ mem.conn[c].loop = l
        /\ mem.conn[c].closed => mem.conn[c].told = 1
        /\ ~mem.conn[c].closed => mem.conn[c].life = "live" /\ mem.conn[c].told = 0
    BY <1>2, <2>1, Walked
  <2>3. /\ Good(b) /\ NoConnect(b) /\ (Dispatching(b) <=> Dispatching(t))
        /\ PushesWalk(View(t), View(b), n)
    BY <1>3, <2>1, PushWalk
  <2>o. PICK o : o = us_connecting_socket_close(mem, c)
    OBVIOUS
  <2>4. mem' = o.m /\ stack' = [stack EXCEPT ![l] = o.f \o b]
    BY <1>1, <1>6, <2>o DEF Do
  <2> HIDE DEF b
  <2>5. Rests(stack[l], b) /\ Is(View(b).drain, View(stack[l]).drain)
    BY <1>3, <2>3 DEF Rests, Is, PushesWalk
  <2>6. View(b).walk \subseteq View(stack[l]).walk \cup {n}
    BY <1>3, <2>3 DEF PushesWalk
  <2>7. CASE ~mem.conn[c].closed
    <3>1. WalksPast(View(stack[l]).walk, View(b).walk, c, mem.conn[c].np)
      BY <2>1, <2>6 DEF WalksPast
    <3>2. Sound(o.m, [stack EXCEPT ![l] = o.f \o b])
      BY <1>2, <2>1, <2>2, <2>5, <2>7, <2>o, <3>1, CloseStep
    <3> QED
      BY <2>4, <3>2 DEF Inv
  <2>8. CASE mem.conn[c].closed
    <3>1. o = [m |-> mem, f |-> <<>>]
      BY <2>o, <2>8 DEF us_connecting_socket_close, Outcome
    <3>2. <<>> \o b = b
      BY <2>3, ConcatEmptySeq DEF Good
    <3>3. mem' = mem /\ stack' = [stack EXCEPT ![l] = b]
      BY <2>4, <3>1, <3>2
    <3>4. Turns(ViewOf(stack), ViewOf(stack'), l, View(b))
      BY <1>2, <3>3, ViewAt
    <3>5. WalksOn(mem.conn, ViewOf(stack), ViewOf(stack'), l, c)
      BY <1>2, <2>1, <2>2, <2>6, <2>8, <3>4 DEF Turns, WalksOn
    <3>6. ViewOf(stack') \in ViewMap
      BY <3>4 DEF Turns
    <3>7. PICK rank \in [Conns -> Int] : Groups(mem.conn, mem.head, ViewOf(stack), rank)
      BY <1>2 DEF GroupsOK
    <3>8. Groups(mem.conn, mem.head, ViewOf(stack'), rank)
      BY <1>2, <2>1, <3>5, <3>6, <3>7, GroupWalk
    <3>9. GroupsOK(mem.conn, mem.head, ViewOf(stack'))
      BY <3>7, <3>8 DEF GroupsOK
    <3>10. Sound(mem, stack')
      BY <1>2, <2>5, <3>3, <3>9, SoundStack
    <3> QED
      BY <3>3, <3>10 DEF Inv
  <2> QED
    BY <2>7, <2>8
<1> QED
  BY <1>5, <1>6

-----------------------------------------------------------------------------
(* Attempts.                                                               *)

\* A step that leaves the stacks alone.
LEMMA SoundMem ==
  ASSUME NEW m, NEW st, Sound(m, st), NEW k \in Mem,
         \A x \in Loops : Once(k.ready[x]),
         Core(k.conn, k.req, k.cache, QueueOf(k.ready), ViewOf(st)),
         GroupsOK(k.conn, k.head, ViewOf(st)), KeepOK(k.conn, k.keep),
         \A x \in Loops : ~Dispatching(st[x]) =>
            WakeOK(k.conn, k.req, QueueOf(k.ready), k.wake, x),
         OwnOK(k.conn, k.req)
  PROVE  Sound(k, st)
  BY DEF Sound, Typed, StacksOK, CoreOK, WakesOK

\* What is left of stack s holds on to the same but for drains and walks.
Keeps(s, b) ==
  /\ Good(b) /\ (Dispatching(b) <=> Dispatching(s))
  /\ View(b).borrow = View(s).borrow /\ View(b).hit = View(s).hit
  /\ View(b).closing = View(s).closing /\ View(b).free = View(s).free
  /\ View(b).walk \subseteq View(s).walk

\* Connect c of loop l handles its result, or the failure of an attempt.
Handles(m, st, l, c, k, b) ==
  LET s == m.conn[c]
      t == k.conn[c]
  IN  /\ s.life = "live" /\ s.loop = l /\ s.told = 0
      /\ k \in Mem /\ SameBut(m, k, {"conn", "keep"}) /\ Only(m.conn, k.conn, c)
      /\ ConnBut(s, t, {"pending", "own", "addr", "att"})
      /\ ~t.pending /\ (t.own => s.own)
      /\ Keeps(st[l], b)
      /\ s.pending => /\ k.keep = [m.keep EXCEPT ![l] = m.keep[l] - 1]
                      /\ c \in View(st[l]).drain /\ View(b).drain = View(st[l]).drain \ {c}
      /\ ~s.pending => k.keep = m.keep /\ View(b).drain = View(st[l]).drain

\* It goes on with attempts.
LEMMA SoundMoved ==
  ASSUME NEW m, NEW st, Sound(m, st), NEW l \in Loops, NEW c \in Conns,
         NEW k, NEW b, Handles(m, st, l, c, k, b), k.conn[c].att # NoAttempts,
         NEW st2, st2 = [st EXCEPT ![l] = b]
  PROVE  Sound(k, st2)
<1> DEFINE s == m.conn[c]
           t == k.conn[c]
           V == ViewOf(st)
           Q == QueueOf(m.ready)
           V2 == ViewOf(st2)
<1>0. /\ m \in Mem /\ st \in [Loops -> Seq(Frame)]
      /\ m.conn \in ConnMap /\ m.req \in ReqMap /\ m.cache \in SUBSET Reqs
      /\ m.head \in [Loops -> Ptr] /\ m.keep \in [Loops -> Int]
      /\ \A x \in Loops : Once(m.ready[x])
      /\ Q \in QueueMap /\ V \in ViewMap /\ V[l] = View(st[l])
      /\ Core(m.conn, m.req, m.cache, Q, V)
      /\ GroupsOK(m.conn, m.head, V) /\ KeepOK(m.conn, m.keep)
      /\ \A x \in Loops : ~Dispatching(st[x]) => WakeOK(m.conn, m.req, Q, m.wake, x)
      /\ OwnOK(m.conn, m.req)
  BY SoundParts
<1>1. /\ s.life = "live" /\ s.loop = l /\ s.told = 0
      /\ k \in Mem /\ SameBut(m, k, {"conn", "keep"}) /\ Only(m.conn, k.conn, c)
      /\ ConnBut(s, t, {"pending", "own", "addr", "att"})
      /\ ~t.pending /\ t.att # NoAttempts /\ (t.own => s.own)
      /\ Keeps(st[l], b)
      /\ s.pending => k.keep = [m.keep EXCEPT ![l] = m.keep[l] - 1]
      /\ ~s.pending => k.keep = m.keep
  BY DEF Handles
<1>2. /\ Turns(V, V2, l, View(b))
      /\ Good(b) /\ (Dispatching(b) <=> Dispatching(st[l]))
      /\ View(b).borrow = V[l].borrow /\ View(b).hit = V[l].hit
      /\ View(b).closing = V[l].closing /\ View(b).free = V[l].free
      /\ View(b).walk \subseteq V[l].walk
      /\ s.pending => c \in V[l].drain /\ View(b).drain = V[l].drain \ {c}
      /\ ~s.pending => View(b).drain = V[l].drain
  BY <1>0, <1>1, ViewAt DEF Keeps, Handles
<1>8. /\ k.conn \in ConnMap /\ k.req = m.req /\ k.cache = m.cache
      /\ k.ready = m.ready /\ k.head = m.head /\ k.wake = m.wake
      /\ QueueOf(k.ready) = Q
  BY <1>1, MemParts DEF SameBut
<1> HIDE DEF V2, V, Q
<1>9. /\ \A d \in Conns \ {c} : k.conn[d] = m.conn[d]
      /\ t.life = "live" /\ t.loop = l /\ t.req = s.req /\ t.linked = s.linked /\ t.np = s.np
      /\ t.pp = s.pp /\ t.closed = s.closed /\ t.told = s.told
  <2>1. DOMAIN m.conn = Conns
    BY <1>0 DEF ConnMap
  <2> QED
    BY <1>1, <2>1 DEF Only, ConnBut
<1>10. \A d \in Conns \ {c} : SameConn(m.conn[d], k.conn[d])
  BY <1>9 DEF SameConn
<1>11. /\ ConnOK(s, m.req) /\ WaitOK(m.conn, m.req, Q, V, c) /\ s.req \in Reqs /\ ~s.closed /\ s.linked
       /\ s.pending \in BOOLEAN
  BY <1>0, <1>1 DEF Core, ConnInv, WaitInv, ConnOK, ConnMap, ConnRecord
<1>r. m.req[s.req].result # -1
  <2>1. CASE s.pending
    BY <1>0, <1>2, <2>1, QueuedHolds
  <2>2. CASE ~s.pending
    BY <1>1, <1>11, <2>2 DEF ConnOK
  <2> QED
    BY <2>1, <2>2
<1>12. Core(k.conn, k.req, k.cache, Q, V2)
  <2>1. GoesOn(s, t) /\ ConnOK(t, m.req)
    BY <1>1, <1>9, <1>11, <1>r DEF GoesOn, ConnOK
  <2>2. /\ V2 \in ViewMap /\ V2[l] = View(b) /\ \A x \in Loops \ {l} : V2[x] = V[x]
    BY <1>2 DEF Turns
  <2>3. \/ /\ t.pending = s.pending /\ t.life = s.life
           /\ \A x \in Loops : V2[x].drain = V[x].drain
        \/ /\ s.pending /\ ~t.pending /\ c \in V[s.loop].drain
           /\ \A x \in Loops : V2[x].drain = V[x].drain \ {c}
    <3>1. CASE s.pending
      <4>1. \A x \in Loops \ {l} : c \notin V[x].drain
        BY <1>1, <1>11 DEF WaitOK
      <4>2. \A x \in Loops : V2[x].drain = V[x].drain \ {c}
        BY <1>2, <2>2, <3>1, <4>1
      <4>3. c \in V[s.loop].drain
        BY <1>1, <1>2, <3>1
      <4> QED
        BY <1>1, <3>1, <4>2, <4>3
    <3>2. CASE ~s.pending
      <4>1. t.pending = s.pending
        BY <1>0, <1>1, <1>8, <3>2 DEF ConnMap, ConnRecord
      <4> QED
        BY <1>1, <1>2, <1>9, <2>2, <3>2, <4>1
    <3> QED
      BY <3>1, <3>2
  <2>4. \A x \in Loops :
          /\ V2[x].borrow = V[x].borrow /\ V2[x].hit = V[x].hit
          /\ V2[x].closing = V[x].closing /\ V2[x].free = V[x].free
    BY <1>2, <2>2
  <2>5. \A x \in Loops : c \notin V[x].closing /\ c \notin V[x].free
    BY <1>0, <1>1 DEF Core, LeadInv, LeadOK
  <2>6. Moves(m.conn, m.req, V, k.conn, V2, c)
    BY <1>1, <1>9, <1>10, <2>1, <2>3, <2>4, <2>5 DEF Moves
  <2>7. Core(k.conn, m.req, m.cache, Q, V2)
    BY <1>0, <1>8, <2>2, <2>6, CoreOne
  <2> QED
    BY <1>8, <2>7
<1>13. GroupsOK(k.conn, k.head, V2)
  <2>1. PICK rank \in [Conns -> Int] : Groups(m.conn, m.head, V, rank)
    BY <1>0 DEF GroupsOK
  <2>2. \A d \in Conns : /\ SameLinks(m.conn[d], k.conn[d])
                         /\ Stays(m.conn[d]) => Stays(k.conn[d])
                         /\ k.conn[d].told = 0 => m.conn[d].told = 0
    BY <1>1, <1>9 DEF SameLinks, Stays
  <2>3. V2 \in ViewMap /\ \A x \in Loops : V2[x].walk \subseteq V[x].walk
    BY <1>2 DEF Turns
  <2>4. Groups(k.conn, k.head, V2, rank)
    BY <1>0, <1>8, <2>1, <2>2, <2>3, GroupSame, ZenonT(20)
  <2> QED
    BY <2>1, <2>4 DEF GroupsOK
<1>14. KeepOK(k.conn, k.keep)
  <2>1. \A x \in Loops : m.keep[x] = Cardinality(Kept(m.conn, x))
    BY <1>0 DEF KeepOK
  <2>2. ~Waits(t) /\ (Waits(s) <=> s.pending)
    BY <1>1, <1>9, <1>11 DEF Waits
  <2>3. \A d \in Conns \ {c} : Waits(k.conn[d]) = Waits(m.conn[d]) /\ k.conn[d].loop = m.conn[d].loop
    BY <1>9
  <2>4. CASE s.pending
    <3>1. OneWaits(m.conn, m.keep, k.conn, k.keep, l, c)
      BY <1>1, <2>2, <2>3, <2>4 DEF OneWaits
    <3> QED
      BY <1>0, <3>1, KeepOne
  <2>5. CASE ~s.pending
    <3>1. \A x \in Loops : Kept(k.conn, x) = Kept(m.conn, x)
      BY <1>9, <2>2, <2>3, <2>5, KeepSame
    <3> QED
      BY <1>1, <2>1, <2>5, <3>1 DEF KeepOK
  <2> QED
    BY <2>4, <2>5
<1>16. \A x \in Loops : ~Dispatching(st[x]) => WakeOK(k.conn, k.req, Q, k.wake, x)
  <2>1. \A d \in Conns : m.conn[d].life = "live" /\ k.conn[d].life = "live" /\ k.conn[d].pending =>
          k.conn[d].own = m.conn[d].own /\ k.conn[d].req = m.conn[d].req
    BY <1>1, <1>9
  <2>2. \A x \in Loops : Q[x] \subseteq Q[x]
    OBVIOUS
  <2>3. ASSUME NEW x \in Loops, WakeOK(m.conn, m.req, Q, m.wake, x)
        PROVE  WakeOK(k.conn, m.req, Q, m.wake, x)
    BY <1>0, <1>8, <1>12, <2>1, <2>2, <2>3, WakeSame
  <2> QED
    BY <1>0, <1>8, <2>3
<1>17. OwnOK(k.conn, k.req)
  <2>1. \A d \in Conns : k.conn[d].own => m.conn[d].own
    BY <1>1, <1>9
  <2> QED
    BY <1>0, <1>8, <2>1, OwnSame
<1>18. \A x \in Loops : Once(k.ready[x])
  BY <1>0, <1>8
<1>19. Core(k.conn, k.req, k.cache, QueueOf(k.ready), ViewOf(st2)) /\ GroupsOK(k.conn, k.head, ViewOf(st2))
  BY <1>8, <1>12, <1>13 DEF V2
<1>20. /\ \A x \in Loops \ {l} : ~Dispatching(st[x]) => WakeOK(k.conn, k.req, QueueOf(k.ready), k.wake, x)
       /\ ~Dispatching(b) => WakeOK(k.conn, k.req, QueueOf(k.ready), k.wake, l)
  BY <1>2, <1>8, <1>16
<1>21. k \in Mem /\ Good(b)
  BY <1>1, <1>2
<1> QED
  BY <1>14, <1>17, <1>18, <1>19, <1>20, <1>21, SoundStep, Zenon

\* ... or it is closed.
LEMMA HandledClose ==
  ASSUME NEW m, NEW st, Sound(m, st), NEW l \in Loops, NEW c \in Conns,
         NEW n, NEW b, Handles(m, st, l, c, n, b), NoConnect(b),
         NEW o, o = us_connecting_socket_close(n, c)
  PROVE  Sound(o.m, [st EXCEPT ![l] = o.f \o b])
<1> DEFINE s == m.conn[c]
           r == s.req
           u == n.conn[c]
           k == o.m
           t == k.conn[c]
           Q == QueueOf(m.ready)
           V == ViewOf(st)
<1>0. /\ m \in Mem /\ m.conn \in ConnMap /\ m.req \in ReqMap
      /\ Q \in QueueMap /\ V \in ViewMap /\ V[l] = View(st[l])
      /\ Core(m.conn, m.req, m.cache, Q, V)
  BY SoundParts
<1>1. /\ s.life = "live" /\ s.loop = l /\ s.told = 0
      /\ n \in Mem /\ SameBut(m, n, {"conn", "keep"}) /\ Only(m.conn, n.conn, c)
      /\ ConnBut(s, u, {"pending", "own", "addr", "att"})
      /\ ~u.pending /\ (u.own => s.own) /\ Keeps(st[l], b)
      /\ s.pending => n.keep = [m.keep EXCEPT ![l] = m.keep[l] - 1]
      /\ ~s.pending => n.keep = m.keep
  BY DEF Handles
<1>2. /\ s.pending => c \in V[l].drain /\ View(b).drain = V[l].drain \ {c}
      /\ ~s.pending => View(b).drain = V[l].drain
  BY <1>0 DEF Handles
<1>3. Rests(st[l], b) /\ WalksPast(V[l].walk, View(b).walk, c, s.np)
  BY <1>0, <1>1 DEF Keeps, Rests, WalksPast
<1> HIDE DEF V, Q
<1>4. /\ ConnOK(s, m.req) /\ WaitOK(m.conn, m.req, Q, V, c)
      /\ ~s.closed /\ r \in Reqs /\ s.pending \in BOOLEAN
  BY <1>0, <1>1 DEF Core, ConnInv, WaitInv, ConnOK, ConnMap, ConnRecord
<1>5. /\ m.req[r].result # -1 /\ c \notin m.req[r].moved /\ c \notin Q[l]
      /\ View(b).drain = V[l].drain \ {c}
  <2>1. CASE s.pending
    BY <1>0, <1>2, <2>1, QueuedHolds
  <2>2. CASE ~s.pending
    <3>1. m.req[r].result # -1
      BY <1>1, <1>4, <2>2 DEF ConnOK
    <3>2. c \notin m.req[r].moved /\ c \notin Q[l] /\ c \notin V[l].drain
      BY <1>4, <2>2 DEF WaitOK
    <3> QED
      BY <1>2, <2>2, <3>1, <3>2
  <2> QED
    BY <2>1, <2>2
<1>6. c \notin m.req[r].notify
  BY <1>0, <1>4, <1>5 DEF Core, RefInv, RefOK
<1>7. /\ u.life = "live" /\ u.loop = l /\ u.req = r /\ ~u.closed /\ u.told = 0
      /\ n.req = m.req /\ n.cache = m.cache
  BY <1>1, <1>4 DEF ConnBut, SameBut
<1>8. /\ Closes(n, k, c) /\ k.keep = n.keep /\ o.f = <<User, [k |-> "free", c |-> c]>>
      /\ ClosesNow(n, k, c)
  BY <1>1, <1>4, <1>7, CloseEffect
<1>9. /\ ~t.pending /\ t.req = Null
      /\ \E N \in {{}, {c}} : Loosens(m.req, m.cache, k.req, k.cache, r, N)
  BY <1>4, <1>7, <1>8, Bounds DEF ClosesNow
<1>10. GivesBack(m.req, m.cache, k.req, k.cache, r, c)
  BY <1>6, <1>9 DEF GivesBack
<1>11. /\ k \in Mem /\ SameBut(n, k, {"conn", "req", "cache", "keep"}) /\ Only(n.conn, k.conn, c)
       /\ ConnBut(u, t, {"closed", "att", "pending", "req", "told"})
       /\ t.closed /\ t.att = NoAttempts /\ t.told = 1
  BY <1>7, <1>8 DEF Closes
<1>12. SameBut(m, k, {"conn", "req", "cache", "keep"})
  BY <1>1, <1>11 DEF SameBut
<1>13. Only(m.conn, k.conn, c)
  <2>1. DOMAIN m.conn = Conns /\ DOMAIN n.conn = Conns
    BY <1>0, <1>1, MemParts DEF ConnMap
  <2> QED
    BY <1>1, <1>11, <2>1 DEF Only
<1>14. /\ ConnBut(s, t, {"closed", "att", "pending", "req", "told", "own", "addr"})
       /\ t.own => s.own
  BY <1>1, <1>11 DEF ConnBut
<1> HIDE DEF k
<1>15. ClosedBy(m, st, l, c, k, b, "free")
  BY <1>1, <1>3, <1>5, <1>8, <1>9, <1>10, <1>11, <1>12, <1>13, <1>14, Zenon DEF ClosedBy, V, Q
<1>16. Sound(k, [st EXCEPT ![l] = <<User, [k |-> "free", c |-> c]>> \o b])
  BY <1>15, SoundClosed
<1> QED
  BY <1>8, <1>16 DEF k

\* Nothing is tried exactly if there are no attempts.
LEMMA NoneTried ==
  ASSUME NEW m \in Mem, NEW c \in Conns
  PROVE  Trying(m, c) = {} <=> m.conn[c].att = NoAttempts
  BY MemParts DEF Trying, NoAttempts, ConnMap, ConnRecord

\* A connect whose attempts have all failed is closed.
LEMMA HandledOrClose ==
  ASSUME NEW m, NEW st, Sound(m, st), NEW l \in Loops, NEW c \in Conns,
         NEW n, NEW b, Handles(m, st, l, c, n, b), NoConnect(b),
         NEW o, o = OrClose(n, c)
  PROVE  Sound(o.m, [st EXCEPT ![l] = o.f \o b])
<1>0. n \in Mem /\ Good(b)
  BY DEF Handles, Keeps
<1>1. CASE Trying(n, c) = {}
  <2>1. o = us_connecting_socket_close(n, c)
    BY <1>1 DEF OrClose
  <2> QED
    BY <2>1, HandledClose
<1>2. CASE Trying(n, c) # {}
  <2>1. o.m = n /\ o.f = <<>> /\ n.conn[c].att # NoAttempts
    BY <1>0, <1>2, NoneTried DEF OrClose, Outcome
  <2>2. o.f \o b = b
    BY <1>0, <2>1, ConcatEmptySeq DEF Good
  <2>3. Sound(n, [st EXCEPT ![l] = b])
    BY <2>1, SoundMoved
  <2> QED
    BY <2>1, <2>2, <2>3
<1> QED
  BY <1>1, <1>2

\* start_connections changes only what its connect tries.
LEMMA StartEffect ==
  ASSUME NEW m \in Mem, NEW c \in Conns, m.conn[c].req \in Reqs, NEW count,
         NEW n \in StartConnections(m, c, count)
  PROVE  /\ n \in Mem /\ SameBut(m, n, {"conn"}) /\ Only(m.conn, n.conn, c)
         /\ ConnBut(m.conn[c], n.conn[c], {"addr", "att"})
<1> DEFINE from == m.conn[c].addr
           top == m.req[m.conn[c].req].result
<1>1. from \in Int /\ top \in Int /\ m.conn[c].att \in [Addrs -> {"none", "pending", "ready"}]
  BY MemParts DEF ConnMap, ConnRecord, ReqMap, ReqRecord
<1> DEFINE stops(S, to) == IF Cardinality(S) = count THEN to - 1 \in S ELSE to = top + 1
           X == {x \in (SUBSET (from..top)) \X (from..top+1) :
                   /\ x[1] \subseteq from..x[2]-1
                   /\ Cardinality(x[1]) <= count
                   /\ stops(x[1], x[2])}
           F(x) == [m EXCEPT !.conn[c].addr = x[2],
                             !.conn[c].att = [i \in Addrs |-> IF i \in x[1] THEN "pending"
                                                              ELSE @[i]]]
<1>a. n \in {F(x) : x \in X}
  BY Zenon DEF StartConnections
<1>b. X \subseteq (SUBSET (from..top)) \X (from..top+1)
  OBVIOUS
<1> HIDE DEF X, F
<1>c. PICK x \in (SUBSET (from..top)) \X (from..top+1) : n = F(x)
  BY <1>a, <1>b
<1>2. PICK S \in SUBSET (from..top), to \in from..top+1 : x[1] = S /\ x[2] = to
  OBVIOUS
<1>3. PICK w : w = [i \in Addrs |-> IF i \in S THEN "pending" ELSE m.conn[c].att[i]]
  OBVIOUS
<1>4. to \in Int /\ w \in [Addrs -> {"none", "pending", "ready"}]
  BY <1>1, <1>2, <1>3
<1>5. n = [m EXCEPT !.conn[c].addr = to, !.conn[c].att = w]
  <2>1. m.conn \in ConnMap /\ m.conn[c] \in ConnRecord
    BY MemParts DEF ConnMap
  <2>2. [m EXCEPT !.conn[c].addr = to].conn[c].att = m.conn[c].att
    BY <2>1 DEF ConnMap, ConnRecord, Mem
  <2> QED
    BY <1>2, <1>3, <1>c, <2>2, Zenon DEF F
<1> HIDE DEF from, top
<1>6. PICK a : a = to
  OBVIOUS
<1>7. /\ a \in Int /\ w \in Atts
      /\ Tries(m, n, c, a, w)
  BY <1>4, <1>5, <1>6 DEF Atts, Tries
<1> QED
  BY <1>7, SetTried

\* A stack holds on to what it does.
LEMMA SameStack ==
  ASSUME NEW s, Good(s)
  PROVE  Keeps(s, s)
  BY DEF Keeps

\* A connect with an attempt under way.
LEMMA Attempting ==
  ASSUME NEW m, NEW st, Sound(m, st), NEW c \in Conns, NEW i \in Addrs,
         m.conn[c].att[i] # "none"
  PROVE  /\ m.conn[c].life = "live" /\ m.conn[c].loop \in Loops /\ m.conn[c].told = 0
         /\ ~m.conn[c].pending /\ m.conn[c].req \in Reqs /\ ~m.conn[c].closed
<1>1. m.conn \in ConnMap /\ ConnOK(m.conn[c], m.req)
  BY SoundParts DEF Core, ConnInv
<1>2. m.conn[c].att # NoAttempts
  BY DEF NoAttempts
<1> QED
  BY <1>1, <1>2 DEF ConnOK, ConnMap, ConnRecord

\* One attempt is changed.
SetsOne(m, k, c, i, v) == k = [m EXCEPT !.conn[c].att[i] = v]

\* What an assignment to one attempt changes.
LEMMA OneAttempt ==
  ASSUME NEW m \in Mem, NEW c \in Conns, NEW i \in Addrs, NEW v \in {"none", "pending", "ready"},
         NEW k, SetsOne(m, k, c, i, v)
  PROVE  /\ k \in Mem /\ SameBut(m, k, {"conn"}) /\ Only(m.conn, k.conn, c)
         /\ ConnBut(m.conn[c], k.conn[c], {"att"}) /\ k.conn[c].att[i] = v
<1>1. PICK w : w = [m.conn[c].att EXCEPT ![i] = v]
  OBVIOUS
<1>2. w \in Atts /\ w[i] = v
  BY <1>1, MemParts DEF ConnMap, ConnRecord, Atts
<1>3. SetsAtt(m, k, c, w)
  BY <1>1 DEF SetsAtt, SetsOne
<1> QED
  BY <1>2, <1>3, SetAtt

\* The kernel settles an attempt.
LEMMA KernelStep ==
  ASSUME Inv, NEW c \in Conns, NEW i \in Addrs, Kernel(c, i)
  PROVE  Inv'
<1>1. mem.conn[c].att[i] = "pending" /\ stack' = stack
  BY DEF Kernel
<1>2. PICK k : mem' = k /\ SetsOne(mem, k, c, i, "ready")
  BY DEF Kernel, SetsOne
<1>3. Sound(mem, stack) /\ mem \in Mem /\ stack \in [Loops -> Seq(Frame)]
  BY SoundParts DEF Inv
<1>4. PICK l \in Loops : mem.conn[c].loop = l
  BY <1>1, <1>3, Attempting
<1>5. /\ mem.conn[c].life = "live" /\ mem.conn[c].told = 0 /\ ~mem.conn[c].pending
  BY <1>1, <1>3, Attempting
<1>6. /\ k \in Mem /\ SameBut(mem, k, {"conn"}) /\ Only(mem.conn, k.conn, c)
      /\ ConnBut(mem.conn[c], k.conn[c], {"att"}) /\ k.conn[c].att[i] = "ready"
  BY <1>2, <1>3, OneAttempt
<1>7. Keeps(stack[l], stack[l])
  BY <1>3, SoundParts, SameStack
<1>8. SameBut(mem, k, {"conn", "keep"}) /\ k.keep = mem.keep
  BY <1>6 DEF SameBut
<1>9. /\ ConnBut(mem.conn[c], k.conn[c], {"pending", "own", "addr", "att"})
      /\ ~k.conn[c].pending /\ (k.conn[c].own => mem.conn[c].own)
  BY <1>5, <1>6 DEF ConnBut
<1>10. k.conn[c].att # NoAttempts
  BY <1>6 DEF NoAttempts
<1>11. Handles(mem, stack, l, c, k, stack[l])
  BY <1>4, <1>5, <1>6, <1>7, <1>8, <1>9 DEF Handles
<1>12. stack = [stack EXCEPT ![l] = stack[l]]
  BY <1>3
<1>13. Sound(k, stack)
  BY <1>3, <1>10, <1>11, <1>12, SoundMoved
<1> QED
  BY <1>1, <1>2, <1>13 DEF Inv

\* An attempt has failed.
LEMMA AttemptFailedStep ==
  ASSUME NEW m, NEW st, Sound(m, st), NEW c \in Conns, NEW i \in Addrs,
         m.conn[c].att[i] = "ready", NEW l \in Loops, m.conn[c].loop = l,
         NoConnect(st[l]), NEW o \in AttemptFailed(m, c, i)
  PROVE  Sound(o.m, [st EXCEPT ![l] = o.f \o st[l]])
<1>1. PICK a : SetsOne(m, a, c, i, "none")
  BY DEF SetsOne
<1>2. \/ Cardinality(Trying(a, c)) > 1 /\ o = Outcome(a, <<>>)
      \/ \E count : \E n \in StartConnections(a, c, count) : o = OrClose(n, c)
  BY <1>1 DEF AttemptFailed, SetsOne
<1>3. m \in Mem /\ st \in [Loops -> Seq(Frame)] /\ Good(st[l])
  BY SoundParts
<1>5. /\ m.conn[c].life = "live" /\ m.conn[c].told = 0 /\ ~m.conn[c].pending
      /\ m.conn[c].req \in Reqs
  BY Attempting
<1>6. /\ a \in Mem /\ SameBut(m, a, {"conn"}) /\ Only(m.conn, a.conn, c)
      /\ ConnBut(m.conn[c], a.conn[c], {"att"})
  BY <1>1, <1>3, OneAttempt
<1>7. Keeps(st[l], st[l])
  BY <1>3, SameStack
<1>8. ASSUME NEW n \in Mem, SameBut(a, n, {"conn"}), Only(a.conn, n.conn, c),
             ConnBut(a.conn[c], n.conn[c], {"addr", "att"})
      PROVE  Handles(m, st, l, c, n, st[l])
  <2>1. SameBut(m, n, {"conn", "keep"}) /\ n.keep = m.keep
    BY <1>6, <1>8 DEF SameBut
  <2>2. DOMAIN m.conn = Conns /\ DOMAIN a.conn = Conns
    BY <1>3, <1>6, MemParts DEF ConnMap
  <2>3. Only(m.conn, n.conn, c)
    BY <1>6, <1>8, <2>2 DEF Only
  <2>4. /\ ConnBut(m.conn[c], n.conn[c], {"pending", "own", "addr", "att"})
        /\ ~n.conn[c].pending /\ (n.conn[c].own => m.conn[c].own)
    BY <1>5, <1>6, <1>8 DEF ConnBut
  <2> QED
    BY <1>5, <1>7, <2>1, <2>3, <2>4 DEF Handles
<1>9. CASE Cardinality(Trying(a, c)) > 1 /\ o = Outcome(a, <<>>)
  <2>0. Cardinality(Trying(a, c)) > 1 /\ Cardinality({}) = 0
    BY <1>9, FS_EmptySet
  <2>1. Trying(a, c) # {}
    BY <2>0
  <2>2. a.conn[c].att # NoAttempts
    BY <1>6, <2>1, NoneTried
  <2>3. SameBut(a, a, {"conn"}) /\ Only(a.conn, a.conn, c) /\ ConnBut(a.conn[c], a.conn[c], {"addr", "att"})
    BY <1>6 DEF SameBut, Only, ConnBut
  <2>4. Handles(m, st, l, c, a, st[l])
    BY <1>6, <1>8, <2>3
  <2>5. Sound(a, [st EXCEPT ![l] = st[l]])
    BY <2>2, <2>4, SoundMoved
  <2>6. o.m = a /\ o.f \o st[l] = st[l]
    BY <1>3, <1>9, ConcatEmptySeq DEF Outcome, Good
  <2> QED
    BY <2>5, <2>6
<1>10. CASE \E count : \E n \in StartConnections(a, c, count) : o = OrClose(n, c)
  <2>1. PICK count : \E n \in StartConnections(a, c, count) : o = OrClose(n, c)
    BY <1>10
  <2>2. PICK n \in StartConnections(a, c, count) : o = OrClose(n, c)
    BY <2>1
  <2>3. a.conn[c].req \in Reqs
    BY <1>5, <1>6 DEF ConnBut
  <2>4. /\ n \in Mem /\ SameBut(a, n, {"conn"}) /\ Only(a.conn, n.conn, c)
        /\ ConnBut(a.conn[c], n.conn[c], {"addr", "att"})
    BY <1>6, <2>3, StartEffect
  <2>5. Handles(m, st, l, c, n, st[l])
    BY <1>8, <2>4
  <2> QED
    BY <2>2, <2>5, HandledOrClose
<1> QED
  BY <1>2, <1>9, <1>10

\* The first connect of a drain comes out of it.
LEMMA PopDrain ==
  ASSUME NEW s, Good(s), s # <<>>, Head(s).k = "drain",
         NEW b, b = Drains(Tail(Head(s).cs)) \o Tail(s), NEW c, c = Head(Head(s).cs)
  PROVE  /\ c \in Conns /\ c \in View(s).drain /\ Is(View(b).drain, View(s).drain \ {c})
         /\ NoConnect(b) /\ Keeps(s, b)
<1> DEFINE f == Head(s)
           t == Tail(s)
           cs == f.cs
           tl == Tail(cs)
<1>1. /\ f \in Frame /\ s = <<f>> \o t /\ Good(t) /\ NoConnect(t)
      /\ View(s) = Both(Held(f), View(t))
      /\ Once(cs) /\ Held(f).drain \cap View(t).drain = {}
      /\ Dispatching(s) <=> Dispatching(t)
  BY StackTop
<1>2. cs \in Seq(Conns) /\ cs # <<>> /\ f = [k |-> "drain", cs |-> cs]
  BY <1>1, FrameKinds
<1>3. c \in Conns /\ tl \in Seq(Conns) /\ cs = <<c>> \o tl
  BY <1>2, Popped
<1>5. View(t) \in Views
  BY ViewType
<1>b. b = Drains(tl) \o t
  OBVIOUS
<1> HIDE DEF f, t, cs, tl
<1>4. (\A x : In(x, cs) <=> x = c \/ In(x, tl)) /\ Once(tl) /\ ~In(c, tl)
  BY <1>1, <1>3, PushIn
<1>6. /\ Held(f).drain = {x \in Conns : In(x, cs)}
      /\ View(s).drain = View(t).drain \cup {x \in Conns : In(x, cs)}
      /\ View(s).borrow = View(t).borrow /\ View(s).hit = View(t).hit
      /\ View(s).closing = View(t).closing /\ View(s).walk = View(t).walk
      /\ View(s).free = View(t).free
  BY <1>1, <1>2, <1>5, HeldByDrain DEF PushesDrain, Is
<1>7. c \in View(s).drain /\ c \notin View(t).drain
  BY <1>1, <1>3, <1>4, <1>6
<1>8. CASE tl = <<>>
  <2>1. b = t
    BY <1>1, <1>8, <1>b, ConcatEmptySeq DEF Drains, Good
  <2>2. \A x : ~In(x, tl)
    BY <1>8, NoneIn
  <2>3. View(b).drain = View(s).drain \ {c}
    BY <1>3, <1>4, <1>6, <1>7, <2>1, <2>2
  <2> QED
    BY <1>1, <1>3, <1>6, <1>7, <2>1, <2>3 DEF Keeps, Is
<1>9. CASE tl # <<>>
  <2> DEFINE g == [k |-> "drain", cs |-> tl]
  <2>1. b = <<g>> \o t
    BY <1>9, <1>b, Zenon DEF Drains
  <2>0. /\ g \in Frame /\ g.k = "drain" /\ g.cs = tl
        /\ Is(Held(g).drain, {x \in Conns : In(x, tl)})
        /\ PushesDrain(View(t), Both(Held(g), View(t)), Held(g).drain)
    BY <1>3, <1>5, <1>9, HeldByDrain
  <2> HIDE DEF g
  <2>2. /\ Held(g).drain = {x \in Conns : In(x, tl)}
        /\ Both(Held(g), View(t)).drain = View(t).drain \cup {x \in Conns : In(x, tl)}
        /\ Both(Held(g), View(t)).borrow = View(t).borrow
        /\ Both(Held(g), View(t)).hit = View(t).hit
        /\ Both(Held(g), View(t)).closing = View(t).closing
        /\ Both(Held(g), View(t)).walk = View(t).walk
        /\ Both(Held(g), View(t)).free = View(t).free
    BY <2>0 DEF PushesDrain, Is
  <2>3. Apart(Held(g).drain, View(t).drain)
    BY <1>1, <1>4, <1>6, <2>2 DEF Apart
  <2>4. /\ Good(b) /\ NoConnect(b) /\ View(b) = Both(Held(g), View(t))
        /\ Dispatching(b) <=> Dispatching(t)
    <3>1. g \in Frame /\ g.k = "drain" /\ Once(g.cs) /\ Good(t) /\ NoConnect(t)
      BY <1>1, <1>4, <2>0
    <3>2. /\ Good(<<g>> \o t) /\ NoConnect(<<g>> \o t) /\ View(<<g>> \o t) = Both(Held(g), View(t))
          /\ Dispatching(<<g>> \o t) <=> Dispatching(t)
      BY <2>3, <3>1, StackPush
    <3> QED
      BY <2>1, <3>2
  <2>5. View(b).drain = View(s).drain \ {c}
    BY <1>3, <1>4, <1>6, <1>7, <2>2, <2>4
  <2> QED
    BY <1>1, <1>3, <1>6, <1>7, <2>2, <2>4, <2>5 DEF Keeps, Is
<1> QED
  BY <1>8, <1>9

-----------------------------------------------------------------------------
(* Connects come off their group.                                          *)

\* What a connect that waits in a queue keeps, and no connect gets.
Carries(s, t) ==
  /\ t.own => s.own
  /\ s.life = "live" /\ t.life = "live" /\ t.pending => t.own = s.own /\ t.req = s.req

\* A step of loop l that queues nothing.
LEMMA SoundRest ==
  ASSUME NEW m, NEW st, Sound(m, st), NEW l \in Loops,
         NEW k \in Mem, k.ready = m.ready, k.wake = m.wake, KeepOK(k.conn, k.keep),
         NEW b, Good(b), Dispatching(st[l]) => Dispatching(b),
         NEW st2, st2 = [st EXCEPT ![l] = b],
         Core(k.conn, k.req, k.cache, QueueOf(m.ready), ViewOf(st2)),
         GroupsOK(k.conn, k.head, ViewOf(st2)),
         \A d \in Conns : Carries(m.conn[d], k.conn[d]),
         \A r \in Reqs : Fades(m.req[r], k.req[r])
  PROVE  Sound(k, st2)
<1> DEFINE V == ViewOf(st)
           Q == QueueOf(m.ready)
           V2 == ViewOf(st2)
<1>0. /\ m.conn \in ConnMap /\ m.req \in ReqMap
      /\ \A x \in Loops : Once(m.ready[x])
      /\ Core(m.conn, m.req, m.cache, Q, V)
      /\ \A x \in Loops : ~Dispatching(st[x]) => WakeOK(m.conn, m.req, Q, m.wake, x)
      /\ OwnOK(m.conn, m.req)
  BY SoundParts
<1>1. k.req \in ReqMap /\ Core(k.conn, k.req, k.cache, Q, V2)
  BY MemParts
<1> HIDE DEF V, V2, Q
<1>2. \A x \in Loops : ~Dispatching(st[x]) => WakeOK(k.conn, k.req, Q, k.wake, x)
  <2>1. \A d \in Conns : m.conn[d].life = "live" /\ k.conn[d].life = "live" /\ k.conn[d].pending =>
          k.conn[d].own = m.conn[d].own /\ k.conn[d].req = m.conn[d].req
    BY DEF Carries
  <2>2. \A x \in Loops : Q[x] \subseteq Q[x]
    OBVIOUS
  <2>3. \A r \in Reqs : m.req[r].life = "live" /\ k.req[r].life = "live" => k.req[r].wakes = m.req[r].wakes
    BY DEF Fades
  <2>4. ASSUME NEW x \in Loops, WakeOK(m.conn, m.req, Q, m.wake, x)
        PROVE  WakeOK(k.conn, k.req, Q, m.wake, x)
    BY <1>0, <1>1, <2>1, <2>2, <2>3, <2>4, WakeSame
  <2> QED
    BY <1>0, <2>4
<1>3. OwnOK(k.conn, k.req)
  <2>1. \A d \in Conns : k.conn[d].own => m.conn[d].own
    BY DEF Carries
  <2>2. \A r \in Reqs : k.req[r].notify \cup k.req[r].moved \subseteq m.req[r].notify \cup m.req[r].moved
    BY DEF Fades
  <2> QED
    BY <1>0, <1>1, <2>1, <2>2, OwnSame
<1>4. \A x \in Loops : Once(k.ready[x])
  BY <1>0
<1>5. Core(k.conn, k.req, k.cache, QueueOf(k.ready), ViewOf(st2))
  BY <1>1 DEF V2, Q
<1>6. /\ \A x \in Loops \ {l} : ~Dispatching(st[x]) => WakeOK(k.conn, k.req, QueueOf(k.ready), k.wake, x)
      /\ ~Dispatching(b) => WakeOK(k.conn, k.req, QueueOf(k.ready), k.wake, l)
  BY <1>2 DEF Q
<1> QED
  BY <1>3, <1>4, <1>5, <1>6, SoundStep, ZenonT(20)

\* Connect c comes off its list: only pointers of others change.
ComesOff(conn, conn2, c, F) ==
  /\ \A d \in Conns \ {c} : ConnBut(conn[d], conn2[d], {"np", "pp"})
  /\ ConnBut(conn[c], conn2[c], F)
  /\ ~conn2[c].linked

\* Taking a connect off its list changes only pointers.
LEMMA DetachOff ==
  ASSUME NEW e \in Mem, NEW c \in Conns, NEW x, x = Detach(e, c)
  PROVE  /\ x \in Mem /\ SameBut(e, x, {"conn", "head"})
         /\ ComesOff(e.conn, x.conn, c, {"linked", "np", "pp"})
<1>1. /\ x \in Mem /\ Detached(e.conn, x.conn, c)
      /\ x.req = e.req /\ x.cache = e.cache /\ x.ready = e.ready
      /\ x.wake = e.wake /\ x.keep = e.keep
  BY DetachEffect, ZenonT(20)
<1>2. \A d \in Conns : e.conn[d].linked \in BOOLEAN /\ x.conn[d].linked \in BOOLEAN
  BY <1>1, MemParts DEF ConnMap, ConnRecord
<1>3. IsMem(x)
  BY <1>1, MemParts
<1>4. SameBut(e, x, {"conn", "head"})
  BY <1>1, <1>3 DEF SameBut
<1>5. \A d \in Conns \ {c} : ConnBut(e.conn[d], x.conn[d], {"np", "pp"})
  BY <1>1, <1>2 DEF Detached, ConnBut
<1>6. ConnBut(e.conn[c], x.conn[c], {"linked", "np", "pp"}) /\ ~x.conn[c].linked
  BY <1>1, <1>2 DEF Detached, ConnBut
<1> QED
  BY <1>1, <1>4, <1>5, <1>6 DEF ComesOff

\* us_connecting_socket_free takes a connect off its list and makes it dead.
LEMMA FreeOff ==
  ASSUME NEW e \in Mem, NEW c \in Conns, NEW x, x = Detach(e, c),
         NEW k, k = us_connecting_socket_free(e, c)
  PROVE  /\ k \in Mem /\ SameBut(e, k, {"conn", "head"}) /\ SameBut(x, k, {"conn"})
         /\ ComesOff(e.conn, k.conn, c, {"life", "linked", "np", "pp"})
         /\ k.conn[c].life = "dead"
         /\ Only(x.conn, k.conn, c) /\ ConnBut(x.conn[c], k.conn[c], {"life"})
<1>1. /\ x \in Mem /\ SameBut(e, x, {"conn", "head"})
      /\ ComesOff(e.conn, x.conn, c, {"linked", "np", "pp"})
  BY DetachOff
<1>2. k = [x EXCEPT !.conn[c].life = "dead"]
  BY DEF us_connecting_socket_free
<1>3. /\ k \in Mem /\ SameBut(x, k, {"conn"}) /\ Only(x.conn, k.conn, c)
      /\ ConnBut(x.conn[c], k.conn[c], {"life"}) /\ k.conn[c].life = "dead"
  BY <1>1, <1>2, SetDead, Zenon
<1>4. DOMAIN x.conn = Conns
  BY <1>1, MemParts DEF ConnMap
<1>5. SameBut(e, k, {"conn", "head"})
  BY <1>1, <1>3 DEF SameBut
<1>6. \A d \in Conns \ {c} : k.conn[d] = x.conn[d]
  BY <1>3, <1>4 DEF Only
<1>7. ConnBut(e.conn[c], k.conn[c], {"life", "linked", "np", "pp"}) /\ ~k.conn[c].linked
  BY <1>1, <1>3 DEF ComesOff, ConnBut
<1>8. ComesOff(e.conn, k.conn, c, {"life", "linked", "np", "pp"})
  BY <1>1, <1>6, <1>7 DEF ComesOff
<1> QED
  BY <1>3, <1>5, <1>8

\* Memory m becomes e, which changes nothing about lists, then connect c comes
\* off its list, and is dead or not.
Frees(m, e, k, c) ==
  /\ e \in Mem /\ e.head = m.head /\ Only(m.conn, e.conn, c)
  /\ ConnBut(m.conn[c], e.conn[c], {"pending", "own", "att", "told", "req"})
  /\ e.conn[c].told = 1
  /\ k = us_connecting_socket_free(e, c) \/ k = Detach(e, c)

Fewer(V, V2) == \A x \in Loops : V2[x].walk \subseteq V[x].walk

\* The lists and walks are in order when a connect has come off its list.
LEMMA GroupsFreed ==
  ASSUME NEW m \in Mem, NEW c \in Conns, NEW e, NEW k, Frees(m, e, k, c),
         NEW V \in ViewMap, NEW V2 \in ViewMap, GroupsOK(m.conn, m.head, V), Fewer(V, V2),
         NEW l \in Loops, m.conn[c].loop = l,
         V2[l].walk = {} \/ m.conn[c].closed \/ m.conn[c].life = "dead" \/ k = Detach(e, c)
  PROVE  GroupsOK(k.conn, k.head, V2)
<1>0. /\ e \in Mem /\ e.head = m.head /\ Only(m.conn, e.conn, c)
      /\ ConnBut(m.conn[c], e.conn[c], {"pending", "own", "att", "told", "req"})
      /\ e.conn[c].told = 1
  BY DEF Frees
<1>1. PICK rank \in [Conns -> Int] : Groups(m.conn, m.head, V, rank)
  BY DEF GroupsOK
<1>2. /\ m.conn \in ConnMap /\ e.conn \in ConnMap /\ m.head \in [Loops -> Ptr]
      /\ DOMAIN m.conn = Conns
  BY <1>0, MemParts DEF ConnMap
<1>3. \A d \in Conns : /\ SameLinks(m.conn[d], e.conn[d])
                       /\ Stays(m.conn[d]) => Stays(e.conn[d])
                       /\ e.conn[d].told = 0 => m.conn[d].told = 0
  BY <1>0, <1>2 DEF Only, ConnBut, SameLinks, Stays
<1>4. \A x \in Loops : V2[x].walk \subseteq V[x].walk
  BY DEF Fewer
<1>5. Groups(e.conn, e.head, V2, rank)
  BY <1>0, <1>1, <1>2, <1>3, <1>4, GroupSame
<1>6. PICK x : x = Detach(e, c)
  OBVIOUS
<1>7. Groups(x.conn, x.head, V2, rank)
  BY <1>0, <1>5, <1>6, GroupUnlink
<1>8. CASE k = x
  BY <1>7, <1>8 DEF GroupsOK
<1>9. CASE k = us_connecting_socket_free(e, c) /\ k # x
  <2>1. /\ x \in Mem /\ ComesOff(e.conn, x.conn, c, {"linked", "np", "pp"})
    BY <1>0, <1>6, DetachOff
  <2>2. /\ k \in Mem /\ SameBut(x, k, {"conn"}) /\ Only(x.conn, k.conn, c)
        /\ ConnBut(x.conn[c], k.conn[c], {"life"}) /\ k.conn[c].life = "dead"
    BY <1>0, <1>6, <1>9, FreeOff
  <2>3. x.conn \in ConnMap /\ k.conn \in ConnMap /\ x.head \in [Loops -> Ptr] /\ k.head = x.head
        /\ DOMAIN x.conn = Conns
    BY <2>1, <2>2, MemParts DEF ConnMap, SameBut
  <2>4. \A d \in Conns \ {c} : k.conn[d] = x.conn[d]
    BY <2>2, <2>3 DEF Only
  <2>5. \A d \in Conns : SameLinks(x.conn[d], k.conn[d]) /\ (k.conn[d].told = 0 => x.conn[d].told = 0)
    BY <2>2, <2>4 DEF ConnBut, SameLinks
  <2>6. /\ x.conn[c].loop = l /\ x.conn[c].closed = m.conn[c].closed
        /\ k.conn[c].closed = x.conn[c].closed /\ x.conn[c].life = m.conn[c].life
    BY <1>0, <2>1, <2>2, Zenon DEF ComesOff, ConnBut
  <2>7. V2[l].walk = {} \/ m.conn[c].closed \/ m.conn[c].life = "dead"
    BY <1>6, <1>9
  <2>8. \A y \in Loops, d \in Conns : V2[y].walk # {} /\ x.conn[d].loop = y =>
          (Stays(x.conn[d]) => Stays(k.conn[d]))
    BY <2>2, <2>4, <2>6, <2>7 DEF Stays
  <2>9. \A y \in Loops : V2[y].walk \subseteq V2[y].walk
    OBVIOUS
  <2>10. Groups(k.conn, k.head, V2, rank)
    BY <1>1, <1>7, <2>3, <2>5, <2>8, <2>9, GroupSame
  <2> QED
    BY <1>1, <2>10 DEF GroupsOK
<1> QED
  BY <1>6, <1>8, <1>9 DEF Frees

\* The frame that takes a connect off its group is popped.
PopsClose(v, w, c, kk) ==
  /\ w.drain = v.drain /\ w.borrow = v.borrow /\ w.hit = v.hit /\ w.walk = v.walk
  /\ v.closing = w.closing \cup {c}
  /\ v.free = IF kk = "free" THEN w.free \cup {c} ELSE w.free

\* The frame that takes a connect off its group, taken from a stack.
LEMMA PopClose ==
  ASSUME NEW s, Good(s), s # <<>>, Head(s).k \in {"free", "detach"}
  PROVE  /\ Good(Tail(s)) /\ NoConnect(Tail(s)) /\ (Dispatching(s) <=> Dispatching(Tail(s)))
         /\ Head(s).c \in Conns /\ PopsClose(View(s), View(Tail(s)), Head(s).c, Head(s).k)
<1> DEFINE f == Head(s)
           t == Tail(s)
<1>1. /\ f \in Frame /\ Good(t) /\ NoConnect(t) /\ View(s) = Both(Held(f), View(t))
      /\ Dispatching(s) <=> Dispatching(t)
  BY StackTop
<1>2. f.c \in Conns /\ f = [k |-> f.k, c |-> f.c]
  BY <1>1, FrameKinds
<1>3. PICK c \in Conns, kk \in {"free", "detach"} : c = f.c /\ kk = f.k /\ f = [k |-> kk, c |-> c]
  BY <1>2
<1>4. View(t) \in Views
  BY ViewType
<1> HIDE DEF f, t
<1>5. PopsClose(Both(Held([k |-> kk, c |-> c]), View(t)), View(t), c, kk)
  <2>1. Tells(View(t), Both(Held([k |-> kk, c |-> c]), View(t)), c, kk)
    BY <1>4, HeldByClose
  <2> QED
    BY <2>1 DEF PopsClose, Tells
<1> QED
  BY <1>1, <1>3, <1>5 DEF f, t

\* A connect to be freed is one to be taken off.
LEMMA FreeCloses ==
  ASSUME NEW s
  PROVE  View(s).free \subseteq View(s).closing
  BY DEF View, Held

\* What follows the callback of a close.
LEMMA CloseGoesOnStep ==
  ASSUME Inv, NEW l \in Loops, CloseGoesOn(l)
  PROVE  Inv'
<1> DEFINE f == Head(stack[l])
           b == Tail(stack[l])
           V == ViewOf(stack)
           V2 == ViewOf(stack')
           Q == QueueOf(mem.ready)
<1>1. PICK c : c = f.c
  OBVIOUS
<1>2. PICK kk : kk = f.k
  OBVIOUS
<1>3. PICK k : k = IF kk = "free" THEN us_connecting_socket_free(mem, c) ELSE Detach(mem, c)
  OBVIOUS
<1>4. /\ stack[l] # <<>> /\ kk \in {"free", "detach"}
      /\ mem' = k /\ stack' = [stack EXCEPT ![l] = <<>> \o b]
  BY <1>1, <1>2, <1>3 DEF CloseGoesOn, At, Top, Do, Outcome
<1>5. /\ Sound(mem, stack) /\ Good(stack[l]) /\ mem \in Mem
      /\ stack \in [Loops -> Seq(Frame)]
      /\ mem.conn \in ConnMap /\ mem.req \in ReqMap /\ mem.cache \in SUBSET Reqs
      /\ Q \in QueueMap /\ V \in ViewMap /\ V[l] = View(stack[l])
      /\ Core(mem.conn, mem.req, mem.cache, Q, V)
      /\ GroupsOK(mem.conn, mem.head, V) /\ KeepOK(mem.conn, mem.keep)
  BY SoundParts DEF Inv
<1>6. /\ Good(b) /\ (Dispatching(b) <=> Dispatching(stack[l]))
      /\ c \in Conns /\ PopsClose(View(stack[l]), View(b), c, kk)
  BY <1>1, <1>2, <1>4, <1>5, PopClose
<1>7. <<>> \o b = b
  BY <1>6, ConcatEmptySeq DEF Good
<1>8. stack' = [stack EXCEPT ![l] = b]
  BY <1>4, <1>7
<1>9. Turns(V, V2, l, View(b))
  BY <1>5, <1>8, ViewAt
<1> HIDE DEF f, b, V, V2, Q
<1> DEFINE s == mem.conn[c]
           t == k.conn[c]
<1>10. /\ V[l].drain = View(b).drain /\ V[l].borrow = View(b).borrow /\ V[l].hit = View(b).hit
       /\ V[l].walk = View(b).walk /\ V[l].closing = View(b).closing \cup {c}
       /\ V[l].free = IF kk = "free" THEN View(b).free \cup {c} ELSE View(b).free
  BY <1>5, <1>6 DEF PopsClose
<1>11. /\ V2 \in ViewMap /\ V2[l] = View(b) /\ \A x \in Loops \ {l} : V2[x] = V[x]
  BY <1>9 DEF Turns
<1>12. /\ s.told = 1 /\ s.loop = l /\ s.life \in {"live", "dead"} /\ (kk = "free" => ~s.pending)
       /\ ConnOK(s, mem.req)
       /\ \A x \in Loops : LeadOK(mem.conn, mem.req, V, x)
  <2>1. \A x \in Loops : LeadOK(mem.conn, mem.req, V, x)
    BY <1>5 DEF Core, LeadInv
  <2>2. c \in V[l].closing /\ (kk = "free" => c \in V[l].free)
    BY <1>10
  <2>3. ConnOK(s, mem.req)
    BY <1>5, <1>6 DEF Core, ConnInv
  <2> QED
    BY <2>1, <2>2, <2>3 DEF LeadOK
<1>13. /\ k \in Mem /\ SameBut(mem, k, {"conn", "head"})
       /\ ComesOff(mem.conn, k.conn, c, {"life", "linked", "np", "pp"})
       /\ kk = "free" => t.life = "dead"
       /\ kk = "detach" => t.life = s.life
  <2>1. CASE kk = "free"
    BY <1>3, <1>5, <1>6, <2>1, FreeOff
  <2>2. CASE kk = "detach"
    <3>1. /\ k \in Mem /\ SameBut(mem, k, {"conn", "head"})
          /\ ComesOff(mem.conn, k.conn, c, {"linked", "np", "pp"})
      BY <1>3, <1>5, <1>6, <2>2, DetachOff
    <3>2. ComesOff(mem.conn, k.conn, c, {"life", "linked", "np", "pp"}) /\ t.life = s.life
      BY <3>1 DEF ComesOff, ConnBut
    <3> QED
      BY <2>2, <3>1, <3>2
  <2> QED
    BY <1>4, <2>1, <2>2
<1>14. /\ k.conn \in ConnMap /\ k.req = mem.req /\ k.cache = mem.cache
       /\ k.ready = mem.ready /\ k.wake = mem.wake /\ k.keep = mem.keep
  BY <1>13, MemParts DEF SameBut
<1>15. \A d \in Conns \ {c} : SameConn(mem.conn[d], k.conn[d]) /\ k.conn[d].own = mem.conn[d].own
  BY <1>13 DEF ComesOff, ConnBut, SameConn
<1>16. /\ t.loop = s.loop /\ t.req = s.req /\ t.pending = s.pending /\ t.closed = s.closed
       /\ t.att = s.att /\ t.told = s.told /\ t.own = s.own /\ ~t.linked
  BY <1>13 DEF ComesOff, ConnBut
<1>17. Moves(mem.conn, mem.req, V, k.conn, V2, c)
  <2>1. GoesOn(s, t)
    BY <1>4, <1>12, <1>13, <1>16, Bounds DEF GoesOn, ConnOK
  <2>2. ConnOK(t, mem.req)
    BY <1>4, <1>12, <1>13, <1>16 DEF ConnOK
  <2>3. \A x \in Loops :
          /\ V2[x].drain = V[x].drain /\ V2[x].borrow = V[x].borrow /\ V2[x].hit = V[x].hit
          /\ V2[x].closing \ {c} = V[x].closing \ {c}
          /\ V2[x].free \ {c} \subseteq V[x].free
          /\ V2[x].closing \subseteq V[x].closing
          /\ V2[x].free \subseteq V[x].free
    BY <1>10, <1>11
  <2>4. \A x \in Loops : c \in V2[x].closing => t.told = 1 /\ t.loop = x
    BY <1>12, <1>16, <2>3 DEF LeadOK
  <2>5. \A x \in Loops : c \in V2[x].free => c \in V2[x].closing /\ ~t.pending
    <3>1. ASSUME NEW x \in Loops, c \in V2[x].free
          PROVE  c \in V2[x].closing
      <4>2. V2[x].free \subseteq V2[x].closing
        <5>1. CASE x = l
          BY <1>11, <5>1, FreeCloses
        <5>2. CASE x # l
          BY <1>11, <1>12, <5>2 DEF LeadOK
        <5> QED
          BY <5>1, <5>2
      <4> QED
        BY <3>1, <4>2
    <3>2. \A x \in Loops : c \in V2[x].free => ~t.pending
      BY <1>12, <1>16, <2>3 DEF LeadOK
    <3> QED
      BY <3>1, <3>2
  <2>6. t.life = s.life \/ ~s.pending
    BY <1>4, <1>12, <1>13
  <2> QED
    BY <1>15, <1>16, <2>1, <2>2, <2>3, <2>4, <2>5, <2>6 DEF Moves
<1>18. Core(k.conn, mem.req, mem.cache, Q, V2)
  BY <1>5, <1>6, <1>11, <1>14, <1>17, CoreOne
<1>19. GroupsOK(k.conn, k.head, V2)
  <2>1. Frees(mem, mem, k, c)
    BY <1>3, <1>5, <1>12 DEF Frees, Only, ConnBut
  <2>2. Fewer(V, V2)
    BY <1>10, <1>11 DEF Fewer
  <2>3. s.closed \/ s.life = "dead"
    BY <1>12 DEF ConnOK
  <2> QED
    BY <1>5, <1>6, <1>11, <1>12, <2>1, <2>2, <2>3, GroupsFreed
<1>20. KeepOK(k.conn, k.keep)
  <2>1. ~Waits(s) /\ ~Waits(t)
    BY <1>12, <1>16 DEF ConnOK, Waits
  <2>2. \A d \in Conns \ {c} : (Waits(mem.conn[d]) <=> Waits(k.conn[d])) /\ k.conn[d].loop = mem.conn[d].loop
    BY <1>15 DEF SameConn, Waits
  <2>3. \A x \in Loops : Kept(k.conn, x) = Kept(mem.conn, x)
    BY <2>1, <2>2, KeepSame
  <2> QED
    BY <1>5, <1>14, <2>3 DEF KeepOK
<1>21. \A d \in Conns : Carries(mem.conn[d], k.conn[d])
  BY <1>15, <1>16 DEF Carries, SameConn
<1>22. \A r \in Reqs : Fades(mem.req[r], k.req[r])
  BY <1>14 DEF Fades
<1>23. Core(k.conn, k.req, k.cache, QueueOf(mem.ready), ViewOf(stack')) /\ GroupsOK(k.conn, k.head, ViewOf(stack'))
  BY <1>14, <1>18, <1>19 DEF Q, V2
<1>24. k \in Mem /\ k.ready = mem.ready /\ k.wake = mem.wake
  BY <1>13, <1>14
<1>25. Sound(k, stack')
  BY <1>5, <1>6, <1>8, <1>20, <1>21, <1>22, <1>23, <1>24, SoundRest
<1> QED
  BY <1>4, <1>25 DEF Inv

\* Connect c of loop l gives back its request, which makes memory e of m, and is
\* freed: it was opened, or its result comes after it was closed.
LetGoBy(m, st, l, c, e, b) ==
  LET s == m.conn[c]
      t == e.conn[c]
  IN  /\ s.life = "live" /\ s.loop = l /\ s.req \in Reqs /\ (s.pending => s.closed)
      /\ e \in Mem /\ SameBut(m, e, {"conn", "req", "cache"}) /\ Only(m.conn, e.conn, c)
      /\ ConnBut(s, t, {"pending", "own", "att", "told", "req"})
      /\ t.told = 1 /\ ~t.pending /\ t.att = NoAttempts /\ (t.own => s.own)
      /\ GivesBack(m.req, m.cache, e.req, e.cache, s.req, c)
      /\ c \notin m.req[s.req].moved /\ c \notin QueueOf(m.ready)[l]
      /\ Keeps(st[l], b) /\ View(b).drain = View(st[l]).drain \ {c}
      /\ View(b).walk = {} \/ s.closed

\* A connect that gave up its request and was told its end is freed.
LEMMA SoundLetGo ==
  ASSUME NEW m, NEW st, Sound(m, st), NEW l \in Loops, NEW c \in Conns,
         NEW e, NEW b, LetGoBy(m, st, l, c, e, b), NEW k, k = us_connecting_socket_free(e, c),
         NEW st2, st2 = [st EXCEPT ![l] = b]
  PROVE  Sound(k, st2)
<1> DEFINE s == m.conn[c]
           r == s.req
           u == e.conn[c]
           t == k.conn[c]
           V == ViewOf(st)
           Q == QueueOf(m.ready)
           V2 == ViewOf(st2)
<1>0. /\ m \in Mem /\ st \in [Loops -> Seq(Frame)]
      /\ m.conn \in ConnMap /\ m.req \in ReqMap /\ m.cache \in SUBSET Reqs
      /\ Q \in QueueMap /\ V \in ViewMap /\ V[l] = View(st[l])
      /\ Core(m.conn, m.req, m.cache, Q, V)
      /\ GroupsOK(m.conn, m.head, V) /\ KeepOK(m.conn, m.keep)
  BY SoundParts
<1>1. /\ s.life = "live" /\ s.loop = l /\ r \in Reqs /\ (s.pending => s.closed)
      /\ e \in Mem /\ SameBut(m, e, {"conn", "req", "cache"}) /\ Only(m.conn, e.conn, c)
      /\ ConnBut(s, u, {"pending", "own", "att", "told", "req"})
      /\ u.told = 1 /\ ~u.pending /\ u.att = NoAttempts /\ (u.own => s.own)
  BY DEF LetGoBy
<1>2. /\ GivesBack(m.req, m.cache, e.req, e.cache, r, c) /\ c \notin m.req[r].moved /\ c \notin Q[l]
      /\ View(b).walk = {} \/ s.closed
  BY DEF LetGoBy
<1>3. /\ Turns(V, V2, l, View(b)) /\ Good(b) /\ (Dispatching(b) <=> Dispatching(st[l]))
      /\ View(b).borrow = V[l].borrow /\ View(b).hit = V[l].hit
      /\ View(b).closing = V[l].closing /\ View(b).free = V[l].free
      /\ View(b).walk \subseteq V[l].walk /\ View(b).drain = V[l].drain \ {c}
  BY <1>0, ViewAt DEF Keeps, LetGoBy
<1> HIDE DEF V, V2, Q
<1>4. PICK x : x = Detach(e, c)
  OBVIOUS
<1>5. /\ k \in Mem /\ SameBut(e, k, {"conn", "head"})
      /\ ComesOff(e.conn, k.conn, c, {"life", "linked", "np", "pp"}) /\ t.life = "dead"
  BY <1>1, <1>4, FreeOff
<1>6. /\ k.conn \in ConnMap /\ k.req \in ReqMap /\ k.req = e.req /\ k.cache = e.cache
      /\ k.ready = m.ready /\ k.wake = m.wake /\ k.keep = m.keep /\ e.head = m.head
  BY <1>1, <1>5, MemParts DEF SameBut
<1>7. \A d \in Conns \ {c} : SameConn(m.conn[d], k.conn[d]) /\ k.conn[d].own = m.conn[d].own
  <2>1. \A d \in Conns \ {c} : e.conn[d] = m.conn[d]
    BY <1>0, <1>1 DEF Only, ConnMap
  <2> QED
    BY <1>5, <2>1 DEF ComesOff, ConnBut, SameConn
<1>8. /\ t.loop = l /\ ~t.pending /\ t.told = 1 /\ t.att = NoAttempts /\ ~t.linked
      /\ (t.own => s.own)
  BY <1>1, <1>5 DEF ComesOff, ConnBut
<1>9. V2 \in ViewMap /\ V2[l] = View(b) /\ \A y \in Loops \ {l} : V2[y] = V[y]
  BY <1>3 DEF Turns
<1>10. WaitOK(m.conn, m.req, Q, V, c)
  BY <1>0 DEF Core, WaitInv
<1>11. Core(k.conn, k.req, k.cache, Q, V2)
  <2>1. LetsGo(s, t)
    BY <1>1, <1>5, <1>8 DEF LetsGo
  <2>2. GivesBack(m.req, m.cache, k.req, k.cache, r, c)
    BY <1>2, <1>6
  <2>3. \A y \in Loops : c \notin Q[y]
    BY <1>1, <1>2, <1>10, Zenon DEF WaitOK
  <2>4. \A y \in Loops \ {l} : c \notin V[y].drain
    BY <1>1, <1>10 DEF WaitOK
  <2>5. \A y \in Loops :
          /\ V2[y].drain = V[y].drain \ {c} /\ V2[y].borrow = V[y].borrow /\ V2[y].hit = V[y].hit
          /\ V2[y].closing = V[y].closing /\ V2[y].free = V[y].free
    BY <1>3, <1>9, <2>4
  <2>6. Leaves(V, V2, s.loop, c, t.linked)
    BY <1>8, <2>5 DEF Leaves
  <2>7. \A d \in Conns \ {c} : SameConn(m.conn[d], k.conn[d])
    BY <1>7
  <2>8. /\ s.life = "live" /\ s.req = r /\ r \in Reqs /\ c \notin m.req[r].moved
        /\ k.conn \in ConnMap /\ k.req \in ReqMap /\ V2 \in ViewMap
    BY <1>1, <1>2, <1>6, <1>9
  <2> QED
    BY <1>0, <2>1, <2>2, <2>3, <2>6, <2>7, <2>8, CoreGiveUp, ZenonT(20)
<1>12. GroupsOK(k.conn, k.head, V2)
  <2>1. Frees(m, e, k, c)
    BY <1>1, <1>6 DEF Frees
  <2>2. Fewer(V, V2)
    BY <1>3, <1>9 DEF Fewer
  <2>3. V2[l].walk = {} \/ s.closed
    BY <1>2, <1>9
  <2>4. V2 \in ViewMap
    BY <1>9
  <2> QED
    BY <1>0, <1>1, <2>1, <2>2, <2>3, <2>4, GroupsFreed
<1>13. KeepOK(k.conn, k.keep)
  <2>1. ~Waits(s) /\ ~Waits(t)
    BY <1>1, <1>8 DEF Waits
  <2>2. \A d \in Conns \ {c} : (Waits(m.conn[d]) <=> Waits(k.conn[d])) /\ k.conn[d].loop = m.conn[d].loop
    BY <1>7 DEF SameConn, Waits
  <2>3. \A y \in Loops : Kept(k.conn, y) = Kept(m.conn, y)
    BY <2>1, <2>2, KeepSame
  <2> QED
    BY <1>0, <1>6, <2>3 DEF KeepOK
<1>14. \A d \in Conns : Carries(m.conn[d], k.conn[d])
  BY <1>5, <1>7, <1>8 DEF Carries, SameConn
<1>15. \A q \in Reqs : Fades(m.req[q], k.req[q])
  <2>1. PICK N : Loosens(m.req, m.cache, k.req, k.cache, r, N)
    BY <1>2, <1>6 DEF GivesBack
  <2> QED
    BY <1>0, <1>1, <2>1, LoosensKeeps
<1>16. Core(k.conn, k.req, k.cache, QueueOf(m.ready), ViewOf(st2)) /\ GroupsOK(k.conn, k.head, ViewOf(st2))
  BY <1>11, <1>12 DEF Q, V2
<1>17. k \in Mem /\ k.ready = m.ready /\ k.wake = m.wake /\ Good(b) /\ (Dispatching(b) <=> Dispatching(st[l]))
  BY <1>3, <1>5, <1>6
<1> QED
  BY <1>13, <1>14, <1>15, <1>16, <1>17, SoundRest

\* An attempt has opened, under nothing but a tick.
LEMMA AttemptOpenedStep ==
  ASSUME NEW m, NEW st, Sound(m, st), NEW c \in Conns, NEW i \in Addrs,
         m.conn[c].att[i] = "ready", NEW l \in Loops, m.conn[c].loop = l,
         st[l] # <<>>, Head(st[l]).k = "tick",
         NEW o, o = AttemptOpened(m, c)
  PROVE  Sound(o.m, [st EXCEPT ![l] = o.f \o st[l]])
<1> DEFINE s == m.conn[c]
           r == s.req
           Q == QueueOf(m.ready)
           V == ViewOf(st)
           b == <<User>> \o st[l]
<1>0. /\ m \in Mem /\ m.conn \in ConnMap /\ m.req \in ReqMap /\ Good(st[l])
      /\ V[l] = View(st[l])
      /\ Core(m.conn, m.req, m.cache, Q, V)
  BY SoundParts
<1>1. s.life = "live" /\ s.told = 0 /\ ~s.pending /\ r \in Reqs
  BY Attempting
<1>2. PICK a : a = [m EXCEPT !.conn[c].att = NoAttempts, !.conn[c].told = @ + 1]
  OBVIOUS
<1>3. PICK e : e = freeaddrinfo(a, r, FALSE)
  OBVIOUS
<1>4. PICK k : k = us_connecting_socket_free(e, c)
  OBVIOUS
<1>5. o.m = k /\ o.f = <<User>>
  BY <1>2, <1>3, <1>4 DEF AttemptOpened, Outcome
<1>6. /\ a \in Mem /\ SameBut(m, a, {"conn"}) /\ Only(m.conn, a.conn, c)
      /\ ConnBut(s, a.conn[c], {"att", "told"})
      /\ a.conn[c].att = NoAttempts /\ a.conn[c].told = s.told + 1
  BY <1>0, <1>2, SetOpened
<1>7. /\ e \in Mem /\ SameBut(a, e, {"req", "cache"})
      /\ Loosens(a.req, a.cache, e.req, e.cache, r, {})
  BY <1>1, <1>3, <1>6, FreeEffect
<1>8. /\ SameBut(m, e, {"conn", "req", "cache"}) /\ e.conn = a.conn
      /\ a.req = m.req /\ a.cache = m.cache
  BY <1>6, <1>7 DEF SameBut
<1> HIDE DEF Q, V
<1>9. /\ m.req[r].result # -1 /\ c \notin m.req[r].moved /\ c \notin Q[l] /\ c \notin V[l].drain
  <2>1. ConnOK(s, m.req) /\ WaitOK(m.conn, m.req, Q, V, c)
    BY <1>0 DEF Core, ConnInv, WaitInv
  <2> QED
    BY <1>1, <2>1 DEF ConnOK, WaitOK
<1>10. c \notin m.req[r].notify
  BY <1>0, <1>1, <1>9 DEF Core, RefInv, RefOK
<1>11. GivesBack(m.req, m.cache, e.req, e.cache, r, c)
  BY <1>7, <1>8, <1>10 DEF GivesBack
<1>12. /\ ConnBut(s, e.conn[c], {"pending", "own", "att", "told", "req"})
       /\ e.conn[c].told = 1 /\ ~e.conn[c].pending /\ e.conn[c].att = NoAttempts
       /\ (e.conn[c].own => s.own) /\ Only(m.conn, e.conn, c)
  BY <1>1, <1>6, <1>8 DEF ConnBut
<1>13. NoConnect(st[l])
  BY <1>0, NoCall
<1>14. Good(b) /\ View(b) = View(st[l]) /\ (Dispatching(b) <=> Dispatching(st[l]))
  BY <1>0, <1>13, PushUser
<1>15. View(st[l]).walk = {}
  <2>1. View(st[l]) = Both(Held(Head(st[l])), View(Tail(st[l]))) /\ View(Tail(st[l])).walk = {}
    BY <1>0, StackTop
  <2>2. Both(Held(Head(st[l])), View(Tail(st[l]))) = View(Tail(st[l]))
    BY HeldByNone, ViewType
  <2> QED
    BY <2>1, <2>2
<1> HIDE DEF b
<1>16. Keeps(st[l], b) /\ View(b).drain = View(st[l]).drain \ {c} /\ View(b).walk = {}
  BY <1>0, <1>9, <1>14, <1>15 DEF Keeps
<1>17. LetGoBy(m, st, l, c, e, b)
  BY <1>1, <1>7, <1>8, <1>9, <1>11, <1>12, <1>16 DEF LetGoBy, Q
<1>18. Sound(k, [st EXCEPT ![l] = b])
  BY <1>4, <1>17, SoundLetGo
<1> QED
  BY <1>5, <1>18 DEF b

\* An attempt opens or fails.
LEMMA DispatchAttemptStep ==
  ASSUME Inv, NEW l \in Loops, DispatchAttempt(l)
  PROVE  Inv'
<1>1. stack[l] # <<>> /\ Head(stack[l]).k = "tick"
  BY DEF DispatchAttempt, Ticks, At, Top
<1>2. PICK x \in Batch(l) :
        \E o \in {AttemptOpened(mem, x[1])} \cup AttemptFailed(mem, x[1], x[2]) : Do(l, o, stack[l])
  BY DEF DispatchAttempt
<1>3. PICK o \in {AttemptOpened(mem, x[1])} \cup AttemptFailed(mem, x[1], x[2]) : Do(l, o, stack[l])
  BY <1>2
<1>4. PICK c \in Conns, i \in Addrs : /\ c = x[1] /\ i = x[2]
                                      /\ mem.conn[c].loop = l /\ mem.conn[c].att[i] = "ready"
  BY <1>2 DEF Batch, Attempts
<1>5. mem' = o.m /\ stack' = [stack EXCEPT ![l] = o.f \o stack[l]]
  BY <1>3 DEF Do
<1>6. Sound(mem, stack) /\ Good(stack[l])
  BY SoundParts DEF Inv
<1>7. NoConnect(stack[l])
  BY <1>1, <1>6, NoCall
<1>8. CASE o = AttemptOpened(mem, c)
  <2>1. Sound(o.m, [stack EXCEPT ![l] = o.f \o stack[l]])
    BY <1>1, <1>4, <1>6, <1>8, AttemptOpenedStep
  <2> QED
    BY <1>5, <2>1 DEF Inv
<1>9. CASE o \in AttemptFailed(mem, c, i)
  <2>1. Sound(o.m, [stack EXCEPT ![l] = o.f \o stack[l]])
    BY <1>4, <1>6, <1>7, <1>9, AttemptFailedStep
  <2> QED
    BY <1>5, <2>1 DEF Inv
<1> QED
  BY <1>3, <1>4, <1>8, <1>9

\* A connect in a drain handles its result.
LEMMA DrainGoesOnStep ==
  ASSUME Inv, NEW l \in Loops, DrainGoesOn(l)
  PROVE  Inv'
<1> DEFINE b == Drains(Tail(Head(stack[l]).cs)) \o Tail(stack[l])
           Q == QueueOf(mem.ready)
           V == ViewOf(stack)
<1>1. PICK c : c = Head(Head(stack[l]).cs)
  OBVIOUS
<1>2. PICK o \in us_internal_socket_after_resolve(mem, c) : Do(l, o, b)
  BY <1>1 DEF DrainGoesOn, Top
<1>3. /\ stack[l] # <<>> /\ Head(stack[l]).k = "drain"
      /\ mem' = o.m /\ stack' = [stack EXCEPT ![l] = o.f \o b]
  BY <1>2 DEF DrainGoesOn, At, Top, Do
<1>4. /\ Sound(mem, stack) /\ Good(stack[l]) /\ mem \in Mem
      /\ mem.conn \in ConnMap /\ mem.req \in ReqMap /\ V[l] = View(stack[l])
      /\ Core(mem.conn, mem.req, mem.cache, Q, V)
  BY SoundParts DEF Inv
<1>5. /\ c \in Conns /\ c \in View(stack[l]).drain /\ Is(View(b).drain, View(stack[l]).drain \ {c})
      /\ NoConnect(b) /\ Keeps(stack[l], b)
  BY <1>1, <1>3, <1>4, PopDrain
<1> HIDE DEF b, Q, V
<1> DEFINE s == mem.conn[c]
           r == s.req
<1>6. /\ s.life = "live" /\ s.pending /\ s.loop = l /\ r \in Reqs
      /\ mem.req[r].result # -1 /\ mem.req[r].notify = {} /\ c \notin mem.req[r].moved /\ c \notin Q[l]
  <2>1. c \in V[l].drain
    BY <1>4, <1>5
  <2> QED
    BY <1>4, <1>5, <2>1, QueuedHolds
<1>7. ConnOK(s, mem.req) /\ s.closed \in BOOLEAN /\ s.told \in {0, 1}
  BY <1>4, <1>5 DEF Core, ConnInv, ConnMap, ConnRecord, ConnOK
<1>8. PICK a : a = [mem EXCEPT !.conn[c].pending = FALSE, !.conn[c].own = FALSE]
  OBVIOUS
<1>9. PICK d : d = [a EXCEPT !.keep[l] = @ - 1]
  OBVIOUS
<1>10. /\ a \in Mem /\ SameBut(mem, a, {"conn"}) /\ Only(mem.conn, a.conn, c)
       /\ ConnBut(s, a.conn[c], {"pending", "own"}) /\ ~a.conn[c].pending /\ ~a.conn[c].own
  BY <1>4, <1>5, <1>8, SetResolved
<1>11. d \in Mem /\ SameBut(a, d, {"keep"}) /\ d.keep = [a.keep EXCEPT ![l] = a.keep[l] - 1]
  BY <1>9, <1>10, SetKeep
<1>12. CASE s.closed
  <2>1. PICK g : g = freeaddrinfo(a, r, FALSE)
    OBVIOUS
  <2>2. PICK e : e = [g EXCEPT !.conn[c].req = Null]
    OBVIOUS
  <2>3. PICK k : k = us_connecting_socket_free(e, c)
    OBVIOUS
  <2>4. o.m = k /\ o.f = <<>>
    <3>1. us_internal_socket_after_resolve(mem, c) = {Outcome(us_connecting_socket_free(
            [freeaddrinfo(a, r, FALSE) EXCEPT !.conn[c].req = Null], c), <<>>)}
      BY <1>8, <1>12, Zenon DEF us_internal_socket_after_resolve
    <3>2. o = Outcome(k, <<>>)
      BY <1>2, <2>1, <2>2, <2>3, <3>1, Zenon
    <3> QED
      BY <3>2 DEF Outcome
  <2>5. /\ g \in Mem /\ SameBut(a, g, {"req", "cache"})
        /\ Loosens(a.req, a.cache, g.req, g.cache, r, {})
    BY <1>6, <1>10, <2>1, FreeEffect
  <2>6. /\ e \in Mem /\ SameBut(g, e, {"conn"}) /\ Only(g.conn, e.conn, c)
        /\ ConnBut(g.conn[c], e.conn[c], {"req"})
    BY <1>5, <2>2, <2>5, SetNoReq
  <2>7. /\ SameBut(mem, e, {"conn", "req", "cache"}) /\ g.conn = a.conn
        /\ a.req = mem.req /\ a.cache = mem.cache /\ e.req = g.req /\ e.cache = g.cache
    BY <1>10, <2>5, <2>6 DEF SameBut
  <2>8. DOMAIN mem.conn = Conns /\ DOMAIN g.conn = Conns
    BY <1>4, <2>5, MemParts DEF ConnMap
  <2>9. Only(mem.conn, e.conn, c)
    BY <1>10, <2>6, <2>7, <2>8 DEF Only
  <2>10. s.told = 1 /\ s.att = NoAttempts
    BY <1>6, <1>7, <1>12 DEF ConnOK
  <2>11. /\ ConnBut(s, e.conn[c], {"pending", "own", "att", "told", "req"})
         /\ e.conn[c].told = 1 /\ ~e.conn[c].pending /\ e.conn[c].att = NoAttempts
         /\ (e.conn[c].own => s.own)
    BY <1>10, <2>6, <2>7, <2>10 DEF ConnBut
  <2>12. GivesBack(mem.req, mem.cache, e.req, e.cache, r, c)
    BY <1>6, <2>5, <2>7 DEF GivesBack
  <2>13. LetGoBy(mem, stack, l, c, e, b)
    BY <1>5, <1>6, <1>12, <2>6, <2>7, <2>9, <2>11, <2>12 DEF LetGoBy, Q, Is
  <2>14. Sound(k, [stack EXCEPT ![l] = b])
    BY <1>4, <1>5, <2>3, <2>13, SoundLetGo
  <2>15. o.f \o b = b
    BY <1>5, <2>4, ConcatEmptySeq DEF Good, Keeps
  <2> QED
    BY <1>3, <2>4, <2>14, <2>15 DEF Inv
<1>13. CASE ~s.closed
  <2>1. s.told = 0
    BY <1>6, <1>7, <1>13 DEF ConnOK
  <2>2. ASSUME NEW n \in Mem, SameBut(d, n, {"conn"}), Only(d.conn, n.conn, c),
               ConnBut(d.conn[c], n.conn[c], {"addr", "att"})
        PROVE  Handles(mem, stack, l, c, n, b)
    <3>1. /\ SameBut(mem, n, {"conn", "keep"}) /\ n.keep = [mem.keep EXCEPT ![l] = mem.keep[l] - 1]
          /\ d.conn = a.conn
      BY <1>10, <1>11, <2>2 DEF SameBut
    <3>2. DOMAIN mem.conn = Conns /\ DOMAIN a.conn = Conns
      BY <1>4, <1>10, MemParts DEF ConnMap
    <3>3. Only(mem.conn, n.conn, c)
      BY <1>10, <2>2, <3>1, <3>2 DEF Only
    <3>4. /\ ConnBut(s, n.conn[c], {"pending", "own", "addr", "att"})
          /\ ~n.conn[c].pending /\ (n.conn[c].own => s.own)
      BY <1>10, <2>2, <3>1 DEF ConnBut
    <3> QED
      BY <1>5, <1>6, <2>1, <3>1, <3>3, <3>4 DEF Handles, Is
  <2>3. CASE mem.req[r].result = 0
    <3>1. o = us_connecting_socket_close(d, c)
      BY <1>2, <1>6, <1>8, <1>9, <1>13, <2>3, Zenon DEF us_internal_socket_after_resolve
    <3>2. SameBut(d, d, {"conn"}) /\ Only(d.conn, d.conn, c) /\ ConnBut(d.conn[c], d.conn[c], {"addr", "att"})
      BY <1>11 DEF SameBut, Only, ConnBut
    <3>3. Handles(mem, stack, l, c, d, b)
      BY <1>11, <2>2, <3>2
    <3>4. Sound(o.m, [stack EXCEPT ![l] = o.f \o b])
      BY <1>4, <1>5, <3>1, <3>3, HandledClose
    <3> QED
      BY <1>3, <3>4 DEF Inv
  <2>4. CASE mem.req[r].result # 0
    <3>1. PICK e : e = [d EXCEPT !.conn[c].addr = 1]
      OBVIOUS
    <3>2. PICK n \in StartConnections(e, c, Concurrent) : o = OrClose(n, c)
      BY <1>2, <1>6, <1>8, <1>9, <1>13, <2>4, <3>1, Zenon DEF us_internal_socket_after_resolve
    <3>3. /\ e \in Mem /\ SameBut(d, e, {"conn"}) /\ Only(d.conn, e.conn, c)
          /\ ConnBut(d.conn[c], e.conn[c], {"addr"})
      BY <1>5, <1>11, <3>1, SetAddr
    <3>4. e.conn[c].req \in Reqs
      <4>1. e.conn[c].req = d.conn[c].req
        BY <3>3 DEF ConnBut
      <4>2. d.conn = a.conn
        BY <1>11 DEF SameBut
      <4>3. a.conn[c].req = r
        BY <1>10 DEF ConnBut
      <4> QED
        BY <1>6, <4>1, <4>2, <4>3
    <3>5. /\ n \in Mem /\ SameBut(e, n, {"conn"}) /\ Only(e.conn, n.conn, c)
          /\ ConnBut(e.conn[c], n.conn[c], {"addr", "att"})
      BY <1>5, <3>3, <3>4, StartEffect
    <3>6. SameBut(d, n, {"conn"})
      BY <3>3, <3>5 DEF SameBut
    <3>7. DOMAIN d.conn = Conns /\ DOMAIN e.conn = Conns
      BY <1>11, <3>3, MemParts DEF ConnMap
    <3>8. Only(d.conn, n.conn, c)
      BY <3>3, <3>5, <3>7 DEF Only
    <3>9. ConnBut(d.conn[c], n.conn[c], {"addr", "att"})
      BY <3>3, <3>5 DEF ConnBut
    <3>10. Handles(mem, stack, l, c, n, b)
      BY <2>2, <3>5, <3>6, <3>8, <3>9
    <3>11. Sound(o.m, [stack EXCEPT ![l] = o.f \o b])
      BY <1>4, <1>5, <3>2, <3>10, HandledOrClose
    <3> QED
      BY <1>3, <3>11 DEF Inv
  <2> QED
    BY <2>3, <2>4
<1> QED
  BY <1>7, <1>12, <1>13

-----------------------------------------------------------------------------
(* Workers, and time.                                                      *)

\* A step that changes only requests and the cache.
LEMMA SoundReqs ==
  ASSUME NEW m, NEW st, Sound(m, st), NEW k \in Mem, SameBut(m, k, {"req", "cache"}),
         Core(m.conn, k.req, k.cache, QueueOf(m.ready), ViewOf(st)),
         \A r \in Reqs : Fades(m.req[r], k.req[r])
  PROVE  Sound(k, st)
<1>1. /\ m.conn \in ConnMap
      /\ Core(m.conn, m.req, m.cache, QueueOf(m.ready), ViewOf(st))
      /\ GroupsOK(m.conn, m.head, ViewOf(st)) /\ KeepOK(m.conn, m.keep)
      /\ \A x \in Loops : Once(m.ready[x])
      /\ \A x \in Loops : ~Dispatching(st[x]) =>
           WakeOK(m.conn, m.req, QueueOf(m.ready), m.wake, x)
      /\ OwnOK(m.conn, m.req)
  BY SoundParts
<1>2. /\ k.conn = m.conn /\ k.ready = m.ready
      /\ k.head = m.head /\ k.wake = m.wake /\ k.keep = m.keep /\ k.req \in ReqMap
  BY MemParts DEF SameBut
<1>3. \A x \in Loops : ~Dispatching(st[x]) =>
        WakeOK(m.conn, k.req, QueueOf(m.ready), m.wake, x)
  <2>1. \A q \in Reqs : m.req[q].life = "live" /\ k.req[q].life = "live" =>
          k.req[q].wakes = m.req[q].wakes
    BY DEF Fades
  <2>2. \A x \in Loops : QueueOf(m.ready)[x] \subseteq QueueOf(m.ready)[x]
    OBVIOUS
  <2>3. ASSUME NEW x \in Loops, WakeOK(m.conn, m.req, QueueOf(m.ready), m.wake, x)
        PROVE  WakeOK(m.conn, k.req, QueueOf(m.ready), m.wake, x)
    BY <1>1, <2>1, <2>2, <2>3, WakeSame
  <2> QED
    BY <1>1, <2>3
<1>4. OwnOK(m.conn, k.req)
  <2>1. \A q \in Reqs : k.req[q].notify \cup k.req[q].moved \subseteq m.req[q].notify \cup m.req[q].moved
    BY DEF Fades
  <2> QED
    BY <1>1, <1>2, <2>1, OwnSame
<1> QED
  BY <1>1, <1>2, <1>3, <1>4, SoundMem

\* A worker sets a result and takes the list.
LEMMA AfterResultStep ==
  ASSUME Inv, NEW r \in Reqs, AfterResult(r)
  PROVE  Inv'
<1>1. /\ mem.req[r].life = "live" /\ mem.req[r].result = -1 /\ stack' = stack
  BY DEF AfterResult, Resolved
<1>2. PICK n \in 0..MaxAddrs :
        mem' = [mem EXCEPT !.req[r].result = n, !.req[r].moved = mem.req[r].notify,
                           !.req[r].notify = {}, !.req[r].refs = @ - 1]
  BY Zenon DEF AfterResult
<1>3. PICK v \in Int : v = n /\ v # -1
  BY <1>2, Bounds
<1>4. PICK k : k = mem'
  OBVIOUS
<1>5. SetsResult(mem, k, r, v)
  BY <1>2, <1>3, <1>4 DEF SetsResult
<1>6. /\ Sound(mem, stack) /\ mem \in Mem
      /\ mem.conn \in ConnMap /\ mem.req \in ReqMap /\ mem.cache \in SUBSET Reqs
      /\ QueueOf(mem.ready) \in QueueMap /\ ViewOf(stack) \in ViewMap
      /\ Core(mem.conn, mem.req, mem.cache, QueueOf(mem.ready), ViewOf(stack))
  BY SoundParts DEF Inv
<1>7. /\ k \in Mem /\ SameBut(mem, k, {"req"}) /\ Only(mem.req, k.req, r)
      /\ ReqBut(mem.req[r], k.req[r], {"result", "moved", "notify", "refs"})
      /\ k.req[r].result = v /\ Is(k.req[r].moved, mem.req[r].notify) /\ Is(k.req[r].notify, {})
      /\ k.req[r].refs = mem.req[r].refs - 1
  BY <1>5, <1>6, SetResult
<1>8. /\ k.conn = mem.conn /\ k.cache = mem.cache /\ k.req \in ReqMap
      /\ SameBut(mem, k, {"req", "cache"})
  BY <1>7, MemParts DEF SameBut
<1>9. /\ \A q \in Reqs \ {r} : k.req[q] = mem.req[q]
      /\ k.req[r].life = "live" /\ k.req[r].result # -1 /\ k.req[r].notify = {}
      /\ k.req[r].moved = mem.req[r].notify /\ k.req[r].refs = mem.req[r].refs - 1
      /\ k.req[r].wakes = mem.req[r].wakes
  BY <1>1, <1>3, <1>6, <1>7 DEF Only, ReqMap, ReqBut, Is
<1>10. Core(mem.conn, k.req, k.cache, QueueOf(mem.ready), ViewOf(stack))
  BY <1>1, <1>6, <1>8, <1>9, CoreResult
<1>11. \A q \in Reqs : Fades(mem.req[q], k.req[q])
  BY <1>9 DEF Fades
<1>13. Sound(k, stack)
  BY <1>6, <1>7, <1>8, <1>10, <1>11, SoundReqs
<1> QED
  BY <1>1, <1>4, <1>13 DEF Inv

\* A request outlives its time.
LEMMA AgeStep ==
  ASSUME Inv, NEW r \in Reqs, Age(r)
  PROVE  Inv'
<1>1. PICK k : k = mem' /\ k = [mem EXCEPT !.req[r].old = TRUE] /\ stack' = stack
  BY DEF Age
<1>6. /\ Sound(mem, stack) /\ mem \in Mem
      /\ mem.conn \in ConnMap /\ mem.req \in ReqMap /\ mem.cache \in SUBSET Reqs
      /\ QueueOf(mem.ready) \in QueueMap /\ ViewOf(stack) \in ViewMap
      /\ Core(mem.conn, mem.req, mem.cache, QueueOf(mem.ready), ViewOf(stack))
  BY SoundParts DEF Inv
<1>7. /\ k \in Mem /\ SameBut(mem, k, {"req"}) /\ Only(mem.req, k.req, r)
      /\ ReqBut(mem.req[r], k.req[r], {"old"})
  BY <1>1, <1>6, SetOld
<1>8. k.cache = mem.cache /\ k.req \in ReqMap /\ SameBut(mem, k, {"req", "cache"})
  BY <1>7, MemParts DEF SameBut
<1>9. \A q \in Reqs : SameReq(mem.req[q], k.req[q]) /\ k.req[q].wakes = mem.req[q].wakes
  BY <1>6, <1>7 DEF Only, ReqMap, ReqBut, SameReq
<1>10. Core(mem.conn, k.req, k.cache, QueueOf(mem.ready), ViewOf(stack))
  <2>1. \A c \in Conns : SameConn(mem.conn[c], mem.conn[c])
    BY DEF SameConn
  <2> QED
    BY <1>6, <1>8, <1>9, <2>1, CoreSame
<1>11. \A q \in Reqs : Fades(mem.req[q], k.req[q])
  BY <1>9 DEF Fades, SameReq
<1>13. Sound(k, stack)
  BY <1>6, <1>7, <1>8, <1>10, <1>11, SoundReqs
<1> QED
  BY <1>1, <1>13 DEF Inv

\* A worker wakes the loop it queued a connect on.
LEMMA WakeupStep ==
  ASSUME Inv, NEW r \in Reqs, us_wakeup_loop(r)
  PROVE  Inv'
<1>1. PICK w : w = mem.req[r].wakes
  OBVIOUS
<1>6. /\ Sound(mem, stack) /\ mem \in Mem /\ IsMem(mem)
      /\ mem.conn \in ConnMap /\ mem.req \in ReqMap /\ mem.cache \in SUBSET Reqs
      /\ mem.wake \in [Loops -> BOOLEAN]
      /\ QueueOf(mem.ready) \in QueueMap /\ ViewOf(stack) \in ViewMap
      /\ Core(mem.conn, mem.req, mem.cache, QueueOf(mem.ready), ViewOf(stack))
      /\ GroupsOK(mem.conn, mem.head, ViewOf(stack)) /\ KeepOK(mem.conn, mem.keep)
      /\ \A x \in Loops : Once(mem.ready[x])
      /\ \A x \in Loops : ~Dispatching(stack[x]) =>
           WakeOK(mem.conn, mem.req, QueueOf(mem.ready), mem.wake, x)
      /\ OwnOK(mem.conn, mem.req)
  BY SoundParts DEF Inv
<1>2. w \in Loops
  BY <1>1, <1>6 DEF us_wakeup_loop, ReqMap, ReqRecord
<1>3. PICK a : a = [mem EXCEPT !.wake[w] = TRUE]
  OBVIOUS
<1>4. PICK k : k = mem' /\ k = [a EXCEPT !.req[r].wakes = Null] /\ stack' = stack
  BY <1>1, <1>3 DEF us_wakeup_loop
<1>5. SameBut(mem, a, {"wake"}) /\ a.wake = [mem.wake EXCEPT ![w] = TRUE]
  <2>1. IsMem(mem) /\ SetsWake(mem, a, w, TRUE)
    BY <1>3, <1>6 DEF SetsWake
  <2>2. SameBut(mem, a, {"wake"}) /\ Is(a.wake, [mem.wake EXCEPT ![w] = TRUE])
    BY <2>1, SetWake
  <2> QED
    BY <2>2 DEF Is
<1>7. a \in Mem
  <2>1. a.wake \in [Loops -> BOOLEAN]
    BY <1>5, <1>6
  <2> QED
    BY <1>5, <1>6, <2>1, SameMem DEF SameBut
<1>8. /\ k \in Mem /\ SameBut(a, k, {"req"}) /\ Only(a.req, k.req, r)
      /\ ReqBut(a.req[r], k.req[r], {"wakes"}) /\ k.req[r].wakes = Null
  BY <1>4, <1>7, SetWoken
<1>9. /\ k.conn = mem.conn /\ k.cache = mem.cache /\ k.ready = mem.ready
      /\ k.head = mem.head /\ k.wake = a.wake /\ k.keep = mem.keep /\ a.req = mem.req
      /\ k.req \in ReqMap
  BY <1>5, <1>8, MemParts DEF SameBut
<1>10. /\ \A q \in Reqs : SameReq(mem.req[q], k.req[q])
       /\ \A q \in Reqs \ {r} : k.req[q].wakes = mem.req[q].wakes
  BY <1>6, <1>8, <1>9 DEF Only, ReqMap, ReqBut, SameReq
<1>11. Core(mem.conn, k.req, mem.cache, QueueOf(mem.ready), ViewOf(stack))
  <2>1. \A c \in Conns : SameConn(mem.conn[c], mem.conn[c])
    BY DEF SameConn
  <2> QED
    BY <1>6, <1>9, <1>10, <2>1, CoreSame
<1>12. \A x \in Loops : ~Dispatching(stack[x]) =>
         WakeOK(mem.conn, k.req, QueueOf(mem.ready), k.wake, x)
  <2> SUFFICES ASSUME NEW x \in Loops, ~Dispatching(stack[x]), NEW c \in Conns,
                      c \in QueueOf(mem.ready)[x], ~mem.conn[c].own
               PROVE  k.wake[x] \/ k.req[mem.conn[c].req].wakes = x
    BY DEF WakeOK
  <2>1. mem.wake[x] \/ mem.req[mem.conn[c].req].wakes = x
    BY <1>6 DEF WakeOK
  <2>2. mem.conn[c].req \in Reqs
    BY <1>6, QueuedHolds
  <2>3. k.wake[x] = (IF x = w THEN TRUE ELSE mem.wake[x])
    BY <1>5, <1>6, <1>9
  <2> QED
    BY <1>1, <1>10, <2>1, <2>2, <2>3
<1>13. OwnOK(mem.conn, k.req)
  <2>1. \A q \in Reqs : k.req[q].notify \cup k.req[q].moved \subseteq mem.req[q].notify \cup mem.req[q].moved
    BY <1>10 DEF SameReq
  <2> QED
    BY <1>6, <1>9, <2>1, OwnSame
<1>14. Sound(k, stack)
  BY <1>6, <1>8, <1>9, <1>11, <1>12, <1>13, SoundMem
<1> QED
  BY <1>4, <1>14 DEF Inv

\* A worker queues a connect on its loop.
LEMMA NotifyStep ==
  ASSUME Inv, NEW r \in Reqs, NotifyThreadsafe(r)
  PROVE  Inv'
<1> DEFINE Q == QueueOf(mem.ready)
           V == ViewOf(stack)
<1>1. PICK c \in mem.req[r].moved :
        mem' = DnsCallback([mem EXCEPT !.req[r].moved = @ \ {c},
                                       !.req[r].wakes = mem.conn[c].loop], c)
  BY DEF NotifyThreadsafe
<1>2. stack' = stack /\ mem.req[r].wakes = Null
  BY DEF NotifyThreadsafe
<1>6. /\ Sound(mem, stack) /\ mem \in Mem
      /\ mem.conn \in ConnMap /\ mem.req \in ReqMap /\ mem.cache \in SUBSET Reqs
      /\ mem.ready \in [Loops -> Seq(Conns)]
      /\ Q \in QueueMap /\ V \in ViewMap
      /\ Core(mem.conn, mem.req, mem.cache, Q, V)
      /\ GroupsOK(mem.conn, mem.head, V) /\ KeepOK(mem.conn, mem.keep)
      /\ \A x \in Loops : Once(mem.ready[x])
      /\ \A x \in Loops : ~Dispatching(stack[x]) => WakeOK(mem.conn, mem.req, Q, mem.wake, x)
      /\ OwnOK(mem.conn, mem.req)
  BY SoundParts DEF Inv
<1>7. c \in Conns
  BY <1>6 DEF ReqMap, ReqRecord
<1>8. /\ mem.conn[c].life = "live" /\ mem.conn[c].req = r /\ mem.conn[c].loop \in Loops
      /\ ~mem.conn[c].own
  <2>1. ConnOK(mem.conn[c], mem.req) /\ WaitOK(mem.conn, mem.req, Q, V, c)
    BY <1>6, <1>7 DEF Core, ConnInv, WaitInv
  <2> QED
    BY <1>6, <2>1 DEF ConnOK, WaitOK, OwnOK
<1>9. PICK l \in Loops : l = mem.conn[c].loop
  BY <1>8
<1>10. PICK A : A = mem.req[r].moved \ {c}
  OBVIOUS
<1>11. PICK a : SetsMoved(mem, a, r, A, l)
  BY DEF SetsMoved
<1>12. PICK k : k = DnsCallback(a, c)
  OBVIOUS
<1>13. mem' = k
  BY <1>1, <1>9, <1>10, <1>11, <1>12 DEF SetsMoved
<1>14. A \in SUBSET Conns
  BY <1>6, <1>10 DEF ReqMap, ReqRecord
<1>15. /\ a \in Mem /\ SameBut(mem, a, {"req"}) /\ Only(mem.req, a.req, r)
       /\ ReqBut(mem.req[r], a.req[r], {"moved", "wakes"})
       /\ Is(a.req[r].moved, A) /\ a.req[r].wakes = l
  BY <1>6, <1>9, <1>11, <1>14, SetMoved
<1>16. a.conn = mem.conn /\ a.ready = mem.ready /\ IsMem(a)
  BY <1>15 DEF SameBut
<1>17. PICK d : d = <<c>> \o mem.ready[l]
  OBVIOUS
<1>18. SetsReady(a, k, l, d)
  BY <1>9, <1>12, <1>16, <1>17, Zenon DEF DnsCallback, SetsReady
<1>19. SameBut(a, k, {"ready"}) /\ k.ready = [a.ready EXCEPT ![l] = d]
  <2>1. SameBut(a, k, {"ready"}) /\ Is(k.ready, [a.ready EXCEPT ![l] = d])
    BY <1>16, <1>18, SetReady
  <2> QED
    BY <2>1 DEF Is
<1>20. mem.ready[l] \in Seq(Conns) /\ Once(mem.ready[l])
  BY <1>6
<1>21. /\ d \in Seq(Conns)
       /\ \A x : In(x, d) <=> x = c \/ In(x, mem.ready[l])
       /\ Once(d) <=> Once(mem.ready[l]) /\ ~In(c, mem.ready[l])
  BY <1>7, <1>17, <1>20, PushIn, Pushed
<1>22. k.ready \in [Loops -> Seq(Conns)]
  BY <1>6, <1>16, <1>19, <1>21
<1>23. k \in Mem
  BY <1>15, <1>19, <1>22, SameMem DEF SameBut
<1>24. /\ k.conn = mem.conn /\ k.cache = mem.cache /\ k.req = a.req
       /\ k.head = mem.head /\ k.wake = mem.wake /\ k.keep = mem.keep
       /\ k.ready = [mem.ready EXCEPT ![l] = d] /\ k.req \in ReqMap
  BY <1>15, <1>16, <1>19, <1>23, MemParts DEF SameBut
<1>25. /\ \A q \in Reqs \ {r} : k.req[q] = mem.req[q]
       /\ k.req[r].life = mem.req[r].life /\ k.req[r].result = mem.req[r].result
       /\ k.req[r].notify = mem.req[r].notify /\ k.req[r].refs = mem.req[r].refs
       /\ k.req[r].moved = mem.req[r].moved \ {c} /\ k.req[r].wakes = l
  BY <1>6, <1>10, <1>15, <1>24 DEF Only, ReqMap, ReqBut, Is
<1> DEFINE Q2 == QueueOf(k.ready)
<1>26. Q2 \in QueueMap /\ \A x \in Loops : Q2[x] = IF x = l THEN Q[x] \cup {c} ELSE Q[x]
  <2>1. Q2 \in QueueMap /\ \A x \in Loops : /\ Q2[x] = {y \in Conns : In(y, k.ready[x])}
                                            /\ Q[x] = {y \in Conns : In(y, mem.ready[x])}
    BY QueueType
  <2>2. k.ready[l] = d /\ \A x \in Loops \ {l} : k.ready[x] = mem.ready[x]
    BY <1>6, <1>24
  <2> HIDE DEF Q, Q2
  <2>3. Q2[l] = Q[l] \cup {c}
    BY <1>7, <1>21, <2>1, <2>2
  <2>4. \A x \in Loops \ {l} : Q2[x] = Q[x]
    BY <2>1, <2>2
  <2> QED
    BY <2>1, <2>3, <2>4
<1>q. \A x \in Loops : Q[x] = {y \in Conns : In(y, mem.ready[x])}
  BY QueueType
<1> HIDE DEF Q, Q2, V
<1>27. Core(mem.conn, k.req, mem.cache, Q2, V) /\ c \notin Q[l]
  <2>1. Notifies(mem.req, k.req, Q, Q2, r, l, c)
    BY <1>25, <1>26 DEF Notifies
  <2>2. Q2 \in QueueMap
    BY <1>26
  <2> QED
    BY <1>6, <1>7, <1>9, <1>24, <2>1, <2>2, CoreNotify
<1>28. \A x \in Loops : Once(k.ready[x])
  <2>1. ~In(c, mem.ready[l])
    BY <1>7, <1>27, <1>q
  <2> QED
    BY <1>6, <1>21, <1>24, <2>1
<1>29. \A x \in Loops : ~Dispatching(stack[x]) => WakeOK(mem.conn, k.req, Q2, mem.wake, x)
  <2> SUFFICES ASSUME NEW x \in Loops, ~Dispatching(stack[x]), NEW d2 \in Conns,
                      d2 \in Q2[x], ~mem.conn[d2].own
               PROVE  mem.wake[x] \/ k.req[mem.conn[d2].req].wakes = x
    BY DEF WakeOK
  <2>1. CASE d2 \in Q[x]
    <3>1. mem.wake[x] \/ mem.req[mem.conn[d2].req].wakes = x
      BY <1>6, <2>1 DEF WakeOK
    <3>2. mem.conn[d2].req \in Reqs
      BY <1>6, <2>1, QueuedHolds
    <3>3. mem.req[mem.conn[d2].req].wakes = x => mem.conn[d2].req # r
      BY <1>2, Bounds
    <3> QED
      BY <1>25, <3>1, <3>2, <3>3
  <2>2. CASE d2 \notin Q[x]
    <3>1. x = l /\ d2 = c
      BY <1>26, <2>2
    <3> QED
      BY <1>8, <1>25, <3>1
  <2> QED
    BY <2>1, <2>2
<1>30. OwnOK(mem.conn, k.req)
  <2>1. \A q \in Reqs : k.req[q].notify \cup k.req[q].moved \subseteq mem.req[q].notify \cup mem.req[q].moved
    BY <1>25
  <2> QED
    BY <1>6, <1>24, <2>1, OwnSame
<1>31. /\ Core(k.conn, k.req, k.cache, QueueOf(k.ready), ViewOf(stack))
       /\ GroupsOK(k.conn, k.head, ViewOf(stack)) /\ KeepOK(k.conn, k.keep)
       /\ \A x \in Loops : ~Dispatching(stack[x]) => WakeOK(k.conn, k.req, QueueOf(k.ready), k.wake, x)
       /\ OwnOK(k.conn, k.req)
  BY <1>6, <1>24, <1>27, <1>29, <1>30 DEF V, Q2
<1>32. Sound(k, stack)
  BY <1>6, <1>23, <1>28, <1>31, SoundMem
<1> QED
  BY <1>2, <1>13, <1>32 DEF Inv

-----------------------------------------------------------------------------
(* Ticks.                                                                  *)

\* A tick can begin on a stack.
MayTick(b) == /\ Good(b) /\ NoConnect(b)
              /\ b = <<>> \/ (View(b).walk = {} /\ \E i \in 1..Len(b) : b[i].k = "tick")

\* Stack s is a tick on b.
OnTick(s, b, at) ==
  \E B \in SUBSET (Conns \X Addrs) : s = <<[k |-> "tick", at |-> at, batch |-> B]>> \o b

\* A tick put on a stack.
LEMMA PushTick ==
  ASSUME NEW b, MayTick(b), NEW at \in {"pre", "dispatch", "post"}, NEW s, OnTick(s, b, at)
  PROVE  Good(s) /\ NoConnect(s) /\ View(s) = View(b) /\ (Dispatching(s) <=> at = "dispatch")
<1>0. PICK B \in SUBSET (Conns \X Addrs) : s = <<[k |-> "tick", at |-> at, batch |-> B]>> \o b
  BY DEF OnTick
<1> DEFINE f == [k |-> "tick", at |-> at, batch |-> B]
<1>1. f \in Frame /\ f.k = "tick" /\ f.at = at
  BY OtherFrames
<1>2. Both(Held(f), View(b)) = View(b)
  BY <1>1, HeldByNone, ViewType
<1>3. Good(b) /\ NoConnect(b) /\ (b = <<>> \/ (View(b).walk = {} /\ \E i \in 1..Len(b) : b[i].k = "tick"))
  BY DEF MayTick
<1> HIDE DEF f
<1>4. /\ Good(<<f>> \o b) /\ NoConnect(<<f>> \o b) /\ View(<<f>> \o b) = Both(Held(f), View(b))
      /\ Dispatching(<<f>> \o b) <=> f.at = "dispatch"
  BY <1>1, <1>3, StackPush
<1>5. s = <<f>> \o b
  BY <1>0 DEF f
<1> QED
  BY <1>1, <1>2, <1>4, <1>5

\* A tick comes off a stack.
LEMMA PopTick ==
  ASSUME NEW s, Good(s), s # <<>>, Head(s).k = "tick"
  PROVE  /\ MayTick(Tail(s)) /\ View(s) = View(Tail(s)) /\ View(s).walk = {}
         /\ Dispatching(s) <=> Head(s).at = "dispatch"
<1> DEFINE f == Head(s)
           t == Tail(s)
<1>1. /\ f \in Frame /\ s = <<f>> \o t /\ Good(t) /\ NoConnect(t)
      /\ View(s) = Both(Held(f), View(t)) /\ View(t).walk = {}
      /\ t = <<>> \/ \E i \in 1..Len(t) : i = Len(t) /\ t[i].k = "tick"
      /\ Dispatching(s) <=> f.at = "dispatch"
  BY StackTop
<1>2. Both(Held(f), View(t)) = View(t)
  BY HeldByNone, ViewType
<1> QED
  BY <1>1, <1>2, Zenon DEF MayTick

\* A drain put on a stack, if there is anything to drain.
LEMMA PushDrain ==
  ASSUME NEW b, Good(b), NoConnect(b), NEW cs \in Seq(Conns), Once(cs),
         NEW S, Is(S, {c \in Conns : In(c, cs)}), Apart(S, View(b).drain),
         NEW s, s = Drains(cs) \o b
  PROVE  Good(s) /\ NoConnect(s) /\ PushesDrain(View(b), View(s), S)
<1>1. CASE cs = <<>>
  <2>1. s = b
    BY <1>1, ConcatEmptySeq DEF Drains, Good
  <2>2. S = {}
    BY <1>1, NoneIn DEF Is
  <2> QED
    BY <2>1, <2>2 DEF PushesDrain
<1>2. CASE cs # <<>>
  <2> DEFINE g == [k |-> "drain", cs |-> cs]
  <2>1. s = <<g>> \o b
    BY <1>2 DEF Drains
  <2>0. View(b) \in Views
    BY ViewType
  <2>2. /\ g \in Frame /\ g.k = "drain" /\ g.cs = cs
        /\ Is(Held(g).drain, {x \in Conns : In(x, cs)})
        /\ PushesDrain(View(b), Both(Held(g), View(b)), Held(g).drain)
    BY <1>2, <2>0, HeldByDrain
  <2> HIDE DEF g
  <2>3. Apart(Held(g).drain, View(b).drain)
    BY <2>2 DEF Apart, Is
  <2>4. Good(<<g>> \o b) /\ NoConnect(<<g>> \o b) /\ View(<<g>> \o b) = Both(Held(g), View(b))
    BY <2>2, <2>3, StackPush
  <2> QED
    BY <2>1, <2>2, <2>4 DEF PushesDrain, Is
<1> QED
  BY <1>1, <1>2

\* The queue of loop l is drained, on stack b, which holds on to what its stack did.
DrainsBy(m, st, l, k, b, st2) ==
  /\ MayTick(b) /\ View(b) = View(st[l])
  /\ SetsReady(m, k, l, <<>>)
  /\ \E at \in {"pre", "post"} :
       st2 = [st EXCEPT ![l] = Drains(m.ready[l]) \o (<<[k |-> "tick", at |-> at, batch |-> {}]>> \o b)]

\* Taking the queue of a loop into a drain keeps the invariant.
LEMMA SoundDrain ==
  ASSUME NEW m, NEW st, Sound(m, st), NEW l \in Loops, NEW k, NEW b, NEW st2,
         DrainsBy(m, st, l, k, b, st2)
  PROVE  Sound(k, st2)
<1> DEFINE Q == QueueOf(m.ready)
           V == ViewOf(st)
           V2 == ViewOf(st2)
           Q2 == QueueOf(k.ready)
<1>1. /\ m \in Mem /\ st \in [Loops -> Seq(Frame)] /\ IsMem(m)
      /\ m.conn \in ConnMap /\ m.req \in ReqMap /\ m.cache \in SUBSET Reqs
      /\ m.ready \in [Loops -> Seq(Conns)] /\ Q \in QueueMap /\ V \in ViewMap
      /\ V[l] = View(st[l]) /\ \A x \in Loops : Once(m.ready[x])
      /\ Core(m.conn, m.req, m.cache, Q, V)
      /\ GroupsOK(m.conn, m.head, V) /\ KeepOK(m.conn, m.keep)
      /\ \A x \in Loops : ~Dispatching(st[x]) => WakeOK(m.conn, m.req, Q, m.wake, x)
      /\ OwnOK(m.conn, m.req)
  BY SoundParts
<1>2. MayTick(b) /\ View(b) = View(st[l]) /\ SetsReady(m, k, l, <<>>)
  BY DEF DrainsBy
<1>3. PICK at \in {"pre", "post"} :
        st2 = [st EXCEPT ![l] = Drains(m.ready[l]) \o (<<[k |-> "tick", at |-> at, batch |-> {}]>> \o b)]
  BY DEF DrainsBy
<1>4. PICK t : t = <<[k |-> "tick", at |-> at, batch |-> {}]>> \o b
  OBVIOUS
<1>5. PICK s : s = Drains(m.ready[l]) \o t
  OBVIOUS
<1>6. st2 = [st EXCEPT ![l] = s]
  BY <1>3, <1>4, <1>5
<1>7. Good(t) /\ NoConnect(t) /\ View(t) = View(st[l])
  <2>1. OnTick(t, b, at)
    BY <1>4 DEF OnTick
  <2>2. Good(t) /\ NoConnect(t) /\ View(t) = View(b)
    BY <1>2, <1>4, <2>1, PushTick
  <2> QED
    BY <1>2, <2>2
<1>8. SameBut(m, k, {"ready"}) /\ k.ready = [m.ready EXCEPT ![l] = <<>>]
  <2>1. SameBut(m, k, {"ready"}) /\ Is(k.ready, [m.ready EXCEPT ![l] = <<>>])
    BY <1>1, <1>2, SetReady
  <2> QED
    BY <2>1 DEF Is
<1>9. /\ k.conn = m.conn /\ k.cache = m.cache /\ k.req = m.req
      /\ k.head = m.head /\ k.wake = m.wake /\ k.keep = m.keep
  BY <1>8 DEF SameBut
<1>10. k \in Mem
  <2>1. k.ready \in [Loops -> Seq(Conns)]
    <3>1. <<>> \in Seq(Conns)
      OBVIOUS
    <3> QED
      BY <1>1, <1>8, <3>1
  <2> QED
    BY <1>1, <1>8, <2>1, SameMem DEF SameBut
<1>11. k.ready[l] = <<>> /\ \A x \in Loops \ {l} : k.ready[x] = m.ready[x]
  BY <1>1, <1>8
<1>12. /\ Q2 \in QueueMap
       /\ \A x \in Loops : Q2[x] = {y \in Conns : In(y, k.ready[x])}
       /\ \A x \in Loops : Q[x] = {y \in Conns : In(y, m.ready[x])}
  BY QueueType
<1>13. PICK S : S = Q[l]
  OBVIOUS
<1> HIDE DEF Q, Q2, V, V2
<1>14. Q2[l] = {} /\ \A x \in Loops \ {l} : Q2[x] = Q[x]
  BY <1>11, <1>12, NoneIn
<1>15. Apart(S, View(t).drain) /\ Is(S, {c \in Conns : In(c, m.ready[l])})
  <2>1. \A c \in Q[l] : c \notin V[l].drain
    <3> SUFFICES ASSUME NEW c \in Q[l], c \in V[l].drain PROVE FALSE
      OBVIOUS
    <3>1. c \in Conns
      BY <1>12
    <3> QED
      BY <1>1, <3>1, QueuedHolds
  <2> QED
    BY <1>1, <1>7, <1>12, <1>13, <2>1 DEF Apart, Is
<1>16. Good(s) /\ PushesDrain(View(t), View(s), S)
  <2>1. m.ready[l] \in Seq(Conns) /\ Once(m.ready[l])
    BY <1>1
  <2> QED
    BY <1>5, <1>7, <1>15, <2>1, PushDrain
<1>17. Turns(V, V2, l, View(s))
  BY <1>1, <1>6, ViewAt DEF V, V2
<1>18. V2 \in ViewMap /\ Queued(Q, Q2, V, V2, l)
  BY <1>1, <1>7, <1>13, <1>14, <1>16, <1>17 DEF Turns, Queued, PushesDrain
<1>19. Core(k.conn, k.req, k.cache, Q2, V2)
  <2>1. Core(m.conn, m.req, m.cache, Q2, V2)
    BY <1>1, <1>12, <1>18, CoreDrain
  <2> QED
    BY <1>9, <2>1
<1>20. GroupsOK(k.conn, k.head, V2)
  <2>1. View(s).walk \subseteq View(st[l]).walk
    BY <1>7, <1>16 DEF PushesDrain
  <2>2. GroupsOK(m.conn, m.head, ViewOf(st2))
    BY <1>6, <2>1, GroupsFewer
  <2> QED
    BY <1>9, <2>2 DEF V2
<1>21. \A x \in Loops : Once(k.ready[x])
  BY <1>1, <1>11, NoneIn
<1>22. ASSUME NEW x \in Loops \ {l}, ~Dispatching(st[x]) PROVE WakeOK(k.conn, k.req, Q2, k.wake, x)
  <2>1. WakeOK(m.conn, m.req, Q, m.wake, x)
    BY <1>1, <1>22
  <2>2. Q2[x] = Q[x]
    BY <1>14
  <2> QED
    BY <1>9, <2>1, <2>2 DEF WakeOK
<1>23. WakeOK(k.conn, k.req, Q2, k.wake, l)
  BY <1>14 DEF WakeOK
<1>24. /\ Core(k.conn, k.req, k.cache, QueueOf(k.ready), ViewOf(st2))
       /\ GroupsOK(k.conn, k.head, ViewOf(st2)) /\ KeepOK(k.conn, k.keep)
       /\ \A x \in Loops \ {l} : ~Dispatching(st[x]) => WakeOK(k.conn, k.req, QueueOf(k.ready), k.wake, x)
       /\ WakeOK(k.conn, k.req, QueueOf(k.ready), k.wake, l) /\ OwnOK(k.conn, k.req)
  BY <1>1, <1>9, <1>19, <1>20, <1>22, <1>23 DEF Q2, V2
<1> QED
  BY <1>6, <1>10, <1>16, <1>21, <1>24, SoundStep, Zenon

\* No walk is under way without a frame of close_all.
LEMMA NoWalk ==
  ASSUME NEW l \in Loops, Good(stack[l]), Frames(l, "all") = {}
  PROVE  View(stack[l]).walk = {}
<1>1. DOMAIN stack[l] = 1..Len(stack[l])
  BY DEF Good
<1>2. \A i \in 1..Len(stack[l]) : Held(stack[l][i]).walk = {}
  BY <1>1 DEF Frames, Held
<1> QED
  BY <1>2 DEF View

\* A tick begins, with a drain.
LEMMA BeginTickStep ==
  ASSUME Inv, NEW l \in Loops, BeginTick(l)
  PROVE  Inv'
<1>1. Sound(mem, stack) /\ Good(stack[l])
  BY SoundParts DEF Inv
<1>2. MayTick(stack[l])
  <2>1. CASE stack[l] = <<>>
    BY <1>1, <2>1, NoCall DEF MayTick
  <2>2. CASE Call(l) /\ Depth(l) = 1 /\ Frames(l, "all") = {}
    <3>1. NoConnect(stack[l])
      <4>1. stack[l] = <<>> \/ Head(stack[l]).k # "connect"
        BY <2>2 DEF Call, At, Top
      <4> QED
        BY <1>1, <4>1, NoCall
    <3>2. View(stack[l]).walk = {}
      BY <1>1, <2>2, NoWalk
    <3>3. Frames(l, "tick") # {}
      <4>1. Cardinality({}) = 0
        BY FS_EmptySet
      <4> QED
        BY <2>2, <4>1 DEF Depth
    <3>4. \E i \in 1..Len(stack[l]) : stack[l][i].k = "tick"
      BY <1>1, <3>3 DEF Frames, Good
    <3> QED
      BY <1>1, <3>1, <3>2, <3>4 DEF MayTick
  <2> QED
    BY <2>1, <2>2 DEF BeginTick
<1>3. PICK k : k = mem'
  OBVIOUS
<1>4. PICK st2 : st2 = stack'
  OBVIOUS
<1>5. DrainsBy(mem, stack, l, k, stack[l], st2)
  BY <1>2, <1>3, <1>4 DEF BeginTick, Drain, Do, Outcome, DrainsBy, SetsReady
<1>6. Sound(k, st2)
  BY <1>1, <1>5, SoundDrain
<1> QED
  BY <1>3, <1>4, <1>6 DEF Inv

\* A tick ends its dispatch, with a second drain.
LEMMA EndDispatchStep ==
  ASSUME Inv, NEW l \in Loops, EndDispatch(l)
  PROVE  Inv'
<1>1. Sound(mem, stack) /\ Good(stack[l])
  BY SoundParts DEF Inv
<1>2. stack[l] # <<>> /\ Head(stack[l]).k = "tick"
  BY DEF EndDispatch, Ticks, At, Top
<1>3. MayTick(Tail(stack[l])) /\ View(stack[l]) = View(Tail(stack[l]))
  BY <1>1, <1>2, PopTick
<1>4. PICK k : k = mem'
  OBVIOUS
<1>5. PICK st2 : st2 = stack'
  OBVIOUS
<1>6. DrainsBy(mem, stack, l, k, Tail(stack[l]), st2)
  BY <1>3, <1>4, <1>5 DEF EndDispatch, Drain, Do, Outcome, DrainsBy, SetsReady
<1>7. Sound(k, st2)
  BY <1>1, <1>6, SoundDrain
<1> QED
  BY <1>4, <1>5, <1>7 DEF Inv

\* Nothing changes if what the stack of the loop holds on to does not.
LEMMA SameViews ==
  ASSUME NEW V \in ViewMap, NEW V2, NEW l \in Loops, Turns(V, V2, l, V[l])
  PROVE  V2 = V
  BY DEF Turns, ViewMap

\* The poll of a tick returns.
LEMMA PollReturnsStep ==
  ASSUME Inv, NEW l \in Loops, PollReturns(l)
  PROVE  Inv'
<1> DEFINE Q == QueueOf(mem.ready)
           V == ViewOf(stack)
<1>1. /\ Sound(mem, stack) /\ mem \in Mem /\ IsMem(mem) /\ stack \in [Loops -> Seq(Frame)]
      /\ mem.wake \in [Loops -> BOOLEAN] /\ V \in ViewMap /\ V[l] = View(stack[l])
      /\ Good(stack[l]) /\ \A x \in Loops : Once(mem.ready[x])
      /\ Core(mem.conn, mem.req, mem.cache, Q, V)
      /\ GroupsOK(mem.conn, mem.head, V) /\ KeepOK(mem.conn, mem.keep)
      /\ \A x \in Loops : ~Dispatching(stack[x]) => WakeOK(mem.conn, mem.req, Q, mem.wake, x)
      /\ OwnOK(mem.conn, mem.req)
  BY SoundParts DEF Inv
<1>2. stack[l] # <<>> /\ Head(stack[l]).k = "tick"
  BY DEF PollReturns, Ticks, At, Top
<1>3. MayTick(Tail(stack[l])) /\ View(stack[l]) = View(Tail(stack[l]))
  BY <1>1, <1>2, PopTick
<1>4. PICK k : k = [mem EXCEPT !.wake[l] = FALSE]
  OBVIOUS
<1>5. PICK s : s = <<[k |-> "tick", at |-> "dispatch", batch |-> Attempts(l, {"ready"})]>> \o Tail(stack[l])
  OBVIOUS
<1>6. PICK st2 : st2 = [stack EXCEPT ![l] = s]
  OBVIOUS
<1>7. mem' = k /\ stack' = st2
  BY <1>4, <1>5, <1>6 DEF PollReturns, Do, Outcome
<1>8. Good(s) /\ View(s) = View(stack[l]) /\ Dispatching(s)
  <2>1. OnTick(s, Tail(stack[l]), "dispatch")
    BY <1>5 DEF OnTick, Attempts
  <2> QED
    BY <1>3, <2>1, PushTick
<1>9. SameBut(mem, k, {"wake"}) /\ k.wake = [mem.wake EXCEPT ![l] = FALSE]
  <2>1. IsMem(mem) /\ SetsWake(mem, k, l, FALSE)
    BY <1>1, <1>4 DEF SetsWake
  <2>2. SameBut(mem, k, {"wake"}) /\ Is(k.wake, [mem.wake EXCEPT ![l] = FALSE])
    BY <2>1, SetWake
  <2> QED
    BY <2>2 DEF Is
<1>10. k \in Mem
  <2>1. k.wake \in [Loops -> BOOLEAN]
    BY <1>1, <1>9
  <2> QED
    BY <1>1, <1>9, <2>1, SameMem DEF SameBut
<1>11. /\ k.conn = mem.conn /\ k.req = mem.req /\ k.cache = mem.cache
       /\ k.ready = mem.ready /\ k.head = mem.head /\ k.keep = mem.keep
  BY <1>9 DEF SameBut
<1>12. \A x \in Loops \ {l} : k.wake[x] = mem.wake[x]
  BY <1>1, <1>9
<1>13. Turns(V, ViewOf(st2), l, View(s))
  BY <1>1, <1>6, ViewAt
<1>14. ViewOf(st2) = V
  BY <1>1, <1>8, <1>13, SameViews
<1>15. /\ Core(k.conn, k.req, k.cache, QueueOf(k.ready), ViewOf(st2))
       /\ GroupsOK(k.conn, k.head, ViewOf(st2)) /\ KeepOK(k.conn, k.keep)
       /\ \A x \in Loops : Once(k.ready[x])
       /\ OwnOK(k.conn, k.req)
  BY <1>1, <1>11, <1>14
<1>16. \A x \in Loops \ {l} : ~Dispatching(stack[x]) => WakeOK(k.conn, k.req, QueueOf(k.ready), k.wake, x)
  BY <1>1, <1>11, <1>12 DEF WakeOK
<1>17. Sound(k, st2)
  <2>1. ~Dispatching(s) => WakeOK(k.conn, k.req, QueueOf(k.ready), k.wake, l)
    BY <1>8
  <2>2. Sound(mem, stack) /\ Good(s)
    BY <1>1, <1>8
  <2> QED
    BY <1>6, <1>10, <1>15, <1>16, <2>1, <2>2, SoundStep, ZenonT(20)
<1> QED
  BY <1>7, <1>17 DEF Inv

\* Under its innermost tick a loop's stack is empty when the closed are freed.
LEMMA OneTick ==
  ASSUME NEW l \in Loops, Good(stack[l]), stack[l] # <<>>, Head(stack[l]).k = "tick", MayFree(l)
  PROVE  View(stack[l]) = NoView
<1> DEFINE s == stack[l]
           t == Tail(s)
<1>1. MayTick(t) /\ View(s) = View(t)
  BY PopTick
<1>2. s \in Seq(Frame) /\ DOMAIN s = 1..Len(s) /\ Len(s) \in Nat
  BY DEF Good
<1>3. /\ t \in Seq(Frame) /\ s[1] = Head(s) /\ 1 \in 1..Len(s)
      /\ s = <<Head(s)>> \o t /\ Head(s) \in Frame
  BY <1>2, Popped
<1>4. ASSUME NEW i \in 1..Len(t), t[i].k = "tick" PROVE FALSE
  <2>1. i + 1 \in 1..Len(s) /\ s[i + 1] = t[i]
    <3>1. \A j \in 1..Len(t) : j + 1 \in 1..Len(<<Head(s)>> \o t) /\ (<<Head(s)>> \o t)[j + 1] = t[j]
      BY <1>3, Pushed
    <3> QED
      BY <1>3, <3>1
  <2>2. 1 \in Frames(l, "tick") /\ i + 1 \in Frames(l, "tick") /\ i + 1 # 1
    BY <1>2, <1>3, <1>4, <2>1 DEF Frames
  <2>3. IsFiniteSet(Frames(l, "tick")) /\ Cardinality(Frames(l, "tick")) \in Nat
    <3>1. IsFiniteSet(1..Len(s))
      BY <1>2, FS_Interval
    <3>2. Frames(l, "tick") \subseteq 1..Len(s)
      BY <1>2 DEF Frames
    <3> QED
      BY <3>1, <3>2, FS_Subset, FS_CardinalityType
  <2>4. PICK S : S = {1, i + 1}
    OBVIOUS
  <2>5. Cardinality(S) = 2 /\ S \subseteq Frames(l, "tick")
    <3>1. PICK T : T = {1}
      OBVIOUS
    <3>2. IsFiniteSet(T) /\ Cardinality(T) = 1
      BY <3>1, FS_Singleton
    <3>3. i + 1 \notin T /\ S = T \cup {i + 1}
      BY <2>2, <2>4, <3>1
    <3>4. Cardinality(S) = Cardinality(T) + 1
      BY <3>2, <3>3, OneMore
    <3> QED
      BY <2>2, <2>4, <3>2, <3>4
  <2>6. Cardinality(S) <= Cardinality(Frames(l, "tick"))
    BY <2>3, <2>5, FS_Subset
  <2> QED
    BY <2>3, <2>5, <2>6 DEF MayFree, Depth
<1>5. t = <<>>
  BY <1>1, <1>4 DEF MayTick
<1> QED
  BY <1>1, <1>5, ViewEmpty

\* A freed connect is a connect.
LEMMA FreedRecord ==
  ASSUME NEW s \in ConnRecord
  PROVE  [NoConn EXCEPT !.life = "freed", !.told = s.told] \in ConnRecord
<1>1. NoAttempts \in [Addrs -> {"none", "pending", "ready"}]
  BY DEF NoAttempts
<1>2. NoConn \in ConnRecord
  BY <1>1 DEF NoConn, ConnRecord, Ptr
<1>3. s.told \in Int
  BY DEF ConnRecord
<1> QED
  BY <1>2, <1>3 DEF ConnRecord

\* What the end of a tick does to the dead connects.
LEMMA EndEffect ==
  ASSUME NEW m \in Mem, NEW l, NEW k,
         k = [m EXCEPT !.conn = [c \in Conns |->
                IF MayFree(l) /\ @[c].life = "dead" /\ @[c].loop = l
                THEN [NoConn EXCEPT !.life = "freed", !.told = m.conn[c].told]
                ELSE @[c]]]
  PROVE  /\ k \in Mem /\ SameBut(m, k, {"conn"})
         /\ MayFree(l) => Ends(m.conn, k.conn, l)
         /\ ~MayFree(l) => k.conn = m.conn
<1>1. m.conn \in ConnMap /\ IsMem(m)
  BY MemParts
<1>2. PICK f : f = [c \in Conns |->
                IF MayFree(l) /\ m.conn[c].life = "dead" /\ m.conn[c].loop = l
                THEN [NoConn EXCEPT !.life = "freed", !.told = m.conn[c].told]
                ELSE m.conn[c]]
  OBVIOUS
<1>3. k = [m EXCEPT !.conn = f]
  BY <1>2
<1>4. SameBut(m, k, {"conn"}) /\ k.conn = f
  BY <1>1, <1>3, SetConn
<1>5. f \in ConnMap
  <2>1. \A c \in Conns : [NoConn EXCEPT !.life = "freed", !.told = m.conn[c].told] \in ConnRecord
    BY <1>1, FreedRecord DEF ConnMap
  <2> QED
    BY <1>1, <1>2, <2>1, Zenon DEF ConnMap
<1>6. k \in Mem
  BY <1>4, <1>5, SameMem DEF SameBut
<1>7. MayFree(l) => Ends(m.conn, f, l)
  BY <1>2, Zenon DEF Ends
<1>8. ~MayFree(l) => f = m.conn
  BY <1>1, <1>2 DEF ConnMap
<1> QED
  BY <1>4, <1>6, <1>7, <1>8

\* The dead are freed.
LEMMA GroupsEnd ==
  ASSUME NEW conn \in ConnMap, NEW conn2 \in ConnMap, NEW req, NEW head \in [Loops -> Ptr],
         NEW V \in ViewMap, ConnInv(conn, req), GroupsOK(conn, head, V),
         NEW l \in Loops, Is(V[l].walk, {}), Ends(conn, conn2, l)
  PROVE  GroupsOK(conn2, head, V)
<1>1. PICK rank \in [Conns -> Int] : Groups(conn, head, V, rank)
  BY DEF GroupsOK
<1>2. \A c \in Conns : conn[c].linked => conn[c].life = "live"
  BY DEF ConnInv, ConnOK
<1>3. \A c \in Conns : conn2[c] = conn[c] \/
        (/\ conn[c].life = "dead" /\ conn[c].loop = l /\ ~conn2[c].linked
         /\ conn2[c].told = conn[c].told)
  BY DEF Ends, NoConn
<1>4. \A c \in Conns : conn[c].linked \/ conn2[c].linked => SameLinks(conn[c], conn2[c])
  BY <1>2, <1>3 DEF SameLinks
<1>5. \A c \in Conns : conn2[c].told = 0 => conn[c].told = 0
  BY <1>3
<1>6. \A x \in Loops : V[x].walk \subseteq V[x].walk
  OBVIOUS
<1>7. \A x \in Loops, c \in Conns : V[x].walk # {} /\ conn[c].loop = x =>
        SameLinks(conn[c], conn2[c]) /\ (Stays(conn[c]) => Stays(conn2[c]))
  BY <1>3 DEF SameLinks, Is
<1>8. Groups(conn2, head, V, rank)
  BY <1>1, <1>4, <1>5, <1>6, <1>7, GroupSame
<1> QED
  BY <1>1, <1>8 DEF GroupsOK

\* A tick ends; the outermost one frees the dead.
LEMMA EndTickStep ==
  ASSUME Inv, NEW l \in Loops, EndTick(l)
  PROVE  Inv'
<1> DEFINE Q == QueueOf(mem.ready)
           V == ViewOf(stack)
<1>1. /\ Sound(mem, stack) /\ mem \in Mem /\ IsMem(mem) /\ stack \in [Loops -> Seq(Frame)]
      /\ mem.conn \in ConnMap /\ mem.req \in ReqMap /\ mem.cache \in SUBSET Reqs
      /\ mem.head \in [Loops -> Ptr] /\ Q \in QueueMap
      /\ V \in ViewMap /\ V[l] = View(stack[l]) /\ Good(stack[l])
      /\ Core(mem.conn, mem.req, mem.cache, Q, V)
      /\ GroupsOK(mem.conn, mem.head, V) /\ KeepOK(mem.conn, mem.keep)
  BY SoundParts DEF Inv
<1>2. stack[l] # <<>> /\ Head(stack[l]).k = "tick" /\ Head(stack[l]).at = "post"
  BY DEF EndTick, Ticks, At, Top
<1>3. /\ MayTick(Tail(stack[l])) /\ View(stack[l]) = View(Tail(stack[l]))
      /\ View(stack[l]).walk = {} /\ ~Dispatching(stack[l])
  BY <1>1, <1>2, PopTick
<1>4. PICK k : k = [mem EXCEPT !.conn = [c \in Conns |->
                IF MayFree(l) /\ @[c].life = "dead" /\ @[c].loop = l
                THEN [NoConn EXCEPT !.life = "freed", !.told = mem.conn[c].told]
                ELSE @[c]]]
  OBVIOUS
<1>5. PICK b : b = Tail(stack[l])
  OBVIOUS
<1>6. PICK st2 : st2 = [stack EXCEPT ![l] = b]
  OBVIOUS
<1>7. mem' = k /\ stack' = st2
  <2>1. <<>> \o b = b
    BY <1>3, <1>5, ConcatEmptySeq DEF MayTick, Good
  <2> QED
    BY <1>4, <1>5, <1>6, <2>1, Zenon DEF EndTick, Do, Outcome
<1>8. /\ k \in Mem /\ SameBut(mem, k, {"conn"})
      /\ MayFree(l) => Ends(mem.conn, k.conn, l)
      /\ ~MayFree(l) => k.conn = mem.conn
  BY <1>1, <1>4, EndEffect
<1>9. /\ k.req = mem.req /\ k.cache = mem.cache /\ k.ready = mem.ready /\ k.head = mem.head
      /\ k.keep = mem.keep /\ k.wake = mem.wake /\ k.conn \in ConnMap
  BY <1>8, MemParts DEF SameBut
<1>10. ViewOf(st2) = V
  <2>1. Turns(V, ViewOf(st2), l, View(b))
    BY <1>1, <1>6, ViewAt
  <2> QED
    BY <1>1, <1>3, <1>5, <2>1, SameViews
<1>11. Good(b) /\ (Dispatching(stack[l]) => Dispatching(b))
  BY <1>3, <1>5 DEF MayTick
<1> HIDE DEF Q, V
<1>12. CASE ~MayFree(l)
  <2>1. k.conn = mem.conn
    BY <1>8, <1>12
  <2>2. /\ Core(k.conn, k.req, k.cache, Q, V)
        /\ GroupsOK(k.conn, k.head, V) /\ KeepOK(k.conn, k.keep)
    BY <1>1, <1>9, <2>1
  <2>3. /\ \A d \in Conns : Carries(mem.conn[d], k.conn[d])
        /\ \A r \in Reqs : Fades(mem.req[r], k.req[r])
    BY <1>9, <2>1 DEF Carries, Fades
  <2>4. Sound(k, st2)
    BY <1>1, <1>6, <1>8, <1>9, <1>10, <1>11, <2>2, <2>3, SoundRest DEF Q, V
  <2> QED
    BY <1>7, <2>4 DEF Inv
<1>13. CASE MayFree(l)
  <2>0. Ends(mem.conn, k.conn, l)
    BY <1>8, <1>13
  <2>1. Is(V[l].walk, {}) /\ Is(V[l].closing, {})
    BY <1>1, <1>2, <1>13, OneTick DEF NoView, Is
  <2>2. Core(k.conn, k.req, k.cache, Q, V)
    <3>1. Core(k.conn, mem.req, mem.cache, Q, V)
      BY <1>1, <1>9, <2>0, <2>1, CoreEnd
    <3> QED
      BY <1>9, <3>1
  <2>3. GroupsOK(k.conn, k.head, V)
    <3>1. ConnInv(mem.conn, mem.req)
      BY <1>1 DEF Core
    <3>2. GroupsOK(k.conn, mem.head, V)
      BY <1>1, <1>9, <2>0, <2>1, <3>1, GroupsEnd
    <3> QED
      BY <1>9, <3>2
  <2>4. \A c \in Conns : k.conn[c] = mem.conn[c] \/
          (mem.conn[c].life = "dead" /\ k.conn[c].life = "freed" /\ ~k.conn[c].own)
    BY <2>0 DEF Ends, NoConn
  <2>5. KeepOK(k.conn, k.keep)
    <3>1. \A x \in Loops : Kept(k.conn, x) = Kept(mem.conn, x)
      BY <2>4 DEF Kept
    <3> QED
      BY <1>1, <1>9, <3>1 DEF KeepOK
  <2>6. /\ \A d \in Conns : Carries(mem.conn[d], k.conn[d])
        /\ \A r \in Reqs : Fades(mem.req[r], k.req[r])
    BY <1>9, <2>4 DEF Carries, Fades
  <2>7. Sound(k, st2)
    BY <1>1, <1>6, <1>8, <1>9, <1>10, <1>11, <2>2, <2>3, <2>5, <2>6, SoundRest DEF Q, V
  <2> QED
    BY <1>7, <2>7 DEF Inv
<1> QED
  BY <1>12, <1>13

-----------------------------------------------------------------------------
(* Connects are made.                                                      *)

\* The requests in S, which nobody counts, are freed, others may become invalid.
Clears(m, d, S) ==
  /\ S \subseteq m.cache
  /\ \A r \in S : m.req[r].refs = 0 /\ d.req[r] = NoRequest
  /\ \A r \in Reqs \ S : ReqBut(m.req[r], d.req[r], {"valid"})
  /\ d.cache = m.cache \ S

\* What dropping expired entries does.
LEMMA ExpireEffect ==
  ASSUME NEW m \in Mem, NEW h, NEW d, d = DropExpired(m, h)
  PROVE  /\ d \in Mem /\ SameBut(m, d, {"req", "cache"})
         /\ \E S \in SUBSET Reqs : Clears(m, d, S)
<1> DEFINE E == {r \in Entry(m, h) : IsExpired(m, r)}
           S == {r \in E : m.req[r].refs = 0}
<1>1. IsMem(m) /\ m.req \in ReqMap /\ m.cache \in SUBSET Reqs
  BY MemParts
<1>2. PICK f : f = [r \in Reqs |-> IF r \in S THEN NoRequest
                                   ELSE [m.req[r] EXCEPT !.valid = m.req[r].valid /\ r \notin E]]
  OBVIOUS
<1>3. d = [m EXCEPT !.req = f, !.cache = @ \ S]
  BY <1>2 DEF DropExpired, NoRequest
<1>4. S \subseteq m.cache /\ S \in SUBSET Reqs /\ \A r \in S : m.req[r].refs = 0
  BY <1>1 DEF Entry
<1> HIDE DEF E, S
<1>5. f \in ReqMap
  <2> SUFFICES ASSUME NEW r \in Reqs PROVE f[r] \in ReqRecord
    BY <1>2 DEF ReqMap
  <2>1. CASE r \in S
    BY <1>2, <2>1, NoRequestType
  <2>2. CASE r \notin S
    <3>1. f[r] = [m.req[r] EXCEPT !.valid = m.req[r].valid /\ r \notin E]
      BY <1>2, <2>2
    <3>2. m.req[r] \in ReqRecord
      BY <1>1 DEF ReqMap
    <3>3. PICK v \in BOOLEAN : v = (m.req[r].valid /\ r \notin E)
      OBVIOUS
    <3>4. f[r] = [m.req[r] EXCEPT !.valid = v]
      BY <3>1, <3>3
    <3> QED
      BY <3>2, <3>4, Req_valid
  <2> QED
    BY <2>1, <2>2
<1>6. \A r \in Reqs \ S : ReqBut(m.req[r], f[r], {"valid"})
  BY <1>1, <1>2 DEF ReqBut, ReqMap, ReqRecord
<1>7. \A r \in S : f[r] = NoRequest
  BY <1>2, <1>4
<1>8. SameBut(m, d, {"req", "cache"}) /\ d.req = f /\ d.cache = m.cache \ S
  BY <1>1, <1>3 DEF IsMem, SameBut
<1>9. d \in Mem
  BY <1>1, <1>5, <1>8, SameMem DEF SameBut
<1>10. Clears(m, d, S)
  BY <1>4, <1>6, <1>7, <1>8 DEF Clears
<1>11. \E T \in SUBSET Reqs : Clears(m, d, T)
  BY <1>4, <1>10
<1> QED
  BY <1>8, <1>9, <1>11

\* A request in the cache is live.
LEMMA Cached ==
  ASSUME NEW conn, NEW req, NEW cache \in SUBSET Reqs, NEW Q, NEW V,
         Core(conn, req, cache, Q, V), NEW r \in cache
  PROVE  req[r].life = "live"
  BY DEF Core, RefInv, RefOK

\* Dropping expired entries keeps the core invariant.
LEMMA CoreClear ==
  ASSUME NEW m \in Mem, NEW d \in Mem, NEW Q \in QueueMap, NEW V \in ViewMap,
         Core(m.conn, m.req, m.cache, Q, V), NEW S \in SUBSET Reqs, Clears(m, d, S)
  PROVE  /\ Core(m.conn, d.req, d.cache, Q, V)
         /\ \A r \in Reqs : Fades(m.req[r], d.req[r])
<1>1. /\ m.conn \in ConnMap /\ m.req \in ReqMap /\ m.cache \in SUBSET Reqs
      /\ d.req \in ReqMap
  BY MemParts
<1> HIDE DEF NoRequest
<1>2. \A r \in S : m.req[r].life = "live"
  BY <1>1, Cached DEF Clears
<1>3. Empties(m.req, d.req, S) /\ Is(d.cache, m.cache \ S)
  BY <1>2 DEF Empties, Clears, Is, ReqBut, SameReq
<1>4. Core(m.conn, d.req, d.cache, Q, V)
  BY <1>1, <1>3, CoreFree
<1>5. \A r \in Reqs : Fades(m.req[r], d.req[r])
  BY NoRequestType DEF Clears, Fades, ReqBut
<1> QED
  BY <1>4, <1>5

\* A fresh one is one that is unused.
LEMMA FreshOne ==
  ASSUME NEW S, NEW x \in AnyOne(S)
  PROVE  x \in S
  BY DEF AnyOne

\* getaddrinfo finds request r, or it makes it.
Finds(d, r, g, n) ==
  /\ r \in d.cache /\ g.r = r /\ g.hit = (d.req[r].result # -1)
  /\ SetsRefs(d, g.m, r, n)

Asks(d, r, h, g, n) ==
  /\ r \in Reqs /\ d.req[r].life = "unused" /\ g.r = r /\ g.hit = FALSE
  /\ g.m \in TryPush([d EXCEPT !.req[r] = [NoReq EXCEPT !.life = "live", !.host = h,
                                                        !.refs = n + 1]], r)

\* getaddrinfo finds an entry or asks for a new request.
LEMMA GetCases ==
  ASSUME NEW m, NEW h, NEW n, NEW g \in GetAddrInfo(m, h, n)
  PROVE  \E r : Finds(DropExpired(m, h), r, g, n) \/ Asks(DropExpired(m, h), r, h, g, n)
<1>1. PICK d : d = DropExpired(m, h)
  OBVIOUS
<1>2. CASE Entry(d, h) # {}
  <2>1. PICK r \in Entry(d, h) : g = [m |-> [d EXCEPT !.req[r].refs = @ + n], r |-> r,
                                      hit |-> Resolved(d, r)]
    BY <1>1, <1>2 DEF GetAddrInfo
  <2>2. Finds(d, r, g, n)
    BY <2>1 DEF Finds, Entry, Resolved, SetsRefs
  <2> QED
    BY <1>1, <2>2
<1>3. CASE Entry(d, h) = {}
  <2>1. PICK r \in FreshReq(d) :
          \E k \in TryPush([d EXCEPT !.req[r] = [NoReq EXCEPT !.life = "live", !.host = h,
                                                              !.refs = n + 1]], r) :
            g = [m |-> k, r |-> r, hit |-> FALSE]
    BY <1>1, <1>3 DEF GetAddrInfo
  <2>2. r \in Reqs /\ d.req[r].life = "unused"
    <3>1. r \in {x \in Reqs : d.req[x].life = "unused"}
      BY <2>1, FreshOne DEF FreshReq
    <3> QED
      BY <3>1
  <2>3. Asks(d, r, h, g, n)
    BY <2>1, <2>2 DEF Asks
  <2> QED
    BY <1>1, <2>3
<1> QED
  BY <1>2, <1>3

\* r is one of the requests, and a hit is a result.
LEMMA GetType ==
  ASSUME NEW m \in Mem, NEW h, NEW n, NEW g \in GetAddrInfo(m, h, n)
  PROVE  g.r \in Reqs /\ g.hit \in BOOLEAN
<1>1. PICK d : d = DropExpired(m, h) /\ d \in Mem
  BY ExpireEffect
<1>2. PICK r : Finds(d, r, g, n) \/ Asks(d, r, h, g, n)
  BY <1>1, GetCases
<1>3. d.cache \in SUBSET Reqs
  BY <1>1, MemParts
<1> QED
  BY <1>2, <1>3 DEF Finds, Asks

\* tryPush: requests nobody counts may be freed, and r may get into the cache.
LEMMA PushEffect ==
  ASSUME NEW e \in Mem, NEW r \in Reqs, NEW k \in TryPush(e, r)
  PROVE  /\ k \in Mem /\ SameBut(e, k, {"req", "cache"})
         /\ \E d \in Mem, S \in SUBSET Reqs :
              Clears(e, d, S) /\ k.req = d.req /\ (k.cache = d.cache \/ k.cache = d.cache \cup {r})
<1>1. IsMem(e) /\ e.req \in ReqMap /\ e.cache \in SUBSET Reqs
  BY MemParts
<1>2. PICK d \in Mem, S \in SUBSET Reqs :
        /\ Clears(e, d, S) /\ SameBut(e, d, {"req", "cache"})
        /\ k = d \/ k = [d EXCEPT !.cache = d.cache \cup {r}]
  <2>1. CASE k = e \/ k = [e EXCEPT !.cache = e.cache \cup {r}]
    <3>1. Clears(e, e, {}) /\ SameBut(e, e, {"req", "cache"}) /\ {} \in SUBSET Reqs
      BY <1>1 DEF Clears, ReqBut, SameBut
    <3> QED
      BY <2>1, <3>1
  <2>2. CASE \E x \in e.cache : e.req[x].refs = 0 /\
               k = [Deinit(e, x) EXCEPT !.cache = Deinit(e, x).cache \cup {r}]
    <3>1. PICK x \in e.cache : e.req[x].refs = 0 /\
            k = [Deinit(e, x) EXCEPT !.cache = Deinit(e, x).cache \cup {r}]
      BY <2>2
    <3>2. PICK d : d = Deinit(e, x)
      OBVIOUS
    <3>3. x \in Reqs
      BY <1>1
    <3>4. /\ d \in Mem /\ SameBut(e, d, {"req", "cache"})
          /\ d.req = [e.req EXCEPT ![x] = NoRequest] /\ d.cache = e.cache \ {x}
      BY <3>2, <3>3, DeinitEffect
    <3> HIDE DEF NoRequest
    <3>5. Clears(e, d, {x})
      BY <1>1, <3>1, <3>3, <3>4 DEF Clears, ReqBut, ReqMap
    <3>6. {x} \in SUBSET Reqs
      BY <3>3
    <3> QED
      BY <3>1, <3>2, <3>4, <3>5, <3>6
  <2> QED
    BY <2>1, <2>2 DEF TryPush
<1>3. k \in Mem /\ SameBut(d, k, {"cache"}) /\ (k.cache = d.cache \/ k.cache = d.cache \cup {r})
  <2>1. CASE k = d
    BY <2>1, MemParts DEF SameBut
  <2>2. CASE k = [d EXCEPT !.cache = d.cache \cup {r}]
    <3>1. IsMem(d) /\ d.cache \in SUBSET Reqs
      BY MemParts
    <3>2. PICK a : a = d.cache \cup {r}
      OBVIOUS
    <3>3. SameBut(d, k, {"cache"}) /\ k.cache = a
      BY <2>2, <3>1, <3>2, SetCache
    <3>4. k.cache \in SUBSET Reqs
      BY <3>1, <3>2, <3>3
    <3>5. k \in Mem
      BY <3>3, <3>4, SameMem DEF SameBut
    <3> QED
      BY <3>2, <3>3, <3>5
  <2> QED
    BY <1>2, <2>1, <2>2
<1>4. SameBut(e, k, {"req", "cache"}) /\ k.req = d.req
  BY <1>2, <1>3 DEF SameBut
<1> QED
  BY <1>2, <1>3, <1>4

\* The n holders of request r are counted; if there is one it is a call of loop l.
Counts(req, req2, r, n) ==
  /\ \A q \in Reqs \ {r} : SameReq(req[q], req2[q])
  /\ req2[r].life = req[r].life /\ req2[r].result = req[r].result
  /\ req2[r].notify = req[r].notify /\ req2[r].moved = req[r].moved
  /\ req2[r].refs = req[r].refs + n

Borrows(V, V2, l, r, hit, n) ==
  \/ n = 0 /\ V2 = V
  \/ /\ n = 1 /\ V[l].borrow = {} /\ V[l].hit = {}
     /\ \A k \in Loops \ {l} : V2[k] = V[k]
     /\ V2[l].drain = V[l].drain /\ V2[l].closing = V[l].closing /\ V2[l].free = V[l].free
     /\ V2[l].borrow = {r} /\ V2[l].hit = {q \in {r} : hit}

\* A holder of a request is counted, a call that borrows it or none.
LEMMA CoreHeld ==
  ASSUME NEW conn \in ConnMap, NEW req \in ReqMap, NEW cache \in SUBSET Reqs,
         NEW Q \in QueueMap, NEW V \in ViewMap,
         Core(conn, req, cache, Q, V), NEW l \in Loops,
         NEW r \in Reqs, req[r].life = "live", NEW req2 \in ReqMap, NEW V2 \in ViewMap,
         NEW n, Counts(req, req2, r, n), NEW hit, hit => req[r].result # -1,
         Borrows(V, V2, l, r, hit, n)
  PROVE  Core(conn, req2, cache, Q, V2)
<1>1. CASE n = 0 /\ V2 = V
  <2>1. \A q \in Reqs : SameReq(req[q], req2[q])
    <3>1. req[r].refs \in Int
      BY DEF ReqMap, ReqRecord
    <3> QED
      BY <1>1, <3>1 DEF Counts, SameReq
  <2>2. \A c \in Conns : SameConn(conn[c], conn[c])
    BY DEF SameConn
  <2> QED
    BY <1>1, <2>1, <2>2, CoreSame
<1>2. CASE n = 1 /\ V[l].borrow = {}
  <2>1. Refers(req, req2, V, V2, r, l)
    BY <1>2, Bounds DEF Refers, Counts, Borrows
  <2> QED
    BY <2>1, CoreRefs
<1> QED
  BY <1>1, <1>2 DEF Borrows

\* ... and the wakeups, and who is live.
Wanes(q, p) == Fades(q, p) /\ (p.life = "live" => q.life = "live")

\* What becomes of the requests when expired entries are dropped.
LEMMA ClearWanes ==
  ASSUME NEW m, NEW d, NEW S, Clears(m, d, S), NEW x \in Reqs
  PROVE  Wanes(m.req[x], d.req[x])
  BY NoRequestType DEF Clears, Wanes, Fades, ReqBut

\* What getaddrinfo leaves behind.
Got(d, k, Q, V2) == /\ k \in Mem /\ SameBut(d, k, {"req", "cache"})
                    /\ Core(d.conn, k.req, k.cache, Q, V2)

\* An entry that answers is counted.
LEMMA FindsEffect ==
  ASSUME NEW d \in Mem, NEW Q \in QueueMap, NEW V \in ViewMap, Core(d.conn, d.req, d.cache, Q, V),
         NEW n \in {0, 1}, NEW r, NEW g, Finds(d, r, g, n),
         NEW l \in Loops, NEW V2 \in ViewMap, Borrows(V, V2, l, r, g.hit, n)
  PROVE  /\ Got(d, g.m, Q, V2)
         /\ \A x \in Reqs : Wanes(d.req[x], g.m.req[x])
<1>1. d.conn \in ConnMap /\ d.req \in ReqMap /\ d.cache \in SUBSET Reqs
  BY MemParts
<1>2. /\ r \in Reqs /\ d.req[r].life = "live" /\ g.hit = (d.req[r].result # -1)
      /\ SetsRefs(d, g.m, r, n) /\ n \in Int
  BY <1>1, Cached DEF Finds
<1>3. PICK k : k = g.m
  OBVIOUS
<1>4. /\ k \in Mem /\ SameBut(d, k, {"req"}) /\ Only(d.req, k.req, r)
      /\ ReqBut(d.req[r], k.req[r], {"refs"}) /\ k.req[r].refs = d.req[r].refs + n
  <2>1. SetsRefs(d, k, r, n)
    BY <1>2, <1>3
  <2> QED
    BY <1>2, <2>1, SetRefs
<1>5. k.req \in ReqMap /\ k.cache = d.cache /\ SameBut(d, k, {"req", "cache"})
  BY <1>4, MemParts DEF SameBut
<1>6. \A q \in Reqs \ {r} : k.req[q] = d.req[q]
  BY <1>1, <1>4 DEF Only, ReqMap
<1>7. Counts(d.req, k.req, r, n)
  BY <1>4, <1>6 DEF Counts, SameReq, ReqBut
<1>8. Core(d.conn, k.req, d.cache, Q, V2)
  BY <1>1, <1>2, <1>5, <1>7, CoreHeld
<1>9. \A x \in Reqs : Wanes(d.req[x], k.req[x])
  <2> SUFFICES ASSUME NEW x \in Reqs PROVE Wanes(d.req[x], k.req[x])
    OBVIOUS
  <2>1. CASE x = r
    BY <1>4, <2>1 DEF Wanes, Fades, ReqBut
  <2>2. CASE x # r
    BY <1>6, <2>2 DEF Wanes, Fades
  <2> QED
    BY <2>1, <2>2
<1> QED
  BY <1>3, <1>4, <1>5, <1>8, <1>9 DEF Got

\* A request that becomes live was unused.
Comes(q, p) == Fades(q, p) /\ (p.life = "live" => q.life \in {"live", "unused"})

NewReq(h, n) == [NoReq EXCEPT !.life = "live", !.host = h, !.refs = n]

\* A new request is a request.
LEMMA NewReqType ==
  ASSUME NEW h \in Hosts, NEW n \in Int
  PROVE  /\ NewReq(h, n) \in ReqRecord /\ NewReq(h, n).life = "live" /\ NewReq(h, n).result = -1
         /\ NewReq(h, n).notify = {} /\ NewReq(h, n).moved = {} /\ NewReq(h, n).refs = n
<1>1. NoReq \in ReqRecord /\ NoReq.notify = {} /\ NoReq.moved = {} /\ NoReq.result = -1
  BY DEF NoReq, ReqRecord
<1> HIDE DEF NoReq
<1>2. PICK a : a = [NoReq EXCEPT !.life = "live", !.host = h, !.refs = n]
  OBVIOUS
<1>3. /\ a \in ReqRecord /\ a.life = "live" /\ a.refs = n
      /\ a.notify = NoReq.notify /\ a.moved = NoReq.moved /\ a.result = NoReq.result
  BY <1>1, <1>2 DEF ReqRecord
<1> QED
  BY <1>1, <1>2, <1>3 DEF NewReq

\* A new request has its worker and its holders, in the cache or not.
LEMMA AsksEffect ==
  ASSUME NEW d \in Mem, NEW Q \in QueueMap, NEW V \in ViewMap, Core(d.conn, d.req, d.cache, Q, V),
         NEW n \in {0, 1}, NEW h \in Hosts, NEW r, NEW g, Asks(d, r, h, g, n),
         NEW l \in Loops, NEW V2 \in ViewMap, Borrows(V, V2, l, r, g.hit, n)
  PROVE  /\ Got(d, g.m, Q, V2)
         /\ \A x \in Reqs : Comes(d.req[x], g.m.req[x])
<1>1. /\ d.conn \in ConnMap /\ d.req \in ReqMap /\ d.cache \in SUBSET Reqs /\ IsMem(d)
  BY MemParts
<1>2. r \in Reqs /\ d.req[r].life = "unused" /\ g.hit = FALSE
  BY DEF Asks
<1>3. PICK e : e = [d EXCEPT !.req[r] = NewReq(h, n + 1)]
  OBVIOUS
<1>4. PICK k : k = g.m
  OBVIOUS
<1>5. k \in TryPush(e, r)
  BY <1>3, <1>4 DEF Asks, NewReq
<1>6. PICK a : a = NewReq(h, 1)
  OBVIOUS
<1>7. PICK b : b = NewReq(h, n + 1)
  OBVIOUS
<1>8. /\ a \in ReqRecord /\ a.life = "live" /\ a.result = -1
      /\ a.notify = {} /\ a.moved = {} /\ a.refs = 1
  BY <1>6, NewReqType
<1>9. /\ b \in ReqRecord /\ b.life = "live" /\ b.result = -1
      /\ b.notify = {} /\ b.moved = {} /\ b.refs = n + 1
  <2>1. n + 1 \in Int
    OBVIOUS
  <2> QED
    BY <1>7, <2>1, NewReqType
<1>10. SameBut(d, e, {"req"}) /\ e.req = [d.req EXCEPT ![r] = b]
  BY <1>1, <1>3, <1>7 DEF IsMem, SameBut
<1>11. PICK req0 : req0 = [d.req EXCEPT ![r] = a]
  OBVIOUS
<1>12. req0 \in ReqMap /\ e.req \in ReqMap
  BY <1>1, <1>8, <1>9, <1>10, <1>11 DEF ReqMap
<1>13. /\ req0[r] = a /\ e.req[r] = b
       /\ \A q \in Reqs \ {r} : req0[q] = d.req[q] /\ e.req[q] = d.req[q]
  BY <1>1, <1>2, <1>10, <1>11 DEF ReqMap
<1>14. e \in Mem
  BY <1>10, <1>12, SameMem DEF SameBut
<1>15. Makes(d.req, req0, r)
  BY <1>2, <1>8, <1>13 DEF Makes, SameReq
<1>16. Core(d.conn, req0, d.cache, Q, V)
  BY <1>1, <1>2, <1>12, <1>15, CoreNewReq
<1>17. Counts(req0, e.req, r, n)
  <2>1. \A q \in Reqs \ {r} : SameReq(req0[q], e.req[q])
    BY <1>13 DEF SameReq
  <2>2. b.refs = a.refs + n
    BY <1>8, <1>9
  <2> QED
    BY <1>8, <1>9, <1>13, <2>1, <2>2 DEF Counts
<1>18. Core(d.conn, e.req, d.cache, Q, V2)
  <2>1. req0[r].life = "live" /\ (g.hit => req0[r].result # -1)
    BY <1>2, <1>8, <1>13
  <2> QED
    BY <1>1, <1>2, <1>12, <1>16, <1>17, <2>1, CoreHeld
<1>19. e.conn = d.conn /\ e.cache = d.cache
  BY <1>10 DEF SameBut
<1>20. k \in Mem /\ SameBut(e, k, {"req", "cache"})
  BY <1>2, <1>5, <1>14, PushEffect
<1>21. PICK x \in Mem, S \in SUBSET Reqs :
         Clears(e, x, S) /\ k.req = x.req /\ (k.cache = x.cache \/ k.cache = x.cache \cup {r})
  BY <1>2, <1>5, <1>14, PushEffect
<1>22. Core(d.conn, x.req, x.cache, Q, V2)
  <2>1. Core(e.conn, e.req, e.cache, Q, V2)
    BY <1>18, <1>19
  <2>2. Core(e.conn, x.req, x.cache, Q, V2)
    BY <1>14, <1>21, <2>1, CoreClear
  <2> QED
    BY <1>19, <2>2
<1>23. x.req[r].life = "live"
  <2>1. r \notin S
    BY <1>9, <1>13, <1>21 DEF Clears
  <2> QED
    BY <1>2, <1>9, <1>13, <1>21, <2>1 DEF Clears, ReqBut
<1>24. Core(d.conn, k.req, k.cache, Q, V2)
  BY <1>21, <1>22, <1>23, CoreCached
<1>25. \A q \in Reqs : Comes(d.req[q], k.req[q])
  <2> SUFFICES ASSUME NEW q \in Reqs PROVE Comes(d.req[q], k.req[q])
    OBVIOUS
  <2>1. Wanes(e.req[q], x.req[q])
    BY <1>21, ClearWanes
  <2>2. CASE q = r
    BY <1>2, <1>9, <1>13, <1>21, <2>1, <2>2 DEF Wanes, Fades, Comes
  <2>3. CASE q # r
    BY <1>13, <1>21, <2>1, <2>3 DEF Wanes, Comes
  <2> QED
    BY <2>2, <2>3
<1>26. SameBut(d, k, {"req", "cache"})
  BY <1>10, <1>20 DEF SameBut
<1> QED
  BY <1>4, <1>20, <1>24, <1>25, <1>26 DEF Got

\* getaddrinfo, called by nobody or by loop l, which will hold the request.
LEMMA GetEffect ==
  ASSUME NEW m \in Mem, NEW Q \in QueueMap, NEW V \in ViewMap, Core(m.conn, m.req, m.cache, Q, V),
         NEW n \in {0, 1}, NEW h \in Hosts, NEW g \in GetAddrInfo(m, h, n),
         NEW l \in Loops, NEW V2 \in ViewMap, Borrows(V, V2, l, g.r, g.hit, n)
  PROVE  /\ Got(m, g.m, Q, V2)
         /\ \A x \in Reqs : Fades(m.req[x], g.m.req[x])
<1>1. PICK d : d = DropExpired(m, h)
  OBVIOUS
<1>2. d \in Mem /\ SameBut(m, d, {"req", "cache"})
  BY <1>1, ExpireEffect
<1>3. PICK S \in SUBSET Reqs : Clears(m, d, S)
  BY <1>1, ExpireEffect
<1>4. d.conn = m.conn
  BY <1>2 DEF SameBut
<1>5. Core(d.conn, d.req, d.cache, Q, V)
  BY <1>2, <1>3, <1>4, CoreClear
<1>6. \A x \in Reqs : Wanes(m.req[x], d.req[x]) /\ (d.req[x].life = "unused" => m.req[x].life = "unused")
  <2> SUFFICES ASSUME NEW x \in Reqs
               PROVE  /\ Wanes(m.req[x], d.req[x])
                      /\ d.req[x].life = "unused" => m.req[x].life = "unused"
    OBVIOUS
  <2>1. Wanes(m.req[x], d.req[x])
    BY <1>3, ClearWanes
  <2>2. CASE x \in S
    BY <1>3, <2>1, <2>2, NoRequestType DEF Clears
  <2>3. CASE x \notin S
    BY <1>3, <2>1, <2>3 DEF Clears, ReqBut
  <2> QED
    BY <2>2, <2>3
<1>7. PICK r : Finds(d, r, g, n) \/ Asks(d, r, h, g, n)
  BY <1>1, GetCases
<1>8. Got(d, g.m, Q, V2) /\ \A x \in Reqs : Comes(d.req[x], g.m.req[x])
  <2>1. CASE Finds(d, r, g, n)
    <3>1. g.r = r
      BY <2>1 DEF Finds
    <3>2. Borrows(V, V2, l, r, g.hit, n)
      BY <3>1
    <3>3. Got(d, g.m, Q, V2) /\ \A x \in Reqs : Wanes(d.req[x], g.m.req[x])
      BY <1>2, <1>5, <2>1, <3>2, FindsEffect
    <3> QED
      BY <3>3 DEF Wanes, Comes
  <2>2. CASE Asks(d, r, h, g, n)
    <3>1. g.r = r
      BY <2>2 DEF Asks
    <3>2. Borrows(V, V2, l, r, g.hit, n)
      BY <3>1
    <3> QED
      BY <1>2, <1>5, <2>2, <3>2, AsksEffect
  <2> QED
    BY <1>7, <2>1, <2>2
<1>9. Got(m, g.m, Q, V2)
  BY <1>2, <1>4, <1>8 DEF Got, SameBut
<1>10. \A x \in Reqs : Fades(m.req[x], g.m.req[x])
  <2> SUFFICES ASSUME NEW x \in Reqs PROVE Fades(m.req[x], g.m.req[x])
    OBVIOUS
  <2>1. Wanes(m.req[x], d.req[x]) /\ (d.req[x].life = "unused" => m.req[x].life = "unused")
    BY <1>6
  <2>2. Comes(d.req[x], g.m.req[x])
    BY <1>8
  <2> QED
    BY <2>1, <2>2 DEF Wanes, Comes, Fades
<1> QED
  BY <1>9, <1>10

\* User code asks for hosts.
LEMMA NamesAreHosts ==
  ASSUME NEW m, NEW h \in Names(m)
  PROVE  h \in Hosts
<1> DEFINE known == {m.req[r].host : r \in Reqs} \cap Hosts
<1>1. h \in known \/ h \in AnyOne(Hosts \ known)
  BY DEF Names
<1>2. CASE h \in known
  BY <1>2
<1>3. CASE h \in AnyOne(Hosts \ known)
  <2> HIDE DEF known
  <2>1. h \in Hosts \ known
    BY <1>3, FreshOne
  <2> QED
    BY <2>1
<1> QED
  BY <1>1, <1>2, <1>3

\* User code prefetches a name.
LEMMA PrefetchStep ==
  ASSUME Inv, NEW l \in Loops, NEW h \in Hosts, Prefetch(l, h)
  PROVE  Inv'
<1>1. PICK g \in GetAddrInfo(mem, h, 0) : mem' = g.m
  BY DEF Prefetch
<1>2. stack' = stack
  BY DEF Prefetch
<1>3. PICK Q : Q = QueueOf(mem.ready)
  OBVIOUS
<1>4. PICK V : V = ViewOf(stack)
  OBVIOUS
<1>5. /\ Sound(mem, stack) /\ mem \in Mem /\ Q \in QueueMap /\ V \in ViewMap
      /\ Core(mem.conn, mem.req, mem.cache, Q, V)
  BY <1>3, <1>4, SoundParts DEF Inv
<1>6. Borrows(V, V, l, g.r, g.hit, 0) /\ 0 \in {0, 1}
  BY DEF Borrows
<1>7. Got(mem, g.m, Q, V) /\ \A x \in Reqs : Fades(mem.req[x], g.m.req[x])
  BY <1>5, <1>6, GetEffect
<1>8. PICK k : k = g.m
  OBVIOUS
<1>9. /\ k \in Mem /\ SameBut(mem, k, {"req", "cache"})
      /\ Core(mem.conn, k.req, k.cache, QueueOf(mem.ready), ViewOf(stack))
  BY <1>3, <1>4, <1>7, <1>8 DEF Got
<1>10. \A x \in Reqs : Fades(mem.req[x], k.req[x])
  BY <1>7, <1>8
<1>11. Sound(k, stack)
  BY <1>5, <1>9, <1>10, SoundReqs
<1> QED
  BY <1>1, <1>2, <1>8, <1>11 DEF Inv

\* The first half of a connect put on a stack, and taken from it.
PushesConnect(v, w, r, hit) ==
  /\ w.drain = v.drain /\ w.closing = v.closing /\ w.free = v.free /\ w.walk = v.walk
  /\ v.borrow = {} /\ v.hit = {} /\ v.walk = {}
  /\ w.borrow = {r} /\ w.hit = {q \in {r} : hit}

\* A stack without the first half of a connect borrows no request.
LEMMA NoneBorrowed ==
  ASSUME NEW s, NoConnect(s)
  PROVE  View(s).borrow = {} /\ View(s).hit = {}
  BY DEF NoConnect, View, Held

OnConnect(s, b, r, h) == s = <<[k |-> "connect", r |-> r, hit |-> h]>> \o b

\* The first half of a connect put on a stack.
LEMMA PushConnect ==
  ASSUME NEW b, Good(b), NoConnect(b), Is(View(b).walk, {}), NEW r \in Reqs, NEW h \in BOOLEAN,
         NEW s, OnConnect(s, b, r, h)
  PROVE  /\ Good(s) /\ (Dispatching(s) <=> Dispatching(b))
         /\ PushesConnect(View(b), View(s), r, h)
<1> USE DEF OnConnect, Is
<1> DEFINE f == [k |-> "connect", r |-> r, hit |-> h]
<1>0. View(b) \in Views /\ View(b).borrow = {} /\ View(b).hit = {}
  BY ViewType, NoneBorrowed
<1>1. f \in Frame /\ f.k = "connect" /\ PushesConnect(View(b), Both(Held(f), View(b)), r, h)
  BY <1>0, HeldByConnect DEF PushesConnect
<1> HIDE DEF f
<1>2. /\ Good(s) /\ View(s) = Both(Held(f), View(b))
      /\ Dispatching(s) <=> Dispatching(b)
  <2>1. s = <<f>> \o b
    BY DEF f
  <2> QED
    BY <1>1, <2>1, StackPush
<1> QED
  BY <1>1, <1>2

\* The first half of a connect taken from a stack.
LEMMA PopConnect ==
  ASSUME NEW s, Good(s), s # <<>>, Head(s).k = "connect"
  PROVE  /\ Good(Tail(s)) /\ NoConnect(Tail(s)) /\ (Dispatching(s) <=> Dispatching(Tail(s)))
         /\ Head(s).r \in Reqs /\ Head(s).hit \in BOOLEAN
         /\ PushesConnect(View(Tail(s)), View(s), Head(s).r, Head(s).hit)
<1> DEFINE f == Head(s)
           t == Tail(s)
<1>1. /\ f \in Frame /\ Good(t) /\ NoConnect(t) /\ View(s) = Both(Held(f), View(t))
      /\ Dispatching(s) <=> Dispatching(t)
      /\ View(t).walk = {}
  BY StackTop
<1>2. f.r \in Reqs /\ f.hit \in BOOLEAN /\ f = [k |-> "connect", r |-> f.r, hit |-> f.hit]
  BY <1>1, FrameKinds
<1>3. PICK r \in Reqs : r = f.r
  BY <1>2
<1>4. PICK h \in BOOLEAN : h = f.hit
  BY <1>2
<1>5. f = [k |-> "connect", r |-> r, hit |-> h]
  BY <1>2, <1>3, <1>4
<1>6. View(t) \in Views /\ View(t).borrow = {} /\ View(t).hit = {}
  BY <1>1, ViewType, NoneBorrowed
<1>8. View(t).walk = {}
  BY <1>1
<1> HIDE DEF f, t
<1>7. PushesConnect(View(t), Both(Held([k |-> "connect", r |-> r, hit |-> h]), View(t)), r, h)
  BY <1>6, <1>8, HeldByConnect DEF PushesConnect
<1> QED
  BY <1>1, <1>3, <1>4, <1>5, <1>7 DEF f, t

\* User code connects to a name, up to the request.
LEMMA ConnectStep ==
  ASSUME Inv, NEW l \in Loops, NEW h \in Hosts, Connect(l, h)
  PROVE  Inv'
<1>1. PICK g \in GetAddrInfo(mem, h, 1) :
        /\ mem' = g.m
        /\ stack' = [stack EXCEPT ![l] = <<[k |-> "connect", r |-> g.r, hit |-> g.hit]>> \o stack[l]]
  BY DEF Connect, Do, Outcome
<1>2. PICK Q : Q = QueueOf(mem.ready)
  OBVIOUS
<1>3. PICK V : V = ViewOf(stack)
  OBVIOUS
<1>4. /\ Sound(mem, stack) /\ mem \in Mem /\ stack \in [Loops -> Seq(Frame)] /\ Good(stack[l])
      /\ Q \in QueueMap /\ V \in ViewMap /\ V[l] = View(stack[l])
      /\ Core(mem.conn, mem.req, mem.cache, Q, V) /\ KeepOK(mem.conn, mem.keep)
  BY <1>2, <1>3, SoundParts DEF Inv
<1>5. NoConnect(stack[l])
  <2>1. stack[l] = <<>> \/ Head(stack[l]).k # "connect"
    BY DEF Connect, Call, At, Top
  <2> QED
    BY <1>4, <2>1, NoCall
<1>6. View(stack[l]).walk = {}
  BY <1>4, NoWalk DEF Connect
<1>7. g.r \in Reqs /\ g.hit \in BOOLEAN
  BY <1>4, GetType
<1>8. PICK s : s = <<[k |-> "connect", r |-> g.r, hit |-> g.hit]>> \o stack[l]
  OBVIOUS
<1>9. /\ Good(s) /\ (Dispatching(s) <=> Dispatching(stack[l]))
      /\ PushesConnect(View(stack[l]), View(s), g.r, g.hit)
  <2>1. Is(View(stack[l]).walk, {}) /\ OnConnect(s, stack[l], g.r, g.hit)
    BY <1>6, <1>8 DEF Is, OnConnect
  <2> QED
    BY <1>4, <1>5, <1>7, <2>1, PushConnect
<1>10. stack' = [stack EXCEPT ![l] = s]
  BY <1>1, <1>8
<1>11. PICK V2 : V2 = ViewOf(stack')
  OBVIOUS
<1>12. Turns(V, V2, l, View(s))
  BY <1>3, <1>4, <1>10, <1>11, ViewAt
<1>13. V2 \in ViewMap /\ Borrows(V, V2, l, g.r, g.hit, 1) /\ 1 \in {0, 1}
  BY <1>4, <1>9, <1>12 DEF Turns, Borrows, PushesConnect
<1>14. Got(mem, g.m, Q, V2) /\ \A x \in Reqs : Fades(mem.req[x], g.m.req[x])
  BY <1>4, <1>13, GetEffect
<1>15. PICK k : k = g.m
  OBVIOUS
<1>16. k \in Mem /\ SameBut(mem, k, {"req", "cache"}) /\ Core(mem.conn, k.req, k.cache, Q, V2)
  BY <1>14, <1>15 DEF Got
<1>17. /\ k.conn = mem.conn /\ k.head = mem.head /\ k.keep = mem.keep
       /\ k.ready = mem.ready /\ k.wake = mem.wake
  BY <1>16 DEF SameBut
<1>18. \A x \in Reqs : Fades(mem.req[x], k.req[x])
  BY <1>14, <1>15
<1>19. GroupsOK(k.conn, k.head, ViewOf(stack'))
  <2>1. View(s).walk \subseteq View(stack[l]).walk
    BY <1>9 DEF PushesConnect
  <2>2. GroupsOK(mem.conn, mem.head, ViewOf(stack'))
    BY <1>4, <1>10, <2>1, GroupsFewer
  <2> QED
    BY <1>17, <2>2
<1>20. \A d \in Conns : Carries(mem.conn[d], k.conn[d])
  BY <1>17 DEF Carries
<1>21. Core(k.conn, k.req, k.cache, QueueOf(mem.ready), ViewOf(stack'))
  BY <1>2, <1>11, <1>16, <1>17
<1>22. Dispatching(stack[l]) => Dispatching(s)
  BY <1>9
<1>23. KeepOK(k.conn, k.keep)
  BY <1>4, <1>17
<1>24. Sound(k, stack')
  BY <1>4, <1>9, <1>10, <1>16, <1>17, <1>18, <1>19, <1>20, <1>21, <1>22, <1>23, SoundRest
<1> QED
  BY <1>1, <1>15, <1>24 DEF Inv

\* What a loop's connect has borrowed is live.
LEMMA BorrowedLive ==
  ASSUME NEW conn, NEW req, NEW cache, NEW Q, NEW V, Core(conn, req, cache, Q, V),
         NEW l \in Loops, NEW r \in Reqs, r \in V[l].borrow
  PROVE  req[r].life = "live"
  BY DEF Core, RefInv, RefOK, BorrowersOf

\* The call no longer borrows its request.
GivesUp(l, r, err, k, st2) == /\ k = freeaddrinfo(mem, r, err)
                               /\ st2 = [stack EXCEPT ![l] = <<>> \o Tail(stack[l])]

\* The result was cached, and the reference is given back at once.
LEMMA CachedStep ==
  ASSUME Inv, NEW l \in Loops, stack[l] # <<>>, Head(stack[l]).k = "connect",
         NEW r, r = Head(stack[l]).r, NEW err \in BOOLEAN,
         NEW k, NEW st2, GivesUp(l, r, err, k, st2)
  PROVE  Sound(k, st2)
<1>1. PICK Q : Q = QueueOf(mem.ready)
  OBVIOUS
<1>2. PICK V : V = ViewOf(stack)
  OBVIOUS
<1>3. /\ Sound(mem, stack) /\ mem \in Mem /\ stack \in [Loops -> Seq(Frame)] /\ Good(stack[l])
      /\ mem.conn \in ConnMap /\ mem.req \in ReqMap /\ mem.cache \in SUBSET Reqs
      /\ Q \in QueueMap /\ V \in ViewMap /\ V[l] = View(stack[l])
      /\ Core(mem.conn, mem.req, mem.cache, Q, V) /\ KeepOK(mem.conn, mem.keep)
  BY <1>1, <1>2, SoundParts DEF Inv
<1>4. PICK t : t = Tail(stack[l])
  OBVIOUS
<1>5. /\ Good(t) /\ (Dispatching(stack[l]) <=> Dispatching(t)) /\ r \in Reqs
      /\ PushesConnect(View(t), View(stack[l]), r, Head(stack[l]).hit)
  BY <1>3, <1>4, PopConnect
<1>6. st2 = [stack EXCEPT ![l] = t]
  <2>1. <<>> \o t = t
    BY <1>5, ConcatEmptySeq DEF Good
  <2> QED
    BY <1>4, <2>1 DEF GivesUp
<1>7. PICK V2 : V2 = ViewOf(st2)
  OBVIOUS
<1>8. Turns(V, V2, l, View(t))
  BY <1>2, <1>3, <1>6, <1>7, ViewAt
<1>9. /\ k \in Mem /\ SameBut(mem, k, {"req", "cache"})
      /\ Loosens(mem.req, mem.cache, k.req, k.cache, r, {})
  BY <1>3, <1>5, FreeEffect DEF GivesUp
<1>10. PICK q \in ReqMap :
         /\ Only(mem.req, q, r) /\ ReqBut(mem.req[r], q[r], {"notify", "refs", "valid"})
         /\ q[r].notify = mem.req[r].notify \ {} /\ q[r].refs = mem.req[r].refs - 1
         /\ Drops(q, mem.cache, k.req, k.cache, r)
  BY <1>9, Zenon DEF Loosens
<1>11. r \in V[l].borrow
  BY <1>3, <1>5 DEF PushesConnect
<1>12. mem.req[r].life = "live"
  BY <1>3, <1>5, <1>11, BorrowedLive
<1>13. Refers(mem.req, q, V, V2, r, l)
  <2>1. \A x \in Reqs \ {r} : SameReq(mem.req[x], q[x])
    BY <1>3, <1>10 DEF SameReq, Only, ReqMap
  <2>2. /\ q[r].life = mem.req[r].life /\ q[r].result = mem.req[r].result
        /\ q[r].notify = mem.req[r].notify /\ q[r].moved = mem.req[r].moved
        /\ q[r].refs = mem.req[r].refs - 1
    BY <1>10 DEF ReqBut
  <2>3. /\ V2[l].drain = V[l].drain /\ V2[l].closing = V[l].closing /\ V2[l].free = V[l].free
        /\ V2[l].borrow = V[l].borrow \ {r} /\ V2[l].hit = {}
    BY <1>3, <1>5, <1>8 DEF Turns, PushesConnect
  <2> QED
    BY <1>8, <1>11, <1>12, <2>1, <2>2, <2>3, Zenon DEF Turns, Refers
<1>14. V2 \in ViewMap
  BY <1>8 DEF Turns
<1>15. Core(mem.conn, q, mem.cache, Q, V2)
  BY <1>3, <1>5, <1>13, <1>14, CoreRefs
<1>16. Core(mem.conn, k.req, k.cache, Q, V2)
  <2>1. q[r].life = "live"
    BY <1>10, <1>12 DEF ReqBut
  <2> QED
    BY <1>3, <1>5, <1>10, <1>14, <1>15, <2>1, CoreLoosen
<1>17. /\ k.conn = mem.conn /\ k.head = mem.head /\ k.keep = mem.keep
       /\ k.ready = mem.ready /\ k.wake = mem.wake
  BY <1>9 DEF SameBut
<1>18. \A x \in Reqs : Fades(mem.req[x], k.req[x])
  BY <1>3, <1>5, <1>9, LoosensKeeps
<1>19. GroupsOK(k.conn, k.head, ViewOf(st2))
  <2>1. View(t).walk \subseteq View(stack[l]).walk
    BY <1>5 DEF PushesConnect
  <2>2. GroupsOK(mem.conn, mem.head, ViewOf(st2))
    BY <1>3, <1>6, <2>1, GroupsFewer
  <2> QED
    BY <1>17, <2>2
<1>20. \A d \in Conns : Carries(mem.conn[d], k.conn[d])
  BY <1>17 DEF Carries
<1>21. Core(k.conn, k.req, k.cache, QueueOf(mem.ready), ViewOf(st2))
  BY <1>1, <1>7, <1>16, <1>17
<1>22. KeepOK(k.conn, k.keep) /\ (Dispatching(stack[l]) => Dispatching(t))
  BY <1>3, <1>5, <1>17
<1>23. Sound(mem, stack) /\ Good(t) /\ k \in Mem /\ k.ready = mem.ready /\ k.wake = mem.wake
  BY <1>3, <1>5, <1>9, <1>17
<1> QED
  BY <1>6, <1>18, <1>19, <1>20, <1>21, <1>22, <1>23, SoundRest

-----------------------------------------------------------------------------
(* A connect is made.                                                      *)

NewConn(l, r) == [NoConn EXCEPT !.life = "live", !.loop = l, !.req = r, !.pending = TRUE]

IsNew(s, l, r) ==
  /\ s.life = "live" /\ s.loop = l /\ s.req = r /\ s.pending /\ ~s.closed
  /\ s.att = NoAttempts /\ s.told = 0

\* A new connect is a connect.
LEMMA NewConnType ==
  ASSUME NEW l \in Loops, NEW r \in Reqs
  PROVE  NewConn(l, r) \in ConnRecord /\ IsNew(NewConn(l, r), l, r) /\ ~NewConn(l, r).own
<1>1. NoAttempts \in Atts
  BY DEF NoAttempts, Atts
<1> HIDE DEF NoAttempts
<1>2. NoConn \in ConnRecord
  BY <1>1 DEF NoConn, ConnRecord, Atts, Ptr
<1>3. /\ NoConn.att = NoAttempts /\ NoConn.told = 0 /\ NoConn.closed = FALSE
      /\ NoConn.own = FALSE
  BY DEF NoConn
<1> HIDE DEF NoConn
<1>4. PICK a : a = [NoConn EXCEPT !.life = "live", !.loop = l, !.req = r, !.pending = TRUE]
  OBVIOUS
<1>5. /\ a \in ConnRecord /\ a.life = "live" /\ a.loop = l /\ a.req = r /\ a.pending
      /\ a.closed = NoConn.closed /\ a.att = NoConn.att /\ a.told = NoConn.told
      /\ a.own = NoConn.own
  BY <1>2, <1>4 DEF ConnRecord
<1> QED
  BY <1>3, <1>4, <1>5 DEF NewConn, IsNew

Allocates(m, a, l, c, r) == a = [m EXCEPT !.conn[c] = NewConn(l, r), !.keep[l] = @ + 1]

\* What allocating a connect does.
LEMMA AllocEffect ==
  ASSUME NEW m \in Mem, NEW l \in Loops, NEW c \in Conns, NEW r \in Reqs,
         NEW a, Allocates(m, a, l, c, r)
  PROVE  /\ a \in Mem /\ SameBut(m, a, {"conn", "keep"}) /\ Only(m.conn, a.conn, c)
         /\ IsNew(a.conn[c], l, r) /\ ~a.conn[c].own
         /\ a.keep = [m.keep EXCEPT ![l] = m.keep[l] + 1]
<1>1. IsMem(m) /\ m.conn \in ConnMap /\ m.keep \in [Loops -> Int]
  BY MemParts
<1>2. PICK s : s = NewConn(l, r)
  OBVIOUS
<1>3. s \in ConnRecord /\ IsNew(s, l, r) /\ ~s.own
  BY <1>2, NewConnType
<1>4. /\ SameBut(m, a, {"conn", "keep"})
      /\ a.conn = [m.conn EXCEPT ![c] = s] /\ a.keep = [m.keep EXCEPT ![l] = m.keep[l] + 1]
  BY <1>1, <1>2 DEF Allocates, IsMem, SameBut
<1>s. c \in Conns /\ Puts(m.conn, a.conn, c, s)
  BY <1>4 DEF Puts
<1>5. a.conn \in ConnMap /\ Only(m.conn, a.conn, c) /\ a.conn[c] = s
  BY ONLY <1>1, <1>3, <1>s, SetConnAt
<1>6. a.keep \in [Loops -> Int]
  BY <1>1, <1>4
<1>7. a \in Mem
  BY <1>4, <1>5, <1>6, SameMem DEF SameBut
<1> QED
  BY <1>3, <1>4, <1>5, <1>7

\* A connect is put at the head of its loop's list.
Links(conn, conn2, h, c) ==
  /\ ConnBut(conn[c], conn2[c], {"np", "pp", "linked"})
  /\ conn2[c].np = h /\ conn2[c].pp = Null /\ conn2[c].linked
  /\ \A d \in Conns \ {c} : /\ ConnBut(conn[d], conn2[d], {"pp"})
                            /\ conn2[d].pp = IF d = h THEN c ELSE conn[d].pp

\* What link_connecting_socket does.
LEMMA LinkEffect ==
  ASSUME NEW a \in Mem, NEW l \in Loops, NEW c \in Conns, a.head[l] # c,
         NEW b, b = LinkConnecting(a, l, c)
  PROVE  /\ b \in Mem /\ SameBut(a, b, {"conn", "head"})
         /\ b.head = [a.head EXCEPT ![l] = c] /\ Links(a.conn, b.conn, a.head[l], c)
<1>1. IsMem(a) /\ a.conn \in ConnMap /\ a.head \in [Loops -> Ptr]
  BY MemParts
<1>2. PICK h : h = a.head[l]
  OBVIOUS
<1>3. h \in Ptr /\ h # c
  BY <1>1, <1>2
<1>4. PICK n : n = [a EXCEPT !.conn[c].np = h, !.conn[c].pp = Null,
                             !.conn[c].linked = TRUE, !.head[l] = c]
  OBVIOUS
<1>5. PICK s : s = [a.conn[c] EXCEPT !.np = h, !.pp = Null, !.linked = TRUE]
  OBVIOUS
<1>6. a.conn[c] \in ConnRecord
  BY <1>1 DEF ConnMap
<1>7. /\ s \in ConnRecord /\ ConnBut(a.conn[c], s, {"np", "pp", "linked"})
      /\ s.np = h /\ s.pp = Null /\ s.linked
  BY <1>3, <1>5, <1>6 DEF ConnRecord, ConnBut, Ptr
<1>8. /\ SameBut(a, n, {"conn", "head"}) /\ n.head = [a.head EXCEPT ![l] = c]
      /\ n.conn = [a.conn EXCEPT ![c].np = h, ![c].pp = Null, ![c].linked = TRUE]
  BY <1>1, <1>4 DEF IsMem, SameBut
<1>9. n.conn = [a.conn EXCEPT ![c] = s]
  BY <1>1, <1>5, <1>8 DEF ConnMap
<1>10. n.conn \in ConnMap /\ n.conn[c] = s /\ \A d \in Conns \ {c} : n.conn[d] = a.conn[d]
  BY <1>1, <1>7, <1>9 DEF ConnMap
<1>11. n.head \in [Loops -> Ptr]
  BY <1>1, <1>8 DEF Ptr
<1>12. n \in Mem
  BY <1>8, <1>10, <1>11, SameMem DEF SameBut
<1>13. CASE h = Null
  <2>1. b = n
    BY <1>2, <1>4, <1>13 DEF LinkConnecting
  <2>2. \A d \in Conns \ {c} : d # h
    BY <1>13, Bounds
  <2>3. Links(a.conn, b.conn, h, c)
    BY <1>7, <1>10, <2>1, <2>2 DEF Links, ConnBut
  <2> QED
    BY <1>2, <1>8, <1>12, <2>1, <2>3
<1>14. CASE h # Null
  <2>1. h \in Conns
    BY <1>3, <1>14 DEF Ptr
  <2>2. b = [n EXCEPT !.conn[h].pp = c]
    BY <1>2, <1>4, <1>14 DEF LinkConnecting
  <2>3. /\ b \in Mem /\ SameBut(n, b, {"conn"}) /\ Only(n.conn, b.conn, h)
        /\ ConnBut(n.conn[h], b.conn[h], {"pp"}) /\ b.conn[h].pp = c
    <3>1. c \in Ptr
      BY DEF Ptr
    <3>2. SetsPrev(n, b, h, c)
      BY <2>2 DEF SetsPrev
    <3> QED
      BY <1>12, <2>1, <3>1, <3>2, SetPrev
  <2>4. \A d \in Conns \ {h} : b.conn[d] = n.conn[d]
    BY <1>10, <2>3 DEF Only, ConnMap
  <2>5. b.conn[c] = s
    BY <1>3, <1>10, <2>4
  <2>6. Links(a.conn, b.conn, h, c)
    <3>1. ASSUME NEW d \in Conns \ {c}
          PROVE  /\ ConnBut(a.conn[d], b.conn[d], {"pp"})
                 /\ b.conn[d].pp = IF d = h THEN c ELSE a.conn[d].pp
      <4>1. n.conn[d] = a.conn[d]
        BY <1>10
      <4>2. CASE d = h
        BY ONLY <2>3, <4>1, <4>2
      <4>3. CASE d # h
        <5>1. b.conn[d] = a.conn[d]
          BY <2>4, <4>1, <4>3
        <5> QED
          BY ONLY <4>3, <5>1 DEF ConnBut
      <4> QED
        BY <4>2, <4>3
    <3> QED
      BY ONLY <1>7, <2>5, <3>1 DEF Links
  <2>7. SameBut(a, b, {"conn", "head"}) /\ b.head = n.head
    BY <1>8, <2>3 DEF SameBut
  <2> QED
    BY <1>2, <1>8, <2>3, <2>6, <2>7, Zenon
<1> QED
  BY <1>13, <1>14

\* us_getaddrinfo_set: a new connect waits for the result, or is queued with it.
Enlists(b, e, l, c, r) ==
  /\ SameBut(b, e, {"conn", "req", "ready"}) /\ Only(b.conn, e.conn, c)
  /\ ConnBut(b.conn[c], e.conn[c], {"own"})
  /\ \/ /\ b.req[r].result # -1 /\ e.conn[c].own /\ e.req = b.req
        /\ e.ready = [b.ready EXCEPT ![l] = <<c>> \o b.ready[l]]
     \/ /\ b.req[r].result = -1 /\ e.conn[c].own = b.conn[c].own /\ e.ready = b.ready
        /\ Only(b.req, e.req, r) /\ ReqBut(b.req[r], e.req[r], {"notify"})
        /\ e.req[r].notify = b.req[r].notify \cup {c}

\* What us_getaddrinfo_set does.
LEMMA EnlistEffect ==
  ASSUME NEW b \in Mem, NEW l \in Loops, NEW c \in Conns, NEW r \in Reqs, b.conn[c].loop = l,
         NEW e, e = us_getaddrinfo_set(b, r, c)
  PROVE  e \in Mem /\ Enlists(b, e, l, c, r)
<1>1. /\ IsMem(b) /\ b.conn \in ConnMap /\ b.req \in ReqMap
      /\ b.ready \in [Loops -> Seq(Conns)]
  BY MemParts
<1>2. CASE b.req[r].result # -1
  <2>1. PICK x : x = [b EXCEPT !.conn[c].own = TRUE]
    OBVIOUS
  <2>2. /\ x \in Mem /\ SameBut(b, x, {"conn"}) /\ Only(b.conn, x.conn, c)
        /\ ConnBut(b.conn[c], x.conn[c], {"own"}) /\ x.conn[c].own
    BY <2>1, SetOwn
  <2>3. IsMem(x) /\ x.ready = b.ready /\ x.req = b.req /\ x.conn[c].loop = l
    BY <2>2 DEF SameBut, ConnBut
  <2>4. PICK d : d = <<c>> \o b.ready[l]
    OBVIOUS
  <2>5. SetsReady(x, e, l, d)
    <3>1. e = DnsCallback(x, c)
      BY <1>2, <2>1 DEF us_getaddrinfo_set, Resolved
    <3> QED
      BY <2>3, <2>4, <3>1 DEF DnsCallback, SetsReady
  <2>6. SameBut(x, e, {"ready"}) /\ e.ready = [b.ready EXCEPT ![l] = d]
    <3>1. SameBut(x, e, {"ready"}) /\ Is(e.ready, [x.ready EXCEPT ![l] = d])
      BY <2>3, <2>5, SetReady
    <3> QED
      BY <2>3, <3>1 DEF Is
  <2>7. e \in Mem
    <3>1. b.ready[l] \in Seq(Conns)
      BY <1>1
    <3>2. d \in Seq(Conns)
      BY <2>4, <3>1, Pushed
    <3>3. e.ready \in [Loops -> Seq(Conns)]
      BY <1>1, <2>6, <3>2
    <3> QED
      BY <2>2, <2>6, <3>3, SameMem DEF SameBut
  <2>8. e.conn = x.conn /\ e.req = b.req /\ SameBut(b, e, {"conn", "req", "ready"})
    BY <2>2, <2>3, <2>6 DEF SameBut
  <2> QED
    BY <1>2, <2>2, <2>4, <2>6, <2>7, <2>8 DEF Enlists
<1>3. CASE b.req[r].result = -1
  <2>1. PICK a : a = b.req[r].notify \cup {c}
    OBVIOUS
  <2>2. a \in SUBSET Conns
    BY <1>1, <2>1 DEF ReqMap, ReqRecord
  <2>3. SetsNotify(b, e, r, a)
    BY <1>3, <2>1 DEF us_getaddrinfo_set, Resolved, SetsNotify
  <2>4. /\ e \in Mem /\ SameBut(b, e, {"req"}) /\ Only(b.req, e.req, r)
        /\ ReqBut(b.req[r], e.req[r], {"notify"}) /\ Is(e.req[r].notify, a)
    BY <2>2, <2>3, SetNotify
  <2>5. e.conn = b.conn /\ e.ready = b.ready /\ SameBut(b, e, {"conn", "req", "ready"})
    BY <2>4 DEF SameBut
  <2>6. Only(b.conn, e.conn, c) /\ ConnBut(b.conn[c], e.conn[c], {"own"})
    BY <2>5 DEF Only, ConnBut
  <2> QED
    BY <1>3, <2>1, <2>4, <2>5, <2>6 DEF Enlists, Is
<1> QED
  BY <1>2, <1>3

\* Loop l makes connect c with the request r it borrowed.
MakesIn(m, k, l, c, r) ==
  /\ m.conn[c].life = "unused" /\ IsNew(k.conn[c], l, r) /\ k.conn[c].linked
  /\ k.conn[c].np = m.head[l] /\ k.conn[c].pp = Null
  /\ \A d \in Conns \ {c} : /\ ConnBut(m.conn[d], k.conn[d], {"pp"})
                            /\ k.conn[d].pp = IF d = m.head[l] THEN c ELSE m.conn[d].pp
  /\ k.head = [m.head EXCEPT ![l] = c] /\ k.keep = [m.keep EXCEPT ![l] = m.keep[l] + 1]
  /\ k.cache = m.cache /\ k.wake = m.wake
  /\ \/ /\ m.req[r].result # -1 /\ k.conn[c].own /\ k.req = m.req
        /\ k.ready = [m.ready EXCEPT ![l] = <<c>> \o m.ready[l]]
     \/ /\ m.req[r].result = -1 /\ ~k.conn[c].own /\ k.ready = m.ready
        /\ Only(m.req, k.req, r) /\ ReqBut(m.req[r], k.req[r], {"notify"})
        /\ k.req[r].notify = m.req[r].notify \cup {c}

\* What the second half of a connect does to memory.
LEMMA MakeEffect ==
  ASSUME NEW m \in Mem, NEW l \in Loops, NEW c \in Conns, NEW r \in Reqs,
         m.conn[c].life = "unused", m.head[l] # c,
         NEW a, Allocates(m, a, l, c, r), NEW b, b = LinkConnecting(a, l, c),
         NEW k, k = us_getaddrinfo_set(b, r, c)
  PROVE  k \in Mem /\ MakesIn(m, k, l, c, r)
<1>1. m.conn \in ConnMap
  BY MemParts
<1>2. /\ a \in Mem /\ SameBut(m, a, {"conn", "keep"}) /\ Only(m.conn, a.conn, c)
      /\ IsNew(a.conn[c], l, r) /\ ~a.conn[c].own
      /\ a.keep = [m.keep EXCEPT ![l] = m.keep[l] + 1]
  BY AllocEffect
<1>3. /\ a.head = m.head /\ a.req = m.req /\ a.ready = m.ready /\ a.cache = m.cache
      /\ a.wake = m.wake
  BY <1>2 DEF SameBut
<1>4. /\ b \in Mem /\ SameBut(a, b, {"conn", "head"})
      /\ b.head = [a.head EXCEPT ![l] = c] /\ Links(a.conn, b.conn, a.head[l], c)
  <2>1. a.head[l] # c
    BY <1>3
  <2> QED
    BY <1>2, <2>1, LinkEffect
<1>5. /\ b.req = m.req /\ b.ready = m.ready /\ b.cache = m.cache /\ b.wake = m.wake
      /\ b.keep = a.keep
  BY <1>3, <1>4 DEF SameBut
<1>6. /\ IsNew(b.conn[c], l, r) /\ ~b.conn[c].own /\ b.conn[c].linked
      /\ b.conn[c].np = m.head[l] /\ b.conn[c].pp = Null /\ b.conn[c].loop = l
  BY <1>2, <1>3, <1>4, ZenonT(20) DEF Links, ConnBut, IsNew
<1>7. k \in Mem /\ Enlists(b, k, l, c, r)
  BY <1>4, <1>6, EnlistEffect
<1>8. /\ k.head = b.head /\ k.keep = b.keep /\ k.cache = b.cache /\ k.wake = b.wake
      /\ ConnBut(b.conn[c], k.conn[c], {"own"}) /\ Only(b.conn, k.conn, c)
  BY <1>7 DEF Enlists, SameBut
<1>9. /\ IsNew(k.conn[c], l, r) /\ k.conn[c].linked
      /\ k.conn[c].np = m.head[l] /\ k.conn[c].pp = Null
  <2>1. /\ IsNew(b.conn[c], l, r) /\ b.conn[c].linked
        /\ b.conn[c].np = m.head[l] /\ b.conn[c].pp = Null
        /\ ConnBut(b.conn[c], k.conn[c], {"own"})
    BY <1>6, <1>8
  <2>2. PICK x : x = b.conn[c]
    OBVIOUS
  <2>3. PICK y : y = k.conn[c]
    OBVIOUS
  <2>4. IsNew(x, l, r) /\ x.linked /\ x.np = m.head[l] /\ x.pp = Null /\ ConnBut(x, y, {"own"})
    BY ONLY <2>1, <2>2, <2>3
  <2>5. IsNew(y, l, r)
    BY ONLY <2>4 DEF ConnBut, IsNew
  <2>6. y.linked /\ y.np = m.head[l] /\ y.pp = Null
    BY ONLY <2>4 DEF ConnBut
  <2> QED
    BY ONLY <2>3, <2>5, <2>6
<1>10. ASSUME NEW d \in Conns \ {c}
       PROVE  /\ ConnBut(m.conn[d], k.conn[d], {"pp"})
              /\ k.conn[d].pp = IF d = m.head[l] THEN c ELSE m.conn[d].pp
  <2>1. b.conn \in ConnMap
    BY <1>4, MemParts
  <2>2. a.conn[d] = m.conn[d] /\ k.conn[d] = b.conn[d]
    BY <1>1, <1>2, <1>8, <2>1 DEF Only, ConnMap
  <2> QED
    BY <1>3, <1>4, <2>2 DEF Links
<1>11. \/ /\ m.req[r].result # -1 /\ k.conn[c].own /\ k.req = m.req
          /\ k.ready = [m.ready EXCEPT ![l] = <<c>> \o m.ready[l]]
       \/ /\ m.req[r].result = -1 /\ ~k.conn[c].own /\ k.ready = m.ready
          /\ Only(m.req, k.req, r) /\ ReqBut(m.req[r], k.req[r], {"notify"})
          /\ k.req[r].notify = m.req[r].notify \cup {c}
  BY <1>5, <1>6, <1>7 DEF Enlists
<1>12. /\ k.head = [m.head EXCEPT ![l] = c] /\ k.keep = [m.keep EXCEPT ![l] = m.keep[l] + 1]
       /\ k.cache = m.cache /\ k.wake = m.wake
  BY <1>2, <1>3, <1>4, <1>5, <1>8
<1> QED
  BY <1>7, <1>9, <1>10, <1>11, <1>12 DEF MakesIn

\* A connect that is not made yet is nowhere.
LEMMA UnmadeNowhere ==
  ASSUME NEW conn, NEW req, NEW cache, NEW Q, NEW V, Core(conn, req, cache, Q, V),
         NEW c \in Conns, conn[c].life = "unused"
  PROVE  /\ conn[c].loop = Null /\ ~conn[c].linked
         /\ \A l \in Loops : c \notin Q[l]
         /\ \A r \in Reqs : c \notin req[r].notify \cup req[r].moved
  BY DEF Core, ConnInv, ConnOK, WaitInv, WaitOK

\* Connect c is put into the queue of loop l.
PutsFirst(ready, ready2, l, c) ==
  /\ ready \in [Loops -> Seq(Conns)] /\ \A x \in Loops : Once(ready[x])
  /\ c \notin QueueOf(ready)[l] /\ ready2 = [ready EXCEPT ![l] = <<c>> \o ready[l]]

OneQueued(ready, ready2, l, c) ==
  /\ QueueOf(ready2)[l] = QueueOf(ready)[l] \cup {c}
  /\ \A x \in Loops \ {l} : QueueOf(ready2)[x] = QueueOf(ready)[x]
  /\ \A x \in Loops : Once(ready2[x])

\* A connect put into a queue is in it once if it was not in it.
LEMMA QueuePush ==
  ASSUME NEW ready, NEW l \in Loops, NEW c \in Conns, NEW ready2, PutsFirst(ready, ready2, l, c)
  PROVE  OneQueued(ready, ready2, l, c)
<1> USE DEF PutsFirst
<1>1. \A x \in Loops : /\ QueueOf(ready)[x] = {y \in Conns : In(y, ready[x])}
                       /\ QueueOf(ready2)[x] = {y \in Conns : In(y, ready2[x])}
  BY DEF QueueOf
<1>2. PICK d : d = <<c>> \o ready[l]
  OBVIOUS
<1>3. ready[l] \in Seq(Conns) /\ Once(ready[l]) /\ ~In(c, ready[l])
  BY <1>1
<1>4. (\A x : In(x, d) <=> x = c \/ In(x, ready[l])) /\ Once(d)
  BY <1>2, <1>3, PushIn
<1>5. ready2[l] = d /\ \A x \in Loops \ {l} : ready2[x] = ready[x]
  BY <1>2
<1> HIDE DEF PutsFirst
<1>6. QueueOf(ready2)[l] = QueueOf(ready)[l] \cup {c}
  BY <1>1, <1>4, <1>5
<1>7. ASSUME NEW x \in Loops \ {l} PROVE QueueOf(ready2)[x] = QueueOf(ready)[x]
  <2>1. ready2[x] = ready[x]
    BY <1>5
  <2>2. QueueOf(ready2)[x] = {y \in Conns : In(y, ready2[x])}
    BY <1>1
  <2>3. QueueOf(ready)[x] = {y \in Conns : In(y, ready[x])}
    BY <1>1
  <2> QED
    BY <2>1, <2>2, <2>3
<1>8. \A x \in Loops : Once(ready2[x])
  BY <1>4, <1>5 DEF PutsFirst
<1> QED
  BY <1>6, <1>7, <1>8 DEF OneQueued

\* The queue is as it was, or c is in it too.
Queues(m, k, l, c, r) ==
  LET Q == QueueOf(m.ready)
      Q2 == QueueOf(k.ready)
  IN  /\ \A x \in Loops \ {l} : Q2[x] = Q[x]
      /\ \/ m.req[r].result = -1 /\ Q2[l] = Q[l]
         \/ m.req[r].result # -1 /\ Q2[l] = Q[l] \cup {c} /\ k.conn[c].own
      /\ \A x \in Loops : Once(k.ready[x])

\* What the second half of a connect does to the queues.
LEMMA MakeQueues ==
  ASSUME NEW m \in Mem, NEW l \in Loops, NEW c \in Conns, NEW r, NEW k, MakesIn(m, k, l, c, r),
         \A x \in Loops : Once(m.ready[x]), c \notin QueueOf(m.ready)[l]
  PROVE  Queues(m, k, l, c, r)
<1>1. m.ready \in [Loops -> Seq(Conns)]
  BY MemParts
<1>2. CASE m.req[r].result # -1
  <2>1. k.conn[c].own /\ k.ready = [m.ready EXCEPT ![l] = <<c>> \o m.ready[l]]
    BY <1>2 DEF MakesIn
  <2>2. PutsFirst(m.ready, k.ready, l, c)
    BY <1>1, <2>1 DEF PutsFirst
  <2>3. OneQueued(m.ready, k.ready, l, c)
    BY <2>2, QueuePush
  <2> QED
    BY <1>2, <2>1, <2>3 DEF Queues, OneQueued
<1>3. CASE m.req[r].result = -1
  BY <1>3 DEF MakesIn, Queues
<1> QED
  BY <1>2, <1>3

\* What requests keep when a connect is put on the list of one.
Enrolls(m, k, c, r) ==
  /\ \A q \in Reqs \ {r} : k.req[q] = m.req[q]
  /\ ReqBut(m.req[r], k.req[r], {"notify"})
  /\ \/ m.req[r].result = -1 /\ k.req[r].notify = m.req[r].notify \cup {c} /\ ~k.conn[c].own
     \/ m.req[r].result # -1 /\ k.req[r].notify = m.req[r].notify

\* What the second half of a connect does to the requests.
LEMMA MakeReqs ==
  ASSUME NEW m \in Mem, NEW l, NEW c, NEW r \in Reqs, NEW k, MakesIn(m, k, l, c, r)
  PROVE  Enrolls(m, k, c, r)
<1>1. m.req \in ReqMap
  BY MemParts
<1> QED
  BY <1>1 DEF MakesIn, Enrolls, Only, ReqBut, ReqMap

\* Making a connect keeps the invariant.
LEMMA SoundMade ==
  ASSUME NEW m, NEW st, Sound(m, st), NEW l \in Loops, NEW c \in Conns, NEW r \in Reqs,
         NEW k \in Mem, MakesIn(m, k, l, c, r),
         NEW hit, NEW b, Good(b), Dispatching(b) <=> Dispatching(st[l]),
         PushesConnect(View(b), View(st[l]), r, hit),
         NEW st2, st2 = [st EXCEPT ![l] = b]
  PROVE  Sound(k, st2)
<1>1. PICK Q : Q = QueueOf(m.ready)
  OBVIOUS
<1>2. PICK V : V = ViewOf(st)
  OBVIOUS
<1>3. PICK Q2 : Q2 = QueueOf(k.ready)
  OBVIOUS
<1>4. PICK V2 : V2 = ViewOf(st2)
  OBVIOUS
<1>5. /\ m \in Mem /\ st \in [Loops -> Seq(Frame)]
      /\ m.conn \in ConnMap /\ m.req \in ReqMap /\ m.cache \in SUBSET Reqs
      /\ m.head \in [Loops -> Ptr] /\ m.keep \in [Loops -> Int]
      /\ \A x \in Loops : Once(m.ready[x])
      /\ Q \in QueueMap /\ V \in ViewMap /\ V[l] = View(st[l])
      /\ Core(m.conn, m.req, m.cache, Q, V) /\ GroupsOK(m.conn, m.head, V) /\ KeepOK(m.conn, m.keep)
      /\ \A x \in Loops : ~Dispatching(st[x]) => WakeOK(m.conn, m.req, Q, m.wake, x)
      /\ OwnOK(m.conn, m.req)
  BY <1>1, <1>2, SoundParts
<1>6. k.conn \in ConnMap /\ k.req \in ReqMap /\ k.head \in [Loops -> Ptr] /\ Q2 \in QueueMap
  BY <1>3, MemParts, QueueType
<1>7. /\ m.conn[c].life = "unused" /\ IsNew(k.conn[c], l, r) /\ k.conn[c].linked
      /\ k.conn[c].np = m.head[l] /\ k.conn[c].pp = Null
      /\ k.head = [m.head EXCEPT ![l] = c] /\ k.keep = [m.keep EXCEPT ![l] = m.keep[l] + 1]
      /\ k.cache = m.cache /\ k.wake = m.wake
  BY DEF MakesIn
<1>8. \A d \in Conns \ {c} : /\ ConnBut(m.conn[d], k.conn[d], {"pp"})
                             /\ k.conn[d].pp = IF d = m.head[l] THEN c ELSE m.conn[d].pp
  BY DEF MakesIn
<1>9. /\ m.conn[c].loop = Null /\ ~m.conn[c].linked
      /\ \A x \in Loops : c \notin Q[x]
      /\ \A q \in Reqs : c \notin m.req[q].notify \cup m.req[q].moved
  BY <1>5, <1>7, UnmadeNowhere
<1>10. Queues(m, k, l, c, r)
  <2>1. c \notin QueueOf(m.ready)[l]
    BY <1>1, <1>9
  <2> QED
    BY <1>5, <2>1, MakeQueues
<1>11. /\ \A x \in Loops \ {l} : Q2[x] = Q[x]
       /\ \/ m.req[r].result = -1 /\ Q2[l] = Q[l]
          \/ m.req[r].result # -1 /\ Q2[l] = Q[l] \cup {c} /\ k.conn[c].own
       /\ \A x \in Loops : Once(k.ready[x])
  BY <1>1, <1>3, <1>10 DEF Queues
<1>12. /\ \A q \in Reqs \ {r} : k.req[q] = m.req[q]
       /\ ReqBut(m.req[r], k.req[r], {"notify"})
       /\ \/ m.req[r].result = -1 /\ k.req[r].notify = m.req[r].notify \cup {c} /\ ~k.conn[c].own
          \/ m.req[r].result # -1 /\ k.req[r].notify = m.req[r].notify
  <2>1. Enrolls(m, k, c, r)
    BY <1>5, MakeReqs
  <2> QED
    BY <2>1 DEF Enrolls
<1>13. Turns(V, V2, l, View(b))
  BY <1>2, <1>4, <1>5, ViewAt
<1>14. V2 \in ViewMap
  BY <1>13 DEF Turns
<1>15. Adopts(m.conn, k.conn, m.req, k.req, Q, Q2, V, V2, l, c, r)
  <2>1. \A d \in Conns \ {c} : SameConn(m.conn[d], k.conn[d])
    BY <1>8 DEF ConnBut, SameConn
  <2>2. \A q \in Reqs \ {r} : SameReq(m.req[q], k.req[q])
    BY <1>12 DEF SameReq
  <2>3. /\ k.req[r].life = m.req[r].life /\ k.req[r].result = m.req[r].result
        /\ k.req[r].refs = m.req[r].refs /\ k.req[r].moved = m.req[r].moved
    BY <1>12 DEF ReqBut
  <2>4. \/ m.req[r].result = -1 /\ k.req[r].notify = m.req[r].notify \cup {c} /\ Q2[l] = Q[l]
        \/ m.req[r].result # -1 /\ k.req[r].notify = m.req[r].notify /\ Q2[l] = Q[l] \cup {c}
    BY <1>11, <1>12
  <2>5. /\ V2[l] = View(b) /\ \A x \in Loops \ {l} : V2[x] = V[x]
    BY <1>13 DEF Turns
  <2>6. /\ V2[l].drain = V[l].drain /\ V2[l].closing = V[l].closing /\ V2[l].free = V[l].free
        /\ r \in V[l].borrow /\ V2[l].borrow = V[l].borrow \ {r} /\ V2[l].hit = {}
    BY <1>5, <2>5 DEF PushesConnect
  <2> QED
    BY <1>7, <1>11, <2>1, <2>2, <2>3, <2>4, <2>5, <2>6 DEF Adopts, IsNew
<1>16. Core(k.conn, k.req, k.cache, Q2, V2)
  <2>1. Core(k.conn, k.req, m.cache, Q2, V2)
    BY <1>5, <1>6, <1>14, <1>15, CoreAdopt
  <2> QED
    BY <1>7, <2>1
<1>17. GroupsOK(k.conn, k.head, V2)
  <2>1. PICK rank \in [Conns -> Int] : Groups(m.conn, m.head, V, rank)
    BY <1>5 DEF GroupsOK
  <2>2. \A d \in Conns \ {c} :
          /\ k.conn[d].linked = m.conn[d].linked /\ k.conn[d].loop = m.conn[d].loop
          /\ k.conn[d].np = m.conn[d].np
          /\ k.conn[d].pp = IF d = m.head[l] THEN c ELSE m.conn[d].pp
          /\ k.conn[d].life = m.conn[d].life /\ k.conn[d].closed = m.conn[d].closed
          /\ k.conn[d].told = m.conn[d].told
    BY <1>8 DEF ConnBut
  <2>3. V2[l].walk = {} /\ \A x \in Loops : V2[x].walk \subseteq V[x].walk
    BY <1>13 DEF Turns, PushesConnect
  <2>4. k.conn[c].linked /\ k.conn[c].loop = l /\ k.conn[c].np = m.head[l] /\ k.conn[c].pp = Null
    BY <1>7 DEF IsNew
  <2>5. k.head = [m.head EXCEPT ![l] = c]
    BY <1>7
  <2>6. LinksIn(m.conn, k.conn, m.head, k.head, V, V2, l, c)
    BY <1>9, <2>2, <2>3, <2>4, <2>5 DEF LinksIn
  <2>7. \E rank2 \in [Conns -> Int] : Groups(k.conn, k.head, V2, rank2)
    BY <1>5, <1>6, <1>14, <2>1, <2>6, GroupLink
  <2> QED
    BY <2>7 DEF GroupsOK
<1>18. KeepOK(k.conn, k.keep)
  <2>1. \A d \in Conns \ {c} : Waits(k.conn[d]) = Waits(m.conn[d]) /\ k.conn[d].loop = m.conn[d].loop
    BY <1>8 DEF ConnBut, Waits
  <2>2. ~Waits(m.conn[c]) /\ Waits(k.conn[c]) /\ k.conn[c].loop = l
    BY <1>7 DEF Waits, IsNew
  <2>3. OneWaits(m.conn, m.keep, k.conn, k.keep, l, c)
    BY <1>7, <2>1, <2>2 DEF OneWaits
  <2> QED
    BY <1>5, <2>3, KeepOne
<1>19. ASSUME NEW x \in Loops, WakeOK(m.conn, m.req, Q, m.wake, x)
       PROVE  WakeOK(k.conn, k.req, Q2, k.wake, x)
  <2> SUFFICES ASSUME NEW d \in Conns, d \in Q2[x], ~k.conn[d].own
               PROVE  k.wake[x] \/ k.req[k.conn[d].req].wakes = x
    BY DEF WakeOK
  <2>1. d \in Q[x]
    BY <1>11
  <2>2. d # c
    BY <1>9, <2>1
  <2>3. k.conn[d].own = m.conn[d].own /\ k.conn[d].req = m.conn[d].req
    BY <1>8, <2>2 DEF ConnBut
  <2>4. m.conn[d].req \in Reqs
    BY <1>5, <2>1, QueuedHolds
  <2>5. k.req[m.conn[d].req].wakes = m.req[m.conn[d].req].wakes
    BY <1>12, <2>4 DEF ReqBut
  <2>6. m.wake[x] \/ m.req[m.conn[d].req].wakes = x
    BY <1>19, <2>1, <2>3 DEF WakeOK
  <2> QED
    BY <1>7, <2>3, <2>5, <2>6
<1>20. OwnOK(k.conn, k.req)
  <2> SUFFICES ASSUME NEW q \in Reqs, NEW d \in k.req[q].notify \cup k.req[q].moved
               PROVE  ~k.conn[d].own
    BY DEF OwnOK
  <2>1. k.req[q].moved = m.req[q].moved
    BY <1>12 DEF ReqBut
  <2>2. d \in Conns
    BY <1>6 DEF ReqMap, ReqRecord
  <2>3. CASE d = c
    BY <1>9, <1>12, <2>1, <2>3
  <2>4. CASE d # c
    <3>1. d \in m.req[q].notify \cup m.req[q].moved
      BY <1>12, <2>1, <2>4
    <3>2. ~m.conn[d].own
      BY <1>5, <3>1 DEF OwnOK
    <3> QED
      BY <1>8, <2>2, <2>4, <3>2 DEF ConnBut
  <2> QED
    BY <2>3, <2>4
<1>21. /\ \A x \in Loops : Once(k.ready[x])
       /\ Core(k.conn, k.req, k.cache, QueueOf(k.ready), ViewOf(st2))
       /\ GroupsOK(k.conn, k.head, ViewOf(st2)) /\ KeepOK(k.conn, k.keep)
       /\ \A x \in Loops \ {l} : ~Dispatching(st[x]) =>
            WakeOK(k.conn, k.req, QueueOf(k.ready), k.wake, x)
       /\ ~Dispatching(b) => WakeOK(k.conn, k.req, QueueOf(k.ready), k.wake, l)
       /\ OwnOK(k.conn, k.req)
  BY <1>3, <1>4, <1>5, <1>11, <1>16, <1>17, <1>18, <1>19, <1>20
<1> QED
  BY <1>21, SoundStep, ZenonT(20)

\* The rest of a connect.
LEMMA ConnectGoesOnStep ==
  ASSUME Inv, NEW l \in Loops, ConnectGoesOn(l)
  PROVE  Inv'
<1>1. stack[l] # <<>> /\ Head(stack[l]).k = "connect"
  BY Zenon DEF ConnectGoesOn, At, Top
<1>2. PICK r : r = Head(stack[l]).r
  OBVIOUS
<1>3. /\ Sound(mem, stack) /\ Good(stack[l]) /\ mem \in Mem
      /\ mem.conn \in ConnMap /\ mem.head \in [Loops -> Ptr]
      /\ Core(mem.conn, mem.req, mem.cache, QueueOf(mem.ready), ViewOf(stack))
      /\ GroupsOK(mem.conn, mem.head, ViewOf(stack))
  BY SoundParts DEF Inv
<1>4. CASE \E failed \in {mem.req[r].result = 0, TRUE} :
             Do(l, Outcome(freeaddrinfo(mem, r, failed), <<>>), Tail(stack[l]))
  <2>1. PICK err \in BOOLEAN :
          Do(l, Outcome(freeaddrinfo(mem, r, err), <<>>), Tail(stack[l]))
    <3>1. PICK failed \in {mem.req[r].result = 0, TRUE} :
            Do(l, Outcome(freeaddrinfo(mem, r, failed), <<>>), Tail(stack[l]))
      BY <1>4
    <3>2. failed \in BOOLEAN
      OBVIOUS
    <3> QED
      BY <3>1, <3>2
  <2>2. PICK k : k = mem'
    OBVIOUS
  <2>3. PICK st2 : st2 = stack'
    OBVIOUS
  <2>4. GivesUp(l, r, err, k, st2)
    BY <2>1, <2>2, <2>3 DEF Do, Outcome, GivesUp
  <2>5. Sound(k, st2)
    BY <1>1, <1>2, <2>4, CachedStep
  <2> QED
    BY <2>2, <2>3, <2>5 DEF Inv
<1>5. CASE \E c \in FreshConn(mem) :
             LET a == [mem EXCEPT !.conn[c] = [NoConn EXCEPT
                                    !.life = "live", !.loop = l, !.req = r,
                                    !.pending = TRUE],
                                  !.keep[l] = @ + 1]
             IN  Do(l, Outcome(us_getaddrinfo_set(LinkConnecting(a, l, c), r, c),
                               <<>>), Tail(stack[l]))
  <2>1. PICK c \in FreshConn(mem) :
             LET a == [mem EXCEPT !.conn[c] = [NoConn EXCEPT
                                    !.life = "live", !.loop = l, !.req = r,
                                    !.pending = TRUE],
                                  !.keep[l] = @ + 1]
             IN  Do(l, Outcome(us_getaddrinfo_set(LinkConnecting(a, l, c), r, c),
                               <<>>), Tail(stack[l]))
    BY <1>5
  <2>2. c \in Conns /\ mem.conn[c].life = "unused"
    <3>1. c \in {x \in Conns : mem.conn[x].life = "unused"}
      BY FreshOne DEF FreshConn
    <3> QED
      BY <3>1
  <2>3. PICK a : Allocates(mem, a, l, c, r)
    BY DEF Allocates
  <2>4. PICK b : b = LinkConnecting(a, l, c)
    OBVIOUS
  <2>5. PICK k : k = us_getaddrinfo_set(b, r, c)
    OBVIOUS
  <2>6. mem' = k /\ stack' = [stack EXCEPT ![l] = <<>> \o Tail(stack[l])]
    BY <2>1, <2>3, <2>4, <2>5 DEF Allocates, NewConn, Do, Outcome
  <2>7. PICK t : t = Tail(stack[l])
    OBVIOUS
  <2>8. PICK hit : hit = Head(stack[l]).hit
    OBVIOUS
  <2>9. /\ Good(t) /\ (Dispatching(stack[l]) <=> Dispatching(t)) /\ r \in Reqs
        /\ PushesConnect(View(t), View(stack[l]), r, hit)
    BY <1>1, <1>2, <1>3, <2>7, <2>8, PopConnect
  <2>10. stack' = [stack EXCEPT ![l] = t]
    <3>1. <<>> \o t = t
      BY <2>9, ConcatEmptySeq DEF Good
    <3> QED
      BY <2>6, <2>7, <3>1
  <2>11. mem.head[l] # c
    <3>1. ~mem.conn[c].linked
      BY <1>3, <2>2, UnmadeNowhere
    <3>2. HeadOK(mem.conn, mem.head, l)
      BY <1>3 DEF GroupsOK, Groups, Ranked
    <3>3. c # Null
      BY <2>2, Bounds
    <3> QED
      BY <3>1, <3>2, <3>3 DEF HeadOK
  <2>12. k \in Mem /\ MakesIn(mem, k, l, c, r)
    BY <1>3, <2>2, <2>3, <2>4, <2>5, <2>9, <2>11, MakeEffect
  <2>13. PICK st2 : st2 = stack'
    OBVIOUS
  <2>14. Sound(k, st2)
    <3>1. st2 = [stack EXCEPT ![l] = t]
      BY <2>10, <2>13
    <3>2. Dispatching(t) <=> Dispatching(stack[l])
      BY <2>9
    <3> QED
      BY <1>3, <2>2, <2>9, <2>12, <3>1, <3>2, SoundMade
  <2> QED
    BY <2>6, <2>13, <2>14 DEF Inv
<1> QED
  BY <1>2, <1>4, <1>5, Zenon DEF ConnectGoesOn, Top

-----------------------------------------------------------------------------
(* The invariant.                                                          *)

\* An empty stack is in order.
LEMMA EmptyStack == Good(<<>>) /\ ~Dispatching(<<>>)
<1>1. Len(<<>>) = 0 /\ <<>> \in Seq(Frame)
  BY NoneIn
<1> QED
  BY <1>1 DEF Good, Shape, DrainedOnce, Dispatching

\* Memory before the first step.
LEMMA InitMemType ==
  /\ InitMem \in Mem
  /\ InitMem.conn = [c \in Conns |-> NoConn] /\ InitMem.req = [r \in Reqs |-> NoReq]
  /\ InitMem.cache = {} /\ InitMem.ready = [l \in Loops |-> <<>>]
  /\ InitMem.head = [l \in Loops |-> Null] /\ InitMem.keep = [l \in Loops |-> 0]
<1>1. NoConn \in ConnRecord
  <2>1. NoAttempts \in Atts
    BY DEF NoAttempts, Atts
  <2> QED
    BY <2>1 DEF NoConn, ConnRecord, Atts, Ptr
<1>2. NoReq \in ReqRecord
  BY DEF NoReq, ReqRecord
<1>3. <<>> \in Seq(Conns)
  OBVIOUS
<1> HIDE DEF NoConn, NoReq
<1> QED
  BY <1>1, <1>2, <1>3 DEF InitMem, Mem, Ptr

\* The invariant holds before the first step.
LEMMA InitInv == Init => Inv
<1> SUFFICES ASSUME Init PROVE Inv
  OBVIOUS
<1> DEFINE Q == QueueOf(mem.ready)
           V == ViewOf(stack)
<1>1. /\ mem \in Mem
      /\ mem.conn = [c \in Conns |-> NoConn] /\ mem.req = [r \in Reqs |-> NoReq]
      /\ mem.cache = {} /\ mem.ready = [l \in Loops |-> <<>>]
      /\ mem.head = [l \in Loops |-> Null] /\ mem.keep = [l \in Loops |-> 0]
      /\ stack = [l \in Loops |-> <<>>]
  BY InitMemType DEF Init
<1>2. \A l \in Loops : Good(stack[l]) /\ Once(mem.ready[l])
  BY <1>1, EmptyStack, NoneIn
<1>3. /\ Q \in QueueMap /\ \A l \in Loops : Q[l] = {}
  BY <1>1, NoneIn, QueueType
<1>4. V \in ViewMap /\ \A l \in Loops : V[l] = NoView
  BY <1>1, ViewType, ViewEmpty DEF ViewMap, ViewOf
<1>5. \A l \in Loops : /\ V[l].drain = {} /\ V[l].borrow = {} /\ V[l].hit = {}
                       /\ V[l].closing = {} /\ V[l].free = {} /\ V[l].walk = {}
  BY <1>4 DEF NoView
<1>6. \A c \in Conns : /\ mem.conn[c].life = "unused" /\ mem.conn[c].told = 0
                       /\ mem.conn[c].loop = Null /\ ~mem.conn[c].pending
                       /\ ~mem.conn[c].linked /\ mem.conn[c].att = NoAttempts
  BY <1>1 DEF NoConn
<1>7. \A r \in Reqs : /\ mem.req[r].life = "unused" /\ mem.req[r].notify = {}
                      /\ mem.req[r].moved = {}
  BY <1>1 DEF NoReq
<1> HIDE DEF Q, V
<1>8. Core(mem.conn, mem.req, mem.cache, Q, V)
  <2>1. ConnInv(mem.conn, mem.req)
    BY <1>6 DEF ConnInv, ConnOK
  <2>2. RefInv(mem.conn, mem.req, mem.cache, V)
    BY <1>1, <1>5, <1>6, <1>7 DEF RefInv, RefOK, HoldersOf, BorrowersOf
  <2>3. WaitInv(mem.conn, mem.req, Q, V)
    BY <1>3, <1>5, <1>6, <1>7 DEF WaitInv, WaitOK
  <2>4. LeadInv(mem.conn, mem.req, V)
    BY <1>5, <1>6 DEF LeadInv, LeadOK
  <2> QED
    BY <2>1, <2>2, <2>3, <2>4 DEF Core
<1>9. GroupsOK(mem.conn, mem.head, V)
  <2>0. [c \in Conns |-> 0] \in [Conns -> Int]
    OBVIOUS
  <2>1. PICK rank \in [Conns -> Int] : rank = [c \in Conns |-> 0]
    BY <2>0
  <2>2. Groups(mem.conn, mem.head, V, rank)
    BY <1>1, <1>5, <1>6 DEF Groups, Ranked, LinkOK, HeadOK
  <2> QED
    BY <2>2 DEF GroupsOK
<1>10. KeepOK(mem.conn, mem.keep)
  <2>1. ASSUME NEW l \in Loops PROVE Kept(mem.conn, l) = {}
    BY <1>6 DEF Kept
  <2>2. Cardinality({}) = 0
    BY FS_EmptySet
  <2> QED
    <3>1. ASSUME NEW l \in Loops PROVE mem.keep[l] = Cardinality(Kept(mem.conn, l))
      BY <1>1, <2>1, <2>2
    <3> QED
      BY <3>1 DEF KeepOK
<1>11. WakesOK(mem, stack)
  BY <1>3, <1>7 DEF WakesOK, WakeOK, OwnOK, Q
<1>12. StacksOK(mem, stack) /\ Typed(mem, stack)
  BY <1>1, <1>2 DEF StacksOK, Good, Typed
<1> QED
  BY <1>8, <1>9, <1>10, <1>11, <1>12 DEF Inv, Sound, CoreOK, Q, V

\* No step breaks the invariant.
LEMMA NextInv ==
  ASSUME Inv, [Next]_vars
  PROVE  Inv'
<1>1. ASSUME NEW l \in Loops, NEW h \in Names(mem), Connect(l, h) \/ Prefetch(l, h)
      PROVE  Inv'
  BY <1>1, NamesAreHosts, ConnectStep, PrefetchStep
<1>2. ASSUME NEW l \in Loops, NEW c \in Conns, CloseConnect(l, c)
      PROVE  Inv'
  BY <1>2, CloseConnectStep
<1>3. ASSUME NEW l \in Loops, us_socket_group_close_all(l)
      PROVE  Inv'
  BY <1>3, CloseAllStep
<1>4. ASSUME NEW l \in Loops, LoopStep(l)
      PROVE  Inv'
  <2>1. CASE Return(l)
    BY <2>1, ReturnStep
  <2>2. CASE ConnectGoesOn(l)
    BY <2>2, ConnectGoesOnStep
  <2>3. CASE CloseAllGoesOn(l)
    BY <2>3, CloseAllGoesOnStep
  <2>4. CASE CloseGoesOn(l)
    BY <2>4, CloseGoesOnStep
  <2>5. CASE BeginTick(l)
    BY <2>5, BeginTickStep
  <2>6. CASE DrainGoesOn(l)
    BY <2>6, DrainGoesOnStep
  <2>7. CASE PollReturns(l)
    BY <2>7, PollReturnsStep
  <2>8. CASE DispatchAttempt(l)
    BY <2>8, DispatchAttemptStep
  <2>9. CASE DispatchTimeout(l)
    BY <2>9, DispatchTimeoutStep
  <2>10. CASE EndDispatch(l)
    BY <2>10, EndDispatchStep
  <2>11. CASE EndTick(l)
    BY <2>11, EndTickStep
  <2> QED
    BY <1>4, <2>1, <2>2, <2>3, <2>4, <2>5, <2>6, <2>7, <2>8, <2>9, <2>10, <2>11 DEF LoopStep
<1>5. ASSUME NEW r \in Reqs, Worker(r) \/ Age(r)
      PROVE  Inv'
  BY <1>5, AfterResultStep, NotifyStep, WakeupStep, AgeStep DEF Worker
<1>6. ASSUME NEW c \in Conns, NEW i \in Addrs, Kernel(c, i)
      PROVE  Inv'
  BY <1>6, KernelStep
<1>7. CASE UNCHANGED vars
  BY <1>7 DEF Inv, vars
<1> QED
  BY <1>1, <1>2, <1>3, <1>4, <1>5, <1>6, <1>7 DEF Next, Calls

-----------------------------------------------------------------------------
(* What follows from it.                                                   *)

\* Memory, the stacks, the queues and the lists are sound in every state: the
\* invariant the other theorems rest on.
THEOREM AlwaysSound == Spec => []Inv
  BY InitInv, NextInv, PTL DEF Spec

\* The frames that hold a request, or are about to take a connect off its group.
LEMMA ViewMeans ==
  ASSUME NEW l \in Loops, stack[l] \in Seq(Frame)
  PROVE  /\ \A r \in Reqs : r \in View(stack[l]).borrow <=> \E i \in Frames(l, "connect") : stack[l][i].r = r
         /\ \A c \in Conns : c \in View(stack[l]).closing => c \in Closing(l)
<1>1. DOMAIN stack[l] = 1..Len(stack[l])
  OBVIOUS
<1>2. \A r \in Reqs : r \in View(stack[l]).borrow <=> \E i \in Frames(l, "connect") : stack[l][i].r = r
  BY <1>1 DEF View, Held, Frames
<1>3. ASSUME NEW c \in Conns, c \in View(stack[l]).closing
      PROVE  c \in Closing(l)
  <2>1. PICK i \in 1..Len(stack[l]) : stack[l][i].k \in {"free", "detach"} /\ stack[l][i].c = c
    BY <1>3 DEF View, Held
  <2>2. i \in Frames(l, "free") \cup Frames(l, "detach")
    BY <1>1, <2>1 DEF Frames
  <2> QED
    BY <2>1, <2>2 DEF Closing
<1> QED
  BY <1>2, <1>3

\* The invariant counts every reference.
LEMMA RefsExact == Inv => RefcountsAreExact
<1> SUFFICES ASSUME Inv, NEW r \in Reqs
             PROVE  LET n == Cardinality(Holders(r)) + Cardinality(Borrowed(r)) IN
                    IF mem.req[r].life = "live"
                    THEN mem.req[r].refs = n + IF Resolved(mem, r) THEN 0 ELSE 1
                    ELSE n = 0 /\ r \notin mem.cache
  BY DEF RefcountsAreExact
<1>1. PICK V : V = ViewOf(stack)
  OBVIOUS
<1>2. /\ stack \in [Loops -> Seq(Frame)] /\ \A l \in Loops : V[l] = View(stack[l])
      /\ Core(mem.conn, mem.req, mem.cache, QueueOf(mem.ready), V)
  BY <1>1, SoundParts DEF Inv
<1>3. RefOK(mem.conn, mem.req, mem.cache, V, r)
  BY <1>2 DEF Core, RefInv
<1>4. Holders(r) = HoldersOf(mem.conn, r)
  BY DEF Holders, HoldersOf, Live
<1>5. Borrowed(r) = BorrowersOf(V, r)
  <2>1. ASSUME NEW l \in Loops
        PROVE  r \in V[l].borrow <=> \E i \in Frames(l, "connect") : stack[l][i].r = r
    <3>1. stack[l] \in Seq(Frame) /\ V[l] = View(stack[l])
      BY <1>2
    <3> QED
      BY <3>1, ViewMeans
  <2> QED
    BY <2>1 DEF Borrowed, BorrowersOf
<1>6. Cardinality({}) = 0
  BY FS_EmptySet
<1>7. CASE mem.req[r].life = "live"
  BY <1>3, <1>4, <1>5, <1>7 DEF RefOK, Resolved
<1>8. CASE mem.req[r].life # "live"
  BY <1>3, <1>4, <1>5, <1>6, <1>8 DEF RefOK
<1> QED
  BY <1>7, <1>8

\* A request counts exactly its worker, the connects that hold it and the calls
\* that are about to, whatever closes, answers and evictions do between.
THEOREM Spec_RefcountsAreExact == Spec => []RefcountsAreExact
  BY AlwaysSound, RefsExact, PTL

\* The invariant counts every connect that keeps its loop alive.
LEMMA KeepExact == Inv => KeepAliveBalanced
<1> SUFFICES ASSUME Inv, NEW l \in Loops
             PROVE  mem.keep[l] = Cardinality({c \in Conns : /\ mem.conn[c].loop = l /\ Live(c)
                                                             /\ mem.conn[c].pending
                                                             /\ ~mem.conn[c].closed})
  BY DEF KeepAliveBalanced
<1>1. mem.keep[l] = Cardinality(Kept(mem.conn, l))
  BY SoundParts DEF Inv, KeepOK
<1> QED
  BY <1>1 DEF Kept, Live

\* The loop is kept alive once for each connect that waits and is not closed.
THEOREM Spec_KeepAliveBalanced == Spec => []KeepAliveBalanced
  BY AlwaysSound, KeepExact, PTL

\* The invariant lets a connect be told its end once.
LEMMA ToldOnce == Inv => OneOutcome
<1> SUFFICES ASSUME Inv, NEW c \in Conns
             PROVE  LET s == mem.conn[c] IN
                    /\ s.told = 1 => Trying(mem, c) = {}
                    /\ s.told <= 1
                    /\ s.life # "unused" /\ s.told = 0 =>
                         s.life = "live" /\ s.linked /\ (s.pending \/ Trying(mem, c) # {})
  BY DEF OneOutcome
<1>1. mem \in Mem /\ ConnOK(mem.conn[c], mem.req) /\ mem.conn \in ConnMap
  BY SoundParts DEF Inv, Core, ConnInv
<1>2. Trying(mem, c) = {} <=> mem.conn[c].att = NoAttempts
  BY <1>1, NoneTried
<1>3. mem.conn[c].life \in {"unused", "live", "dead", "freed"}
  BY <1>1 DEF ConnMap, ConnRecord
<1> QED
  BY <1>1, <1>2, <1>3 DEF ConnOK

\* The end of a connect is told once, and never before its attempts are over.
THEOREM Spec_OneOutcome == Spec => []OneOutcome
  BY AlwaysSound, ToldOnce, PTL

\* The invariant has a wakeup for every result a worker queued.
LEMMA LoopsWoken == Inv => ResultsWakeTheLoop
<1> SUFFICES ASSUME Inv, NEW l \in Loops, Ticks(l, "pre"),
                    NEW i \in DOMAIN mem.ready[l], ~mem.conn[mem.ready[l][i]].own
             PROVE  mem.wake[l] \/ \E r \in Reqs : mem.req[r].wakes = l
  BY DEF ResultsWakeTheLoop
<1>1. PICK Q : Q = QueueOf(mem.ready)
  OBVIOUS
<1>2. PICK V : V = ViewOf(stack)
  OBVIOUS
<1>3. /\ Good(stack[l]) /\ mem.ready \in [Loops -> Seq(Conns)]
      /\ Core(mem.conn, mem.req, mem.cache, Q, V)
      /\ ~Dispatching(stack[l]) => WakeOK(mem.conn, mem.req, Q, mem.wake, l)
  BY <1>1, <1>2, SoundParts DEF Inv
<1>4. ~Dispatching(stack[l])
  <2>1. stack[l] # <<>> /\ Head(stack[l]).k = "tick" /\ Head(stack[l]).at = "pre"
    BY DEF Ticks, At, Top
  <2> QED
    BY <1>3, <2>1, PopTick
<1>5. PICK c : c = mem.ready[l][i]
  OBVIOUS
<1>6. c \in Conns /\ c \in Q[l]
  <2>1. mem.ready[l] \in Seq(Conns)
    BY <1>3
  <2>2. i \in 1..Len(mem.ready[l]) /\ c \in Conns
    BY <1>5, <2>1
  <2>3. Q[l] = {y \in Conns : In(y, mem.ready[l])}
    BY <1>1, QueueType
  <2> QED
    BY <1>5, <2>2, <2>3 DEF In
<1>7. mem.wake[l] \/ mem.req[mem.conn[c].req].wakes = l
  BY <1>3, <1>4, <1>5, <1>6 DEF WakeOK
<1>8. mem.conn[c].req \in Reqs
  BY <1>3, <1>6, QueuedHolds
<1> QED
  BY <1>7, <1>8

\* A loop that polls with a worker's results in its queue has its wakeup.
THEOREM Spec_ResultsWakeTheLoop == Spec => []ResultsWakeTheLoop
  BY AlwaysSound, LoopsWoken, PTL

-----------------------------------------------------------------------------
(* Where a connect waits for its result.                                   *)

AtNotify(p, c) == \E r \in Reqs : c \in mem.req[r].notify /\ p = <<"notify", r>>
AtMoved(p, c) == \E r \in Reqs : c \in mem.req[r].moved /\ p = <<"moved", r>>
AtReady(p, c) == \E l \in Loops : \E i \in 1..Len(mem.ready[l]) :
                   mem.ready[l][i] = c /\ p = <<"ready", l, i>>
AtDrain(p, c) == \E l \in Loops : \E i \in 1..Len(stack[l]) :
                   /\ stack[l][i].k = "drain"
                   /\ \E j \in 1..Len(stack[l][i].cs) :
                        stack[l][i].cs[j] = c /\ p = <<"drain", l, i, j>>

\* The four kinds of places.
LEMMA PlaceKinds ==
  ASSUME Typed(mem, stack), NEW c
  PROVE  \A p : p \in Places(c) <=> AtNotify(p, c) \/ AtMoved(p, c) \/ AtReady(p, c) \/ AtDrain(p, c)
<1>1. mem \in Mem /\ stack \in [Loops -> Seq(Frame)]
  BY DEF Typed
<1>2. mem.ready \in [Loops -> Seq(Conns)]
  BY <1>1 DEF Mem
<1>3. \A l \in Loops : DOMAIN mem.ready[l] = 1..Len(mem.ready[l])
  <2> TAKE l \in Loops
  <2>1. mem.ready[l] \in Seq(Conns)
    BY <1>2
  <2> QED
    BY <2>1
<1>4. \A l \in Loops : DOMAIN stack[l] = 1..Len(stack[l])
  <2> TAKE l \in Loops
  <2>1. stack[l] \in Seq(Frame)
    BY <1>1
  <2> QED
    BY <2>1
<1>5. \A l \in Loops : \A i \in 1..Len(stack[l]) :
        stack[l][i].k = "drain" => DOMAIN stack[l][i].cs = 1..Len(stack[l][i].cs)
  <2> SUFFICES ASSUME NEW l \in Loops, NEW i \in 1..Len(stack[l]), stack[l][i].k = "drain"
               PROVE  DOMAIN stack[l][i].cs = 1..Len(stack[l][i].cs)
    OBVIOUS
  <2>1. stack[l] \in Seq(Frame)
    BY <1>1
  <2>2. stack[l][i] \in Frame
    BY <2>1, ElementOfSeq
  <2>3. stack[l][i].cs \in Seq(Conns)
    BY <2>2 DEF Frame, UserFrame, CloseFrame, AllFrame, ConnectFrame, DrainFrame, TickFrame
  <2> QED
    BY <2>3
<1>6. \A l \in Loops : Frames(l, "drain") = {i \in 1..Len(stack[l]) : stack[l][i].k = "drain"}
  BY <1>4 DEF Frames
<1> DEFINE ReadyPlaces(l) == {<<"ready", l, i>> : i \in {i \in DOMAIN mem.ready[l] : mem.ready[l][i] = c}}
           DrainPlaces(l, i) == {<<"drain", l, i, j>> : j \in {j \in DOMAIN stack[l][i].cs :
                                                          stack[l][i].cs[j] = c}}
<1>7. \A p, l : p \in ReadyPlaces(l) <=> \E i \in DOMAIN mem.ready[l] : mem.ready[l][i] = c /\ p = <<"ready", l, i>>
  OBVIOUS
<1>8. \A p, l, i : p \in DrainPlaces(l, i) <=>
        \E j \in DOMAIN stack[l][i].cs : stack[l][i].cs[j] = c /\ p = <<"drain", l, i, j>>
  OBVIOUS
<1> DEFINE N == {<<"notify", r>> : r \in {r \in Reqs : c \in mem.req[r].notify}}
           M == {<<"moved", r>> : r \in {r \in Reqs : c \in mem.req[r].moved}}
           R == UNION {ReadyPlaces(l) : l \in Loops}
           D == UNION {UNION {DrainPlaces(l, i) : i \in Frames(l, "drain")} : l \in Loops}
<1>9. Places(c) = N \cup M \cup R \cup D
  BY DEF Places
<1> HIDE DEF ReadyPlaces, DrainPlaces
<1>a. \A p : p \in UNION {ReadyPlaces(l) : l \in Loops} <=> AtReady(p, c)
  BY <1>3, <1>7 DEF AtReady
<1>b. \A p : p \in UNION {UNION {DrainPlaces(l, i) : i \in Frames(l, "drain")} : l \in Loops} <=> AtDrain(p, c)
  <2> TAKE p
  <2>1. p \in UNION {UNION {DrainPlaces(l, i) : i \in Frames(l, "drain")} : l \in Loops}
        <=> \E l \in Loops : \E i \in Frames(l, "drain") : p \in DrainPlaces(l, i)
    OBVIOUS
  <2>2. \A l \in Loops : (\E i \in Frames(l, "drain") : p \in DrainPlaces(l, i))
          <=> \E i \in 1..Len(stack[l]) : stack[l][i].k = "drain" /\ p \in DrainPlaces(l, i)
    BY <1>6
  <2>3. \A l \in Loops : \A i \in 1..Len(stack[l]) : stack[l][i].k = "drain" =>
          (p \in DrainPlaces(l, i) <=> \E j \in 1..Len(stack[l][i].cs) :
                                    stack[l][i].cs[j] = c /\ p = <<"drain", l, i, j>>)
    <3> SUFFICES ASSUME NEW l \in Loops, NEW i \in 1..Len(stack[l]), stack[l][i].k = "drain"
                 PROVE  p \in DrainPlaces(l, i) <=> \E j \in 1..Len(stack[l][i].cs) :
                                    stack[l][i].cs[j] = c /\ p = <<"drain", l, i, j>>
      OBVIOUS
    <3>1. PICK n : n = 1..Len(stack[l][i].cs)
      OBVIOUS
    <3>2. DOMAIN stack[l][i].cs = n
      BY <1>5, <3>1
    <3>3. p \in DrainPlaces(l, i) <=> \E j \in n : stack[l][i].cs[j] = c /\ p = <<"drain", l, i, j>>
      BY <1>8, <3>2
    <3> QED
      BY <3>1, <3>3
  <2> QED
    BY <2>1, <2>2, <2>3 DEF AtDrain
<1>c. \A p : p \in {<<"notify", r>> : r \in {r \in Reqs : c \in mem.req[r].notify}} <=> AtNotify(p, c)
  BY DEF AtNotify
<1>d. \A p : p \in {<<"moved", r>> : r \in {r \in Reqs : c \in mem.req[r].moved}} <=> AtMoved(p, c)
  BY DEF AtMoved
<1>e. \A p : /\ p \in N <=> AtNotify(p, c)
             /\ p \in M <=> AtMoved(p, c)
             /\ p \in R <=> AtReady(p, c)
             /\ p \in D <=> AtDrain(p, c)
  BY <1>a, <1>b, <1>c, <1>d
<1> HIDE DEF N, M, R, D
<1> QED
  BY <1>9, <1>e

\* Being in a queue, and in a drain.
LEMMA PlaceIn ==
  ASSUME Inv, NEW c \in Conns, NEW p
  PROVE  /\ AtReady(p, c) => \E l \in Loops : c \in QueueOf(mem.ready)[l]
         /\ AtDrain(p, c) => \E l \in Loops : c \in ViewOf(stack)[l].drain
<1>1. \A l \in Loops : QueueOf(mem.ready)[l] = {y \in Conns : In(y, mem.ready[l])}
  BY QueueType
<1>2. \A l \in Loops : ViewOf(stack)[l] = View(stack[l])
  BY SoundParts DEF Inv
<1>3. ASSUME AtReady(p, c) PROVE \E l \in Loops : c \in QueueOf(mem.ready)[l]
  BY <1>1, <1>3 DEF AtReady, In
<1>4. ASSUME AtDrain(p, c) PROVE \E l \in Loops : c \in ViewOf(stack)[l].drain
  <2>1. PICK l \in Loops : \E i \in 1..Len(stack[l]) :
          stack[l][i].k = "drain" /\ \E j \in 1..Len(stack[l][i].cs) : stack[l][i].cs[j] = c
    BY <1>4 DEF AtDrain
  <2>2. c \in View(stack[l]).drain
    BY <2>1 DEF View, Held, In
  <2> QED
    BY <1>2, <2>2
<1> QED
  BY <1>3, <1>4

\* A connect that is in a queue or in a drain has a place there.
LEMMA PlaceOut ==
  ASSUME Inv, NEW c \in Conns, NEW l \in Loops
  PROVE  /\ c \in QueueOf(mem.ready)[l] => \E p : AtReady(p, c)
         /\ c \in ViewOf(stack)[l].drain => \E p : AtDrain(p, c)
<1>1. QueueOf(mem.ready)[l] = {y \in Conns : In(y, mem.ready[l])}
  BY QueueType
<1>2. ViewOf(stack)[l] = View(stack[l])
  BY SoundParts DEF Inv
<1>3. ASSUME c \in QueueOf(mem.ready)[l] PROVE \E p : AtReady(p, c)
  <2>1. PICK i \in 1..Len(mem.ready[l]) : mem.ready[l][i] = c
    BY <1>1, <1>3 DEF In
  <2>2. AtReady(<<"ready", l, i>>, c)
    BY <2>1 DEF AtReady
  <2> QED
    BY <2>2
<1>4. ASSUME c \in ViewOf(stack)[l].drain PROVE \E p : AtDrain(p, c)
  <2>1. PICK i \in 1..Len(stack[l]) : stack[l][i].k = "drain" /\ In(c, stack[l][i].cs)
    BY <1>2, <1>4 DEF View, Held
  <2>2. PICK j \in 1..Len(stack[l][i].cs) : stack[l][i].cs[j] = c
    BY <2>1 DEF In
  <2>3. AtDrain(<<"drain", l, i, j>>, c)
    BY <2>1, <2>2 DEF AtDrain
  <2> QED
    BY <2>3
<1> QED
  BY <1>3, <1>4

\* What the invariant says of a connect's places.
LEMMA PlaceFacts ==
  ASSUME Inv, NEW c \in Conns, NEW p
  PROVE  /\ AtNotify(p, c) \/ AtMoved(p, c) \/ AtReady(p, c) \/ AtDrain(p, c) =>
              mem.conn[c].life = "live" /\ mem.conn[c].pending
         /\ AtNotify(p, c) => /\ p = <<"notify", mem.conn[c].req>>
                              /\ mem.req[mem.conn[c].req].result = -1
         /\ AtMoved(p, c) => /\ p = <<"moved", mem.conn[c].req>>
                             /\ mem.req[mem.conn[c].req].result # -1
                             /\ c \in mem.req[mem.conn[c].req].moved
         /\ AtReady(p, c) => /\ mem.req[mem.conn[c].req].result # -1
                             /\ c \notin mem.req[mem.conn[c].req].moved
                             /\ c \in QueueOf(mem.ready)[mem.conn[c].loop]
         /\ AtDrain(p, c) => /\ mem.req[mem.conn[c].req].result # -1
                             /\ c \notin mem.req[mem.conn[c].req].moved
                             /\ c \in ViewOf(stack)[mem.conn[c].loop].drain
<1>1. PICK Q : Q = QueueOf(mem.ready)
  OBVIOUS
<1>2. PICK V : V = ViewOf(stack)
  OBVIOUS
<1>3. Core(mem.conn, mem.req, mem.cache, Q, V)
  BY <1>1, <1>2, SoundParts DEF Inv
<1>4. /\ \A r \in Reqs : c \in mem.req[r].notify \/ c \in mem.req[r].moved =>
           mem.conn[c].life = "live" /\ mem.conn[c].pending /\ mem.conn[c].req = r
      /\ \A r \in Reqs : /\ mem.req[r].result # -1 => mem.req[r].notify = {}
                         /\ mem.req[r].result = -1 => mem.req[r].moved = {}
  BY <1>3 DEF Core, WaitInv, WaitOK, RefInv, RefOK
<1>5. \A l \in Loops : c \in Q[l] \/ c \in V[l].drain =>
         /\ mem.conn[c].life = "live" /\ mem.conn[c].pending /\ mem.conn[c].loop = l
         /\ mem.req[mem.conn[c].req].result # -1 /\ c \notin mem.req[mem.conn[c].req].moved
  BY <1>3 DEF Core, WaitInv, WaitOK
<1>6. CASE AtNotify(p, c)
  <2>1. PICK r \in Reqs : c \in mem.req[r].notify /\ p = <<"notify", r>>
    BY <1>6 DEF AtNotify
  <2>2. ~AtMoved(p, c)
    BY <2>1 DEF AtMoved
  <2>3. ~AtReady(p, c) /\ ~AtDrain(p, c)
    BY <2>1 DEF AtReady, AtDrain
  <2> QED
    BY <1>4, <2>1, <2>2, <2>3
<1>7. CASE AtMoved(p, c)
  <2>1. PICK r \in Reqs : c \in mem.req[r].moved /\ p = <<"moved", r>>
    BY <1>7 DEF AtMoved
  <2>2. ~AtNotify(p, c)
    BY <2>1 DEF AtNotify
  <2>3. ~AtReady(p, c) /\ ~AtDrain(p, c)
    BY <2>1 DEF AtReady, AtDrain
  <2> QED
    BY <1>4, <2>1, <2>2, <2>3
<1>8. CASE AtReady(p, c)
  <2>1. PICK l \in Loops : c \in Q[l]
    BY <1>1, <1>8, PlaceIn
  <2>2. ~AtNotify(p, c) /\ ~AtMoved(p, c) /\ ~AtDrain(p, c)
    BY <1>8 DEF AtReady, AtNotify, AtMoved, AtDrain
  <2> QED
    BY <1>1, <1>5, <2>1, <2>2
<1>9. CASE AtDrain(p, c)
  <2>1. PICK l \in Loops : c \in V[l].drain
    BY <1>2, <1>9, PlaceIn
  <2>2. ~AtNotify(p, c) /\ ~AtMoved(p, c) /\ ~AtReady(p, c)
    BY <1>9 DEF AtReady, AtNotify, AtMoved, AtDrain
  <2> QED
    BY <1>2, <1>5, <2>1, <2>2
<1> QED
  BY <1>6, <1>7, <1>8, <1>9, Zenon

\* A connect is in a queue once, and in one drain once.
LEMMA PlacedOnce ==
  ASSUME Inv, NEW c \in Conns, NEW p, NEW q
  PROVE  /\ AtReady(p, c) /\ AtReady(q, c) => p = q
         /\ AtDrain(p, c) /\ AtDrain(q, c) => p = q
<1>1. PICK Q : Q = QueueOf(mem.ready)
  OBVIOUS
<1>2. PICK V : V = ViewOf(stack)
  OBVIOUS
<1>3. \A l \in Loops : c \in Q[l] \/ c \in V[l].drain => mem.conn[c].loop = l
  <2>1. Core(mem.conn, mem.req, mem.cache, Q, V)
    BY <1>1, <1>2, SoundParts DEF Inv
  <2> QED
    BY <2>1 DEF Core, WaitInv, WaitOK
<1>4. \A l \in Loops : /\ Q[l] = {y \in Conns : In(y, mem.ready[l])}
                       /\ V[l] = View(stack[l]) /\ Once(mem.ready[l])
                       /\ DrainedOnce(stack[l])
  <2>1. \A l \in Loops : Good(stack[l]) /\ Once(mem.ready[l])
    BY SoundParts DEF Inv
  <2> QED
    BY <1>1, <1>2, <2>1, QueueType, SoundParts DEF Inv, Good
<1>5. ASSUME AtReady(p, c), AtReady(q, c) PROVE p = q
  <2>1. PICK l \in Loops : \E i \in 1..Len(mem.ready[l]) : mem.ready[l][i] = c /\ p = <<"ready", l, i>>
    BY <1>5 DEF AtReady
  <2>2. PICK k \in Loops : \E i \in 1..Len(mem.ready[k]) : mem.ready[k][i] = c /\ q = <<"ready", k, i>>
    BY <1>5 DEF AtReady
  <2>3. c \in Q[l] /\ c \in Q[k]
    BY <1>4, <2>1, <2>2 DEF In
  <2>4. k = l
    BY <1>3, <2>3
  <2> QED
    BY <1>4, <2>1, <2>2, <2>4 DEF Once
<1>6. ASSUME AtDrain(p, c), AtDrain(q, c) PROVE p = q
  <2>1. PICK l \in Loops : \E i \in 1..Len(stack[l]) : stack[l][i].k = "drain" /\
          \E j \in 1..Len(stack[l][i].cs) : stack[l][i].cs[j] = c /\ p = <<"drain", l, i, j>>
    BY <1>6 DEF AtDrain
  <2>2. PICK k \in Loops : \E i \in 1..Len(stack[k]) : stack[k][i].k = "drain" /\
          \E j \in 1..Len(stack[k][i].cs) : stack[k][i].cs[j] = c /\ q = <<"drain", k, i, j>>
    BY <1>6 DEF AtDrain
  <2>3. c \in View(stack[l]).drain /\ c \in View(stack[k]).drain
    BY <2>1, <2>2 DEF View, Held, In
  <2>4. k = l
    BY <1>3, <1>4, <2>3
  <2>5. PICK i \in 1..Len(stack[l]) : stack[l][i].k = "drain" /\
          \E j \in 1..Len(stack[l][i].cs) : stack[l][i].cs[j] = c /\ p = <<"drain", l, i, j>>
    BY <2>1
  <2>6. PICK h \in 1..Len(stack[l]) : stack[l][h].k = "drain" /\
          \E j \in 1..Len(stack[l][h].cs) : stack[l][h].cs[j] = c /\ q = <<"drain", l, h, j>>
    BY <2>2, <2>4
  <2>7. In(c, stack[l][i].cs) /\ In(c, stack[l][h].cs)
    BY <2>5, <2>6 DEF In
  <2>8. DrainedOnce(stack[l])
    BY <1>4
  <2>9. i = h /\ Once(stack[l][i].cs)
    BY <2>5, <2>6, <2>7, <2>8 DEF DrainedOnce
  <2> QED
    BY <2>5, <2>6, <2>9 DEF Once
<1> QED
  BY <1>5, <1>6

\* A connect has at most one place, and one exactly if it waits.
LEMMA OnePlace ==
  ASSUME Inv, NEW c \in Conns
  PROVE  /\ \A p, q \in Places(c) : p = q
         /\ Places(c) # {} <=> mem.conn[c].life = "live" /\ mem.conn[c].pending
<1>1. PICK Q : Q = QueueOf(mem.ready)
  OBVIOUS
<1>2. PICK V : V = ViewOf(stack)
  OBVIOUS
<1>3. Core(mem.conn, mem.req, mem.cache, Q, V)
  BY <1>1, <1>2, SoundParts DEF Inv
<1>4. \A p : p \in Places(c) <=> AtNotify(p, c) \/ AtMoved(p, c) \/ AtReady(p, c) \/ AtDrain(p, c)
  <2>1. Typed(mem, stack)
    BY DEF Inv, Sound
  <2> QED
    BY <2>1, PlaceKinds
<1>5. ASSUME NEW p \in Places(c), NEW q \in Places(c) PROVE p = q
  <2>1. \A x \in {p, q} : AtNotify(x, c) \/ AtMoved(x, c) \/ AtReady(x, c) \/ AtDrain(x, c)
    BY <1>4
  <2>2. CASE AtNotify(p, c) \/ AtNotify(q, c)
    BY <2>1, <2>2, PlaceFacts
  <2>3. CASE ~AtNotify(p, c) /\ ~AtNotify(q, c) /\ (AtMoved(p, c) \/ AtMoved(q, c))
    BY <2>1, <2>3, PlaceFacts
  <2>4. CASE AtReady(p, c) /\ AtReady(q, c)
    BY <2>4, PlacedOnce
  <2>5. CASE AtDrain(p, c) /\ AtDrain(q, c)
    BY <2>5, PlacedOnce
  <2>6. ASSUME NEW x, NEW y, AtReady(x, c), AtDrain(y, c) PROVE FALSE
    <3>1. PICK l : l = mem.conn[c].loop
      OBVIOUS
    <3>2. c \in Q[l] /\ c \in V[l].drain
      BY <1>1, <1>2, <2>6, <3>1, PlaceFacts
    <3>3. l \in Loops
      <4>1. mem.conn[c].life = "live"
        BY <2>6, PlaceFacts
      <4> QED
        BY <1>3, <3>1, <4>1 DEF Core, ConnInv, ConnOK
    <3> QED
      BY <1>3, <3>2, <3>3 DEF Core, WaitInv, WaitOK
  <2> QED
    BY <2>1, <2>2, <2>3, <2>4, <2>5, <2>6
<1>6. ASSUME NEW p \in Places(c) PROVE mem.conn[c].life = "live" /\ mem.conn[c].pending
  BY <1>4, PlaceFacts
<1>7. ASSUME mem.conn[c].life = "live", mem.conn[c].pending PROVE \E p : p \in Places(c)
  <2>1. mem.conn[c].req \in Reqs /\ mem.conn[c].loop \in Loops
    BY <1>3, <1>7 DEF Core, ConnInv, ConnOK
  <2>2. \/ c \in mem.req[mem.conn[c].req].notify \/ c \in mem.req[mem.conn[c].req].moved
        \/ c \in Q[mem.conn[c].loop] \/ c \in V[mem.conn[c].loop].drain
    BY <1>3, <1>7 DEF Core, WaitInv, WaitOK
  <2>3. CASE c \in mem.req[mem.conn[c].req].notify
    <3>1. AtNotify(<<"notify", mem.conn[c].req>>, c)
      BY <2>1, <2>3 DEF AtNotify
    <3> QED
      BY <1>4, <3>1
  <2>4. CASE c \in mem.req[mem.conn[c].req].moved
    <3>1. AtMoved(<<"moved", mem.conn[c].req>>, c)
      BY <2>1, <2>4 DEF AtMoved
    <3> QED
      BY <1>4, <3>1
  <2>5. CASE c \in Q[mem.conn[c].loop] \/ c \in V[mem.conn[c].loop].drain
    <3>1. PICK l \in Loops : l = mem.conn[c].loop
      BY <2>1
    <3>2. \E p : AtReady(p, c) \/ AtDrain(p, c)
      BY <1>1, <1>2, <2>5, <3>1, PlaceOut
    <3> QED
      BY <1>4, <3>2
  <2> QED
    BY <2>2, <2>3, <2>4, <2>5
<1> QED
  BY <1>5, <1>6, <1>7

\* The invariant gives each connect that waits one place.
LEMMA ResultsOnce == Inv => EachResultComesOnce
<1> SUFFICES ASSUME Inv, NEW c \in Conns
             PROVE  Cardinality(Places(c)) = IF Live(c) /\ mem.conn[c].pending THEN 1 ELSE 0
  BY DEF EachResultComesOnce
<1>1. PICK P : P = Places(c)
  OBVIOUS
<1>2. /\ \A p, q \in P : p = q
      /\ P # {} <=> Live(c) /\ mem.conn[c].pending
  BY <1>1, OnePlace DEF Live
<1>3. CASE P = {}
  <2>1. Cardinality({}) = 0
    BY FS_EmptySet
  <2> QED
    BY <1>1, <1>2, <1>3, <2>1
<1>4. CASE P # {}
  <2>1. PICK p : P = {p}
    BY <1>2, <1>4
  <2>2. Cardinality({p}) = 1
    BY FS_Singleton
  <2> QED
    BY <1>1, <1>2, <1>4, <2>1, <2>2
<1> QED
  BY <1>3, <1>4

\* A connect whose result was not handled yet waits for it in exactly one of the
\* lists and queues that lead to it; any other connect is in none.
THEOREM Spec_EachResultComesOnce == Spec => []EachResultComesOnce
  BY AlwaysSound, ResultsOnce, PTL

-----------------------------------------------------------------------------
(* What a close_all leaves.                                                *)

\* A step of a loop's thread leaves the other stacks alone.
LEMMA Elsewhere ==
  ASSUME stack \in [Loops -> Seq(Frame)], NEW x \in Loops, Calls(x) \/ LoopStep(x),
         NEW l \in Loops \ {x}
  PROVE  stack'[l] = stack[l]
<1>1. ASSUME NEW o, NEW below, Do(x, o, below) PROVE stack'[l] = stack[l]
  BY <1>1 DEF Do
<1>2. ASSUME NEW at, NEW below, Drain(x, at, below) PROVE stack'[l] = stack[l]
  BY <1>1, <1>2 DEF Drain
<1>3. ASSUME NEW h, Connect(x, h) PROVE stack'[l] = stack[l]
  BY <1>1, <1>3 DEF Connect
<1>4. ASSUME NEW h, Prefetch(x, h) PROVE stack'[l] = stack[l]
  BY <1>4 DEF Prefetch
<1>5. ASSUME NEW c \in Conns, CloseConnect(x, c) PROVE stack'[l] = stack[l]
  BY <1>1, <1>5 DEF CloseConnect
<1>6. CASE us_socket_group_close_all(x)
  BY <1>1, <1>6 DEF us_socket_group_close_all
<1>7. CASE Return(x)
  BY <1>1, <1>7 DEF Return
<1>8. CASE ConnectGoesOn(x)
  BY <1>1, <1>8 DEF ConnectGoesOn
<1>9. CASE CloseAllGoesOn(x)
  BY <1>1, <1>9 DEF CloseAllGoesOn
<1>10. CASE CloseGoesOn(x)
  BY <1>1, <1>10 DEF CloseGoesOn
<1>11. CASE BeginTick(x)
  BY <1>2, <1>11 DEF BeginTick
<1>12. CASE DrainGoesOn(x)
  BY <1>1, <1>12 DEF DrainGoesOn
<1>13. CASE PollReturns(x)
  BY <1>1, <1>13 DEF PollReturns
<1>14. CASE DispatchAttempt(x)
  BY <1>1, <1>14 DEF DispatchAttempt
<1>15. CASE DispatchTimeout(x)
  BY <1>1, <1>15 DEF DispatchTimeout
<1>16. CASE EndDispatch(x)
  BY <1>2, <1>16 DEF EndDispatch
<1>17. CASE EndTick(x)
  BY <1>1, <1>17 DEF EndTick
<1> QED
  BY <1>3, <1>4, <1>5, <1>6, <1>7, <1>8, <1>9, <1>10, <1>11, <1>12, <1>13, <1>14,
     <1>15, <1>16, <1>17 DEF Calls, LoopStep

\* A sequence is not its tail, nor is one with more in front.
LEMMA TailShorter ==
  ASSUME NEW S, NEW s \in Seq(S), s # <<>>
  PROVE  Tail(s) # s
<1>1. Len(Tail(s)) = Len(s) - 1 /\ Len(s) \in Nat
  BY HeadTailProperties, LenProperties
<1> SUFFICES ASSUME Tail(s) = s PROVE FALSE
  OBVIOUS
<1>2. Len(Tail(s)) = Len(s)
  OBVIOUS
<1> QED
  BY <1>1, <1>2

\* Two sequences, the second not empty, in front of one make it longer.
LEMMA LongerInFront ==
  ASSUME NEW S, NEW t \in Seq(S), NEW g \in S, NEW f \in Seq(S)
  PROVE  f \o (<<g>> \o t) # t
<1>1. PICK u \in Seq(S) : (u = <<g>> \o t) /\ (Len(u) = Len(t) + 1)
  BY Pushed
<1>2. Len(f \o u) = Len(f) + Len(u)
  BY ConcatProperties
<1>3. Len(f) \in Nat /\ Len(t) \in Nat
  BY LenProperties
<1> SUFFICES ASSUME f \o u = t PROVE FALSE
  BY <1>1
<1>4. Len(f \o u) = Len(t)
  OBVIOUS
<1> QED
  BY <1>1, <1>2, <1>3, <1>4

\* Nothing but its own next step returns from a close_all.
LEMMA WalkEnds ==
  ASSUME stack \in [Loops -> Seq(Frame)], [Next]_vars, NEW l \in Loops, At(l, "all"),
         stack'[l] = Tail(stack[l])
  PROVE  CloseAllGoesOn(l)
<1>1. stack'[l] # stack[l]
  <2>1. PICK s : s = stack[l]
    OBVIOUS
  <2>2. s \in Seq(Frame) /\ s # <<>>
    BY <2>1 DEF At
  <2>3. Tail(s) # s
    BY ONLY <2>2, TailShorter
  <2> QED
    BY <2>1, <2>3
<1>2. ASSUME NEW r, Worker(r) \/ Age(r) PROVE FALSE
  BY <1>1, <1>2, Zenon DEF Worker, AfterResult, NotifyThreadsafe, us_wakeup_loop, Age
<1>3. ASSUME NEW c, NEW i, Kernel(c, i) PROVE FALSE
  BY <1>1, <1>3 DEF Kernel
<1>4. CASE UNCHANGED vars
  BY <1>1, <1>4 DEF vars
<1>5. ASSUME NEW x \in Loops, Calls(x) \/ LoopStep(x) PROVE CloseAllGoesOn(l)
  <2>1. x = l
    BY <1>1, <1>5, Elsewhere
  <2>2. /\ stack[l] # <<>> /\ \A k : At(l, k) => k = "all"
        /\ \A at : ~Ticks(l, at)
    BY DEF At, Ticks
  <2>3. ~Call(l)
    BY <2>2 DEF Call
  <2>4. ~Calls(l)
    BY <2>3 DEF Calls, Connect, Prefetch, CloseConnect, us_socket_group_close_all
  <2>5. ~Return(l) /\ ~ConnectGoesOn(l) /\ ~CloseGoesOn(l) /\ ~DrainGoesOn(l)
    BY <2>2 DEF Return, ConnectGoesOn, CloseGoesOn, DrainGoesOn
  <2>6. ~BeginTick(l)
    BY <2>2, <2>3 DEF BeginTick
  <2>7. /\ ~PollReturns(l) /\ ~DispatchAttempt(l) /\ ~DispatchTimeout(l)
        /\ ~EndDispatch(l) /\ ~EndTick(l)
    BY <2>2 DEF PollReturns, DispatchAttempt, DispatchTimeout, EndDispatch, EndTick
  <2> QED
    BY <1>5, <2>1, <2>4, <2>5, <2>6, <2>7 DEF LoopStep
<1> QED
  BY <1>2, <1>3, <1>4, <1>5 DEF Next

\* Who is still on the group when the walk ends is being taken off it.
LEMMA WalkLeavesNone ==
  ASSUME Inv, [Next]_vars, NEW l \in Loops, At(l, "all"), stack'[l] = Tail(stack[l]),
         NEW c \in Conns \ Closing(l), mem'.conn[c].loop = l
  PROVE  ~mem'.conn[c].linked /\ mem'.head[l] # c
<1>1. PICK V : V = ViewOf(stack)
  OBVIOUS
<1>2. PICK Q : Q = QueueOf(mem.ready)
  OBVIOUS
<1>3. /\ mem.conn \in ConnMap /\ stack \in [Loops -> Seq(Frame)]
      /\ V[l] = View(stack[l])
      /\ Core(mem.conn, mem.req, mem.cache, Q, V) /\ GroupsOK(mem.conn, mem.head, V)
  BY <1>1, <1>2, SoundParts DEF Inv
<1>4. CloseAllGoesOn(l)
  BY <1>3, WalkEnds
<1>5. PICK f \in Frame : f = Head(stack[l]) /\ f.k = "all" /\ f.c \in Ptr
  <2>1. stack[l] \in Seq(Frame) /\ stack[l] # <<>> /\ Head(stack[l]).k = "all"
    BY <1>3 DEF At, Top
  <2>2. Head(stack[l]) \in Frame
    BY <2>1, HeadTailProperties
  <2> QED
    BY <2>1, <2>2 DEF Frame, UserFrame, CloseFrame, AllFrame, ConnectFrame, DrainFrame, TickFrame
<1>6. PICK t \in Seq(Frame) : t = Tail(stack[l])
  <2>1. stack[l] \in Seq(Frame) /\ stack[l] # <<>>
    BY <1>3 DEF At
  <2> QED
    BY <2>1, HeadTailProperties
<1>7. f.c = Null
  <2> SUFFICES ASSUME f.c # Null PROVE FALSE
    OBVIOUS
  <2>1. f.c \in Conns
    BY <1>5 DEF Ptr
  <2>2. PICK o : o = us_connecting_socket_close(mem, f.c)
    OBVIOUS
  <2>3. PICK g : g = [k |-> "all", c |-> mem.conn[f.c].np]
    OBVIOUS
  <2>4. g \in Frame
    <3>1. mem.conn[f.c].np \in Ptr
      BY <1>3, <2>1 DEF ConnMap, ConnRecord
    <3> QED
      BY <2>3, <3>1 DEF Frame, AllFrame
  <2>5. o.f \in Seq(Frame)
    <3>1. \A k \in {"free", "detach"} : <<User, [k |-> k, c |-> f.c]>> \in Seq(Frame)
      BY <2>1 DEF Frame, User, UserFrame, CloseFrame
    <3>2. <<>> \in Seq(Frame)
      OBVIOUS
    <3>3. \A n, k : TellError(n, f.c, k).f = <<User, [k |-> k, c |-> f.c]>>
      BY Zenon DEF TellError, Outcome
    <3>4. \/ o = Outcome(mem, <<>>)
          \/ (\E n : o = TellError(n, f.c, "free")) \/ (\E n : o = TellError(n, f.c, "detach"))
      BY <2>2, ZenonT(20) DEF us_connecting_socket_close
    <3>5. CASE o = Outcome(mem, <<>>)
      BY <3>2, <3>5 DEF Outcome
    <3>6. ASSUME NEW n, NEW k \in {"free", "detach"}, o = TellError(n, f.c, k)
          PROVE  o.f \in Seq(Frame)
      BY ONLY <3>1, <3>3, <3>6
    <3> QED
      BY <3>4, <3>5, <3>6
  <2>6. stack'[l] = o.f \o (<<g>> \o t)
    <3>1. Do(l, o, <<g>> \o t)
      BY <1>4, <1>5, <1>6, <2>2, <2>3 DEF CloseAllGoesOn, Top
    <3> QED
      BY <1>3, <3>1 DEF Do
  <2>7. o.f \o (<<g>> \o t) # t
    BY <2>4, <2>5, LongerInFront
  <2> QED
    BY <1>6, <2>6, <2>7
<1>8. mem' = mem
  BY <1>4, <1>5, <1>7 DEF CloseAllGoesOn, Top, Do, Outcome
<1>9. Null \in V[l].walk
  <2>1. stack[l] \in Seq(Frame) /\ stack[l] # <<>>
    BY <1>3 DEF At
  <2>2. 1 \in 1..Len(stack[l]) /\ stack[l][1] = f
    BY <1>5, <2>1, Popped
  <2>3. Null \in Held(f).walk
    BY <1>5, <1>7 DEF Held, Ptr
  <2> QED
    BY <1>3, <2>2, <2>3 DEF View, Ptr
<1>10. PICK rank : Groups(mem.conn, mem.head, V, rank)
  BY <1>3 DEF GroupsOK
<1>11. PICK G \in SUBSET Conns : Walkable(mem.conn, rank, l, V[l].walk, G)
  BY <1>9, <1>10 DEF Groups
<1>12. ~mem.conn[c].linked
  <2> SUFFICES ASSUME mem.conn[c].linked PROVE FALSE
    OBVIOUS
  <2>1. mem.conn[c].told # 0
    BY <1>8, <1>9, <1>11 DEF Walkable
  <2>2. mem.conn[c].told = 1
    BY <1>3, <2>1 DEF Core, ConnInv, ConnOK
  <2>3. c \in V[l].closing
    BY <1>3, <1>8, <2>2 DEF Core, LeadInv, LeadOK
  <2>4. stack[l] \in Seq(Frame) /\ c \in View(stack[l]).closing
    BY <1>3, <2>3
  <2> QED
    BY <2>4, ViewMeans
<1>13. mem.head[l] # c
  <2>1. HeadOK(mem.conn, mem.head, l)
    BY <1>10 DEF Groups, Ranked
  <2>2. c # Null
    BY Bounds
  <2> QED
    BY <1>12, <2>1, <2>2 DEF HeadOK
<1> QED
  BY <1>8, <1>12, <1>13

\* A close_all does not return while a connect is on the group, whatever the
\* callbacks closed under the walk, save those whose callback is still running.
THEOREM Spec_CloseAllLeavesNoConnect == Spec => CloseAllLeavesNoConnect
<1>1. Inv /\ [Next]_vars =>
        [\A l \in Loops : At(l, "all") /\ stack'[l] = Tail(stack[l]) =>
           \A c \in Conns \ Closing(l) : mem'.conn[c].loop = l =>
             ~mem'.conn[c].linked /\ mem'.head[l] # c]_vars
  BY WalkLeavesNone
<1> QED
  BY <1>1, AlwaysSound, PTL DEF Spec, CloseAllLeavesNoConnect

=============================================================================
