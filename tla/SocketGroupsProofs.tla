------------------------- MODULE SocketGroupsProofs -------------------------
(***************************************************************************)
(* Proofs about SocketGroups, for any finite sets of sockets and groups,   *)
(* any wheel, budget and bounds. What they promise ends where a parked     *)
(* socket is parked again (ParkedTwice): the lists are broken from there.  *)
(***************************************************************************)
EXTENDS SocketGroups, FiniteSetTheorems, SequenceTheorems, WellFoundedInduction, TLAPS

-----------------------------------------------------------------------------
(* Doubly linked lists of the nodes D, one for each P in L, with heads hd. *)
(* In are the nodes on lists, W says on which. Along a list, r descends.   *)

\* Functions that agree on S; ranks below hi.
Same(S, f, g) == \A x \in S : f[x] = g[x]
Ranked(D, r, hi) == r \in [D -> Nat] /\ hi \in Nat /\ \A x \in D : r[x] < hi

NodeOK(nx, pv, hd, In, W, r, x) ==
  /\ hd[W[x]] # Null
  /\ nx[x] # Null => nx[x] \in In /\ W[nx[x]] = W[x] /\ pv[nx[x]] = x /\ r[nx[x]] < r[x]
  /\ pv[x] # Null => pv[x] \in In /\ W[pv[x]] = W[x] /\ nx[pv[x]] = x
  /\ pv[x] = Null => hd[W[x]] = x

HeadOK(pv, hd, In, W, P) == hd[P] # Null => hd[P] \in In /\ W[hd[P]] = P /\ pv[hd[P]] = Null

Linked(L, nx, pv, hd, In, W, r) ==
  /\ \A x \in In : NodeOK(nx, pv, hd, In, W, r, x)
  /\ \A P \in L : HeadOK(pv, hd, In, W, P)

Listed(D, L, nx, pv, hd, In, W, r, hi) ==
  /\ Null \notin D /\ In \subseteq D /\ r \in [D -> Nat] /\ hi \in Nat
  /\ \A x \in D : r[x] < hi
  /\ \A x \in In : W[x] \in L
  /\ Linked(L, nx, pv, hd, In, W, r)

\* Every set of natural numbers that is not empty has a least member.
LEMMA Least ==
  ASSUME NEW T, T \subseteq Nat, T # {}
  PROVE  \E x \in T : \A y \in T : x <= y
<1> DEFINE R == OpToRel(<, Nat)
<1>1. IsWellFoundedOn(R, Nat) BY NatLessThanWellFounded, Zenon
<1>2. \A a, b \in Nat : a < b => <<a, b>> \in R BY DEF OpToRel
<1> HIDE DEF R
<1>3. PICK x \in T : \A y \in T : ~(<<y, x>> \in R) BY <1>1, WFMin
<1>4. \A y \in T : ~(y < x) BY <1>2, <1>3
<1> QED BY <1>3, <1>4

\* A set that is not empty has a member of the greatest rank, if ranks are bounded.
LEMMA Highest ==
  ASSUME NEW S, NEW r, NEW hi \in Nat, \A x \in S : r[x] \in Nat /\ r[x] < hi, S # {}
  PROVE  \E x \in S : \A y \in S : r[y] <= r[x]
<1> DEFINE T == {n \in Nat : \E x \in S : r[x] = hi - n}
<1>1. PICK x \in S : TRUE OBVIOUS
<1>2. hi - r[x] \in T OBVIOUS
<1>3. T \subseteq Nat /\ T # {} BY <1>2
<1>4. PICK n \in T : \A m \in T : n <= m BY <1>3, Least, Zenon
<1>5. PICK y \in S : r[y] = hi - n BY <1>4
<1>6. ASSUME NEW z \in S
      PROVE  r[z] <= r[y]
  BY <1>4, <1>5
<1> QED BY <1>6

\* From its head every node of a list is reached.
LEMMA Reached ==
  ASSUME NEW D, NEW L, NEW nx, NEW pv, NEW hd, NEW In, NEW W, NEW r, NEW hi,
         Listed(D, L, nx, pv, hd, In, W, r, hi),
         NEW P \in L, NEW C, hd[P] \in C \cup {Null},
         \A x \in C \cap In : nx[x] \in C \cup {Null}
  PROVE  \A x \in In : W[x] = P => x \in C
<1>l. /\ Null \notin D /\ In \subseteq D /\ r \in [D -> Nat] /\ hi \in Nat
      /\ \A x \in D : r[x] < hi
      /\ \A x \in In : W[x] \in L
      /\ Linked(L, nx, pv, hd, In, W, r)
  BY DEF Listed
<1> DEFINE S == {x \in In : W[x] = P /\ x \notin C}
<1> SUFFICES ASSUME S # {} PROVE FALSE BY <1>l
<1>1. \A x \in S : r[x] \in Nat /\ r[x] < hi BY <1>l
<1>2. PICK x \in S : \A y \in S : r[y] <= r[x]
  <2> HIDE DEF S
  <2> QED BY <1>l, <1>1, Highest
<1>3. NodeOK(nx, pv, hd, In, W, r, x) BY <1>l, <1>2 DEF Linked
<1>4. pv[x] # Null /\ pv[x] \in In /\ W[pv[x]] = P /\ nx[pv[x]] = x /\ x # Null
  BY <1>l, <1>2, <1>3 DEF Linked, NodeOK, HeadOK
<1>5. r[x] < r[pv[x]] BY <1>l, <1>4 DEF Linked, NodeOK
<1>6. pv[x] \in C BY <1>l, <1>2, <1>4, <1>5
<1> QED BY <1>l, <1>2, <1>4, <1>6

Inserts(L, In, P, s, nx, pv, hd, W, nx2, pv2, hd2, W2) ==
  /\ nx2[s] = hd[P] /\ pv2[s] = Null /\ W2[s] = P /\ hd2[P] = s
  /\ \A Q \in L \ {P} : hd2[Q] = hd[Q]
  /\ \A x \in In : /\ nx2[x] = nx[x] /\ W2[x] = W[x]
                   /\ pv2[x] = IF x = hd[P] THEN s ELSE pv[x]

\* A node at the head of a list.
LEMMA Inserted ==
  ASSUME NEW D, NEW L, NEW nx, NEW pv, NEW hd, NEW In, NEW W, NEW r, NEW hi,
         Listed(D, L, nx, pv, hd, In, W, r, hi),
         NEW P \in L, NEW s \in D \ In, NEW nx2, NEW pv2, NEW hd2, NEW W2,
         Inserts(L, In, P, s, nx, pv, hd, W, nx2, pv2, hd2, W2)
  PROVE  Listed(D, L, nx2, pv2, hd2, In \cup {s}, W2, [r EXCEPT ![s] = hi], hi + 1)
<1>l. /\ Null \notin D /\ In \subseteq D /\ r \in [D -> Nat] /\ hi \in Nat
      /\ \A x \in D : r[x] < hi
      /\ \A x \in In : W[x] \in L
      /\ Linked(L, nx, pv, hd, In, W, r)
  BY DEF Listed
<1>s. /\ nx2[s] = hd[P] /\ pv2[s] = Null /\ W2[s] = P /\ hd2[P] = s
      /\ \A Q \in L \ {P} : hd2[Q] = hd[Q]
      /\ \A x \in In : /\ nx2[x] = nx[x] /\ W2[x] = W[x]
                       /\ pv2[x] = IF x = hd[P] THEN s ELSE pv[x]
  BY DEF Inserts
<1> DEFINE r2 == [r EXCEPT ![s] = hi]
<1>0. r2[s] = hi /\ \A x \in In : r2[x] = r[x] /\ r[x] < hi BY <1>l
<1> HIDE DEF r2
<1>1. HeadOK(pv, hd, In, W, P) BY <1>l DEF Linked
<1>2. NodeOK(nx2, pv2, hd2, In \cup {s}, W2, r2, s)
  BY <1>l, <1>s, <1>0, <1>1 DEF NodeOK, HeadOK
<1>3. ASSUME NEW x \in In
      PROVE  NodeOK(nx2, pv2, hd2, In \cup {s}, W2, r2, x)
  <2>1. NodeOK(nx, pv, hd, In, W, r, x) BY <1>l DEF Linked
  <2>2. x # s /\ hd2[W2[x]] # Null BY <1>l, <1>s, <2>1 DEF NodeOK
  <2>3. nx[x] # Null => nx[x] # hd[P]
    BY <1>l, <1>s, <1>1, <2>1 DEF NodeOK, HeadOK
  <2>4. CASE x = hd[P]
    BY <1>l, <1>s, <1>0, <1>1, <2>1, <2>2, <2>3, <2>4 DEF NodeOK, HeadOK
  <2>5. CASE x # hd[P]
    BY <1>l, <1>s, <1>0, <2>1, <2>2, <2>3, <2>5 DEF NodeOK
  <2> QED BY <1>l, <1>s, <2>4, <2>5
<1>4. ASSUME NEW Q \in L
      PROVE  HeadOK(pv2, hd2, In \cup {s}, W2, Q)
  BY <1>l, <1>s, <1>1 DEF Linked, HeadOK
<1> QED
  <2>1. Linked(L, nx2, pv2, hd2, In \cup {s}, W2, r2)
    BY <1>2, <1>3, <1>4 DEF Linked
  <2>2. /\ r2 \in [D -> Nat] /\ hi + 1 \in Nat /\ \A x \in D : r2[x] < hi + 1
        /\ In \cup {s} \subseteq D /\ \A x \in In \cup {s} : W2[x] \in L
    BY <1>l, <1>s DEF r2
  <2> QED BY <1>l, <1>s, <2>1, <2>2 DEF Listed, r2

Removes(L, In, s, nx, pv, hd, W, nx2, pv2, hd2, W2) ==
  /\ \A Q \in L : hd2[Q] = IF Q = W[s] /\ pv[s] = Null THEN nx[s] ELSE hd[Q]
  /\ \A x \in In \ {s} : /\ nx2[x] = IF x = pv[s] THEN nx[s] ELSE nx[x]
                         /\ pv2[x] = IF x = nx[s] THEN pv[s] ELSE pv[x]
                         /\ W2[x] = W[x]

\* A node off its list.
LEMMA Removed ==
  ASSUME NEW D, NEW L, NEW nx, NEW pv, NEW hd, NEW In, NEW W, NEW r, NEW hi,
         Listed(D, L, nx, pv, hd, In, W, r, hi),
         NEW s \in In, NEW nx2, NEW pv2, NEW hd2, NEW W2,
         Removes(L, In, s, nx, pv, hd, W, nx2, pv2, hd2, W2)
  PROVE  Listed(D, L, nx2, pv2, hd2, In \ {s}, W2, r, hi)
<1>l. /\ Null \notin D /\ In \subseteq D /\ r \in [D -> Nat] /\ hi \in Nat
      /\ \A x \in D : r[x] < hi
      /\ \A x \in In : W[x] \in L
      /\ Linked(L, nx, pv, hd, In, W, r)
  BY DEF Listed
<1>s. /\ \A Q \in L : hd2[Q] = IF Q = W[s] /\ pv[s] = Null THEN nx[s] ELSE hd[Q]
      /\ \A x \in In \ {s} : /\ nx2[x] = IF x = pv[s] THEN nx[s] ELSE nx[x]
                             /\ pv2[x] = IF x = nx[s] THEN pv[s] ELSE pv[x]
                             /\ W2[x] = W[x]
  BY DEF Removes
<1> DEFINE p == pv[s]
           n == nx[s]
<1>1. NodeOK(nx, pv, hd, In, W, r, s) /\ s # Null BY <1>l DEF Linked
<1>2. n # s /\ p # s /\ (n # Null => n # p)
  BY <1>l, <1>1 DEF NodeOK, Linked
<1>3. ASSUME NEW x \in In \ {s}
      PROVE  NodeOK(nx2, pv2, hd2, In \ {s}, W2, r, x)
  <2>1. NodeOK(nx, pv, hd, In, W, r, x) /\ x # Null BY <1>l DEF Linked
  <2>2. hd2[W2[x]] # Null
    <3>1. CASE W[x] = W[s] /\ p = Null /\ n = Null
      <4>1. hd[W[s]] = s BY <1>l, <1>s, <1>1, <3>1 DEF NodeOK
      <4>2. PICK C : C = {s} BY <1>l
      <4>3. hd[W[s]] \in C \cup {Null} /\ \A y \in C \cap In : nx[y] \in C \cup {Null}
        BY <1>l, <1>s, <3>1, <4>1, <4>2
      <4>4. W[s] \in L BY <1>l
      <4>5. \A y \in In : W[y] = W[s] => y \in C
        BY <1>l, <1>s, <4>3, <4>4, Reached
      <4> QED BY <1>l, <1>s, <3>1, <4>2, <4>5
    <3>2. CASE ~(W[x] = W[s] /\ p = Null /\ n = Null)
      BY <1>l, <1>s, <2>1, <3>2 DEF NodeOK
    <3> QED BY <1>l, <1>s, <3>1, <3>2
  <2>3. nx2[x] # Null => /\ nx2[x] \in In \ {s} /\ W2[nx2[x]] = W2[x]
                         /\ pv2[nx2[x]] = x /\ r[nx2[x]] < r[x]
    <3>1. CASE x = p
      <4>1. nx2[x] = n /\ W[x] = W[s] /\ r[s] < r[x]
        BY <1>l, <1>s, <1>1, <2>1, <3>1 DEF NodeOK
      <4>2. n # Null => n \in In \ {s} /\ W[n] = W[s] /\ r[n] < r[s] /\ pv2[n] = p
        BY <1>l, <1>s, <1>1, <1>2 DEF NodeOK
      <4>3. \A y \in In : r[y] \in Nat BY <1>l
      <4> QED BY <1>l, <1>s, <3>1, <4>1, <4>2, <4>3
    <3>2. CASE x # p BY <1>l, <1>s, <2>1, <3>2, <1>1 DEF NodeOK
    <3> QED BY <1>l, <1>s, <3>1, <3>2
  <2>4. CASE x = n
    <3>1. pv2[x] = p /\ W[x] = W[s]
      BY <1>l, <1>s, <1>1, <2>1, <2>4 DEF NodeOK
    <3>2. p # Null => p \in In \ {s} /\ W2[p] = W[s] /\ nx2[p] = x
      BY <1>l, <1>s, <1>1, <1>2, <2>4 DEF NodeOK
    <3>3. p = Null => hd2[W2[x]] = x BY <1>l, <1>s, <2>4, <3>1
    <3> QED BY <1>l, <1>s, <2>2, <2>3, <3>1, <3>2, <3>3 DEF NodeOK
  <2>5. CASE x # n
    <3>1. pv2[x] = pv[x] /\ pv[x] # s
      BY <1>l, <1>s, <2>1, <2>5 DEF NodeOK
    <3>2. pv[x] # Null => pv[x] # p
      BY <1>l, <1>s, <1>1, <2>1 DEF NodeOK
    <3>3. pv[x] # Null => pv[x] \in In \ {s} /\ W2[pv[x]] = W2[x] /\ nx2[pv[x]] = x
      BY <1>l, <1>s, <2>1, <3>1, <3>2 DEF NodeOK
    <3>4. pv[x] = Null => hd2[W2[x]] = x
      BY <1>l, <1>s, <1>1, <2>1, <2>5 DEF NodeOK
    <3> QED BY <1>l, <1>s, <2>2, <2>3, <3>1, <3>3, <3>4 DEF NodeOK
  <2> QED BY <1>l, <1>s, <2>4, <2>5
<1>4. ASSUME NEW Q \in L
      PROVE  HeadOK(pv2, hd2, In \ {s}, W2, Q)
  <2>1. HeadOK(pv, hd, In, W, Q) BY <1>l DEF Linked
  <2>2. CASE Q = W[s] /\ p = Null
    BY <1>l, <1>s, <1>1, <1>2, <2>2 DEF NodeOK, HeadOK
  <2>3. CASE ~(Q = W[s] /\ p = Null)
    BY <1>l, <1>s, <1>1, <2>1, <2>3 DEF HeadOK, NodeOK
  <2> QED BY <1>l, <1>s, <2>2, <2>3
<1> QED BY <1>3, <1>4, <1>l, <1>s DEF Linked, Listed

Replaces(L, In, s, t, nx, pv, hd, W, nx2, pv2, hd2, W2) ==
  /\ nx2[t] = nx[s] /\ pv2[t] = pv[s] /\ W2[t] = W[s]
  /\ \A Q \in L : hd2[Q] = IF Q = W[s] /\ pv[s] = Null THEN t ELSE hd[Q]
  /\ \A x \in In \ {s} : /\ nx2[x] = IF x = pv[s] THEN t ELSE nx[x]
                         /\ pv2[x] = IF x = nx[s] THEN t ELSE pv[x]
                         /\ W2[x] = W[x]

\* A node in the place of another.
LEMMA Replaced ==
  ASSUME NEW D, NEW L, NEW nx, NEW pv, NEW hd, NEW In, NEW W, NEW r, NEW hi,
         Listed(D, L, nx, pv, hd, In, W, r, hi),
         NEW s \in In, NEW t \in D \ In, NEW nx2, NEW pv2, NEW hd2, NEW W2,
         Replaces(L, In, s, t, nx, pv, hd, W, nx2, pv2, hd2, W2)
  PROVE  Listed(D, L, nx2, pv2, hd2, (In \ {s}) \cup {t}, W2, [r EXCEPT ![t] = r[s]], hi)
<1>l. /\ Null \notin D /\ In \subseteq D /\ r \in [D -> Nat] /\ hi \in Nat
      /\ \A x \in D : r[x] < hi
      /\ \A x \in In : W[x] \in L
      /\ Linked(L, nx, pv, hd, In, W, r)
  BY DEF Listed
<1>s. /\ nx2[t] = nx[s] /\ pv2[t] = pv[s] /\ W2[t] = W[s]
      /\ \A Q \in L : hd2[Q] = IF Q = W[s] /\ pv[s] = Null THEN t ELSE hd[Q]
      /\ \A x \in In \ {s} : /\ nx2[x] = IF x = pv[s] THEN t ELSE nx[x]
                             /\ pv2[x] = IF x = nx[s] THEN t ELSE pv[x]
                             /\ W2[x] = W[x]
  BY DEF Replaces
<1> DEFINE r2 == [r EXCEPT ![t] = r[s]]
           In2 == (In \ {s}) \cup {t}
<1>0. r2[t] = r[s] /\ \A x \in In \ {s} : r2[x] = r[x] BY <1>l
<1>i. \A x : x \in In2 <=> x = t \/ (x \in In /\ x # s) BY <1>l
<1> HIDE DEF r2, In2
<1>1. NodeOK(nx, pv, hd, In, W, r, s) /\ s # Null /\ t # Null
  BY <1>l DEF Linked
<1>2. pv[s] # s /\ nx[s] # s BY <1>l, <1>1 DEF NodeOK
<1>3. NodeOK(nx2, pv2, hd2, In2, W2, r2, t)
  <2>1. hd2[W2[t]] # Null BY <1>l, <1>s, <1>1 DEF NodeOK
  <2>2. nx[s] # Null => nx[s] \in In \ {s} /\ W[nx[s]] = W[s] /\ pv2[nx[s]] = t /\ r[nx[s]] < r[s]
    BY <1>l, <1>s, <1>1, <1>2 DEF NodeOK
  <2>3. pv[s] # Null => pv[s] \in In \ {s} /\ W[pv[s]] = W[s] /\ nx2[pv[s]] = t
    BY <1>l, <1>s, <1>1, <1>2 DEF NodeOK
  <2> QED BY <1>l, <1>s, <1>0, <1>i, <2>1, <2>2, <2>3 DEF NodeOK
<1>4. ASSUME NEW x \in In \ {s}
      PROVE  NodeOK(nx2, pv2, hd2, In2, W2, r2, x)
  <2>1. NodeOK(nx, pv, hd, In, W, r, x) /\ x # Null /\ x # t
    BY <1>l DEF Linked
  <2>2. hd2[W2[x]] # Null BY <1>l, <1>s, <1>1, <2>1 DEF NodeOK
  <2>3. nx2[x] # Null => /\ nx2[x] \in In2 /\ W2[nx2[x]] = W2[x]
                         /\ pv2[nx2[x]] = x /\ r2[nx2[x]] < r2[x]
    <3>1. CASE x = pv[s]
      <4>1. nx2[x] = t /\ W[x] = W[s] /\ r[s] < r[x]
        BY <1>l, <1>s, <1>1, <2>1, <3>1 DEF NodeOK
      <4> QED BY <1>l, <1>s, <1>0, <1>i, <3>1, <4>1
    <3>2. CASE x # pv[s]
      <4>1. nx2[x] = nx[x] /\ nx[x] # s
        BY <1>l, <1>s, <2>1, <3>2 DEF NodeOK
      <4>2. nx[x] # Null => nx[x] # nx[s] /\ nx[x] \in In \ {s}
        BY <1>l, <1>s, <1>1, <2>1, <4>1 DEF NodeOK
      <4> QED BY <1>l, <1>s, <1>0, <1>i, <2>1, <4>1, <4>2 DEF NodeOK
    <3> QED BY <1>l, <1>s, <3>1, <3>2
  <2>4. CASE x = nx[s]
    <3>1. pv2[x] = t /\ W[x] = W[s] /\ nx2[t] = x
      BY <1>l, <1>s, <1>1, <2>1, <2>4 DEF NodeOK
    <3> QED
      BY <1>l, <1>s, <1>1, <1>i, <2>1, <2>2, <2>3, <3>1 DEF NodeOK
  <2>5. CASE x # nx[s]
    <3>1. pv2[x] = pv[x] /\ pv[x] # s
      BY <1>l, <1>s, <2>1, <2>5 DEF NodeOK
    <3>2. pv[x] # Null => pv[x] # pv[s] /\ pv[x] \in In \ {s}
      BY <1>l, <1>s, <1>1, <2>1, <3>1 DEF NodeOK
    <3>3. pv[x] # Null => pv[x] \in In2 /\ W2[pv[x]] = W2[x] /\ nx2[pv[x]] = x
      BY <1>l, <1>s, <1>i, <2>1, <3>1, <3>2 DEF NodeOK
    <3>4. pv[x] = Null => hd2[W2[x]] = x
      BY <1>l, <1>s, <1>1, <2>1, <2>5 DEF NodeOK
    <3> QED BY <1>l, <1>s, <2>2, <2>3, <3>1, <3>3, <3>4 DEF NodeOK
  <2> QED BY <1>l, <1>s, <2>4, <2>5
<1>5. ASSUME NEW Q \in L
      PROVE  HeadOK(pv2, hd2, In2, W2, Q)
  <2>1. HeadOK(pv, hd, In, W, Q) BY <1>l DEF Linked
  <2>2. CASE Q = W[s] /\ pv[s] = Null
    BY <1>l, <1>s, <1>i, <2>2 DEF HeadOK
  <2>3. CASE ~(Q = W[s] /\ pv[s] = Null)
    BY <1>l, <1>s, <2>3, <1>1, <2>1, <1>i DEF HeadOK, NodeOK
  <2> QED BY <1>l, <1>s, <2>2, <2>3
<1> QED
  BY <1>i, <1>3, <1>4, <1>5, <1>l, <1>s DEF Linked, r2, In2, Listed

\* The list from p of the nodes C, linked one way. Its ranks descend, too.
Single(nx, p, C, r) ==
  /\ p # Null => p \in C /\ \A x \in C : r[x] <= r[p]
  /\ p = Null => C = {}
  /\ \A x \in C : nx[x] # Null => nx[x] \in C /\ r[nx[x]] < r[x]
  /\ \A x \in C : x = p \/ \E y \in C : nx[y] = x
  /\ \A x, y \in C : nx[x] = nx[y] /\ nx[x] # Null => x = y

\* A node at the head of a list that is linked one way.
LEMMA SinglePushed ==
  ASSUME NEW D, Null \notin D, NEW nx, NEW p, NEW C \in SUBSET D, NEW r \in [D -> Nat],
         NEW hi \in Nat, \A x \in D : r[x] < hi, Single(nx, p, C, r),
         NEW s \in D \ C, NEW nx2, nx2[s] = p, \A x \in C : nx2[x] = nx[x],
         NEW r2 \in [D -> Nat], r2[s] = hi, \A x \in C : r2[x] = r[x]
  PROVE  Single(nx2, s, C \cup {s}, r2)
<1>1. \A x \in C : r[x] < hi /\ r[x] \in Nat OBVIOUS
<1>2. \A x \in C \cup {s} : r2[x] <= r2[s] BY <1>1
<1>3. ASSUME NEW x \in C \cup {s}, nx2[x] # Null
      PROVE  nx2[x] \in C \cup {s} /\ r2[nx2[x]] < r2[x]
  BY <1>1, <1>3 DEF Single
<1>4. ASSUME NEW x \in C \cup {s}
      PROVE  x = s \/ \E y \in C \cup {s} : nx2[y] = x
  <2>1. CASE x = s BY <2>1
  <2>2. CASE x = p BY <2>2
  <2>3. CASE x \in C /\ x # p
    <3>1. PICK y \in C : nx[y] = x BY <2>3 DEF Single
    <3> QED BY <3>1
  <2> QED BY <2>1, <2>2, <2>3
<1>5. ASSUME NEW x \in C, nx[x] = p, p # Null
      PROVE  FALSE
  BY <1>5, <1>1 DEF Single
<1>6. ASSUME NEW x \in C \cup {s}, NEW y \in C \cup {s}, nx2[x] = nx2[y], nx2[x] # Null
      PROVE  x = y
  BY <1>5, <1>6 DEF Single
<1> QED BY <1>2, <1>3, <1>4, <1>6 DEF Single

\* A chain stays in a set that its start and the links do not leave.
LEMMA ChainWithin ==
  ASSUME NEW nx, NEW p, NEW S \in SUBSET DOMAIN nx, p \in S \cup {Null},
         \A x \in S : nx[x] \in S \cup {Null}
  PROVE  Chain(nx, p) \subseteq S
  BY DEF Chain

\* The chain of a list that is linked one way.
LEMMA SingleLists ==
  ASSUME NEW D, Null \notin D, NEW nx, DOMAIN nx = D, NEW p, NEW C \in SUBSET D, NEW r \in [D -> Nat],
         NEW hi \in Nat, \A x \in D : r[x] < hi, Single(nx, p, C, r)
  PROVE  Lists(nx, p, C)
<1>1. Chain(nx, p) \subseteq C BY ChainWithin DEF Single
<1>2. ASSUME NEW S \in SUBSET D, p \in S \cup {Null}, \A x \in S : nx[x] \in S \cup {Null}
      PROVE  C \subseteq S
  <2> SUFFICES ASSUME C \ S # {} PROVE FALSE OBVIOUS
  <2>1. PICK T : T = C \ S OBVIOUS
  <2>2. \A x \in T : r[x] \in Nat /\ r[x] < hi BY <2>1
  <2>3. PICK x \in T : \A y \in T : r[y] <= r[x]
    BY <2>1, <2>2, Highest
  <2>4. x # p BY <1>2, <2>1 DEF Single
  <2>5. PICK y \in C : nx[y] = x BY <2>1, <2>4 DEF Single
  <2>6. r[x] < r[y] /\ x # Null /\ r[x] \in Nat /\ r[y] \in Nat
    BY <2>1, <2>5 DEF Single
  <2>7. y \in S BY <2>1, <2>3, <2>6
  <2> QED BY <1>2, <2>1, <2>5, <2>6, <2>7
<1>3. C \subseteq Chain(nx, p) BY <1>2 DEF Chain
<1>4. \A x \in C : nx[x] # Null => nx[x] # p
  <2> SUFFICES ASSUME NEW x \in C, nx[x] # Null, nx[x] = p PROVE FALSE
    OBVIOUS
  <2>1. r[p] < r[x] /\ r[x] <= r[p] /\ r[x] \in Nat /\ r[p] \in Nat
    BY DEF Single
  <2> QED BY <2>1
<1> QED BY <1>1, <1>3, <1>4 DEF Lists, Single

\* The chain of a list that is linked both ways.
LEMMA ListedBothWays ==
  ASSUME NEW D, NEW L, NEW nx, DOMAIN nx = D, NEW pv, NEW hd, NEW In, NEW W, NEW r, NEW hi,
         Listed(D, L, nx, pv, hd, In, W, r, hi), NEW P \in L,
         NEW S, S = {x \in In : W[x] = P}
  PROVE  BothWays(nx, pv, hd[P], S)
<1>1. /\ Null \notin D /\ In \subseteq D
      /\ HeadOK(pv, hd, In, W, P) /\ \A x \in In : NodeOK(nx, pv, hd, In, W, r, x)
  BY DEF Listed, Linked
<1>2. hd[P] \in S \cup {Null} /\ \A x \in S : nx[x] \in S \cup {Null}
  BY <1>1 DEF HeadOK, NodeOK
<1>3. Chain(nx, hd[P]) \subseteq S BY <1>1, <1>2, ChainWithin
<1>4. S \subseteq Chain(nx, hd[P])
  <2>1. ASSUME NEW C \in SUBSET DOMAIN nx, hd[P] \in C \cup {Null}, \A x \in C : nx[x] \in C \cup {Null}
        PROVE  S \subseteq C
    BY <2>1, Reached
  <2>2. S \subseteq DOMAIN nx BY <1>1
  <2> QED BY <2>1, <2>2 DEF Chain
<1>5. \A x \in S : nx[x] # Null => nx[x] # hd[P] /\ pv[nx[x]] = x
  BY <1>1 DEF HeadOK, NodeOK
<1>6. hd[P] # Null => pv[hd[P]] = Null BY <1>1 DEF HeadOK
<1>7. \A x \in S : nx[x] # Null => nx[x] # hd[P] /\ \A y \in S \ {x} : nx[y] # nx[x]
  BY <1>5
<1> QED BY <1>3, <1>4, <1>5, <1>6, <1>7 DEF BothWays, Lists

\* The list with head p at P is the set S.
ListIs(nx, pv, hd, In, W, P, p, S) ==
  \E L, r, hi : /\ Listed(DOMAIN nx, L, nx, pv, hd, In, W, r, hi) /\ P \in L
                /\ p = hd[P] /\ S = {x \in In : W[x] = P}

LEMMA ListIsBothWays ==
  ASSUME NEW nx, NEW pv, NEW hd, NEW In, NEW W, NEW P, NEW p, NEW S,
         ListIs(nx, pv, hd, In, W, P, p, S)
  PROVE  BothWays(nx, pv, p, S)
<1>1. PICK L, r, hi : /\ Listed(DOMAIN nx, L, nx, pv, hd, In, W, r, hi) /\ P \in L
                      /\ p = hd[P] /\ S = {x \in In : W[x] = P}
  BY DEF ListIs
<1>2. BothWays(nx, pv, hd[P], S) BY <1>1, ListedBothWays
<1> QED BY <1>1, <1>2

\* A list seen through other functions that agree on its nodes.
LEMMA ListedSame ==
  ASSUME NEW D, NEW L, NEW nx, NEW pv, NEW hd, NEW In, NEW W, NEW r, NEW hi,
         Listed(D, L, nx, pv, hd, In, W, r, hi),
         NEW nx2, NEW pv2, NEW hd2, NEW W2, NEW r2, NEW hi2, Ranked(D, r2, hi2),
         Same(L, hd2, hd), Same(In, nx2, nx), Same(In, pv2, pv), Same(In, W2, W), Same(In, r2, r)
  PROVE  Listed(D, L, nx2, pv2, hd2, In, W2, r2, hi2)
<1>s. /\ r2 \in [D -> Nat] /\ hi2 \in Nat /\ \A x \in D : r2[x] < hi2
      /\ \A P \in L : hd2[P] = hd[P]
      /\ \A x \in In : nx2[x] = nx[x] /\ pv2[x] = pv[x] /\ W2[x] = W[x] /\ r2[x] = r[x]
  BY DEF Ranked, Same
<1>l. /\ Null \notin D /\ In \subseteq D
      /\ \A x \in In : W[x] \in L
      /\ Linked(L, nx, pv, hd, In, W, r)
  BY DEF Listed
<1>1. ASSUME NEW x \in In
      PROVE  NodeOK(nx2, pv2, hd2, In, W2, r2, x)
  BY <1>l, <1>s DEF Linked, NodeOK
<1>2. ASSUME NEW P \in L
      PROVE  HeadOK(pv2, hd2, In, W2, P)
  BY <1>l, <1>s DEF Linked, HeadOK
<1> QED BY <1>l, <1>s, <1>1, <1>2 DEF Listed, Linked

\* ... and a list that is linked one way.
LEMMA SingleSame ==
  ASSUME NEW nx, NEW p, NEW C, NEW r, Single(nx, p, C, r), NEW nx2, NEW r2,
         Same(C, nx2, nx), Same(C, r2, r)
  PROVE  Single(nx2, p, C, r2)
  BY DEF Single, Same

-----------------------------------------------------------------------------
(* The heap's components.                                                  *)

PtrMap == [Sockets -> Ptr]
GroupPtrMap == [Groups -> GroupPtr]
LifeMap == [Sockets -> {"unused", "open", "listen", "closed", "freed"}]
Flags == [Sockets -> BOOLEAN]

Heaps ==
  [next : PtrMap, prev : PtrMap, group : [Sockets -> GroupPtr], life : LifeMap,
   semi : Flags, hs : [Sockets -> {"init", "done", "failed"}], prio : [Sockets -> 0..2],
   reads : Flags, adopted : Flags, timeout : [Sockets -> 0..Lap], long : [Sockets -> 0..Lap],
   head : [Groups -> Ptr], listen : [Groups -> Ptr], iter : [Groups -> Ptr],
   count : [Groups -> Int], linked : [Groups -> BOOLEAN], gnext : GroupPtrMap,
   gprev : GroupPtrMap, tick : [Groups -> Nat], gone : [Groups -> BOOLEAN],
   loopHead : GroupPtr, loopIter : GroupPtr, lowHead : Ptr, closedHead : Ptr,
   sweep : Int, budget : Int, told : [Sockets -> Int],
   opened : SUBSET Sockets, given : SUBSET Sockets]

Fields ==
  {"next", "prev", "group", "life", "semi", "hs", "prio", "reads", "adopted", "timeout",
   "long", "head", "listen", "iter", "count", "linked", "gnext", "gprev", "tick", "gone",
   "loopHead", "loopIter", "lowHead", "closedHead", "sweep", "budget", "told", "opened",
   "given"}

IsHeap(k) == k = [f \in Fields |-> k[f]]

\* Heaps h and k differ in the components F only.
SameBut(h, k, F) == IsHeap(k) /\ \A f \in Fields \ F : k[f] = h[f]

LEMMA HeapParts ==
  ASSUME NEW h \in Heaps
  PROVE  /\ h.next \in PtrMap /\ h.prev \in PtrMap /\ h.group \in [Sockets -> GroupPtr]
         /\ h.life \in LifeMap /\ h.semi \in Flags
         /\ h.hs \in [Sockets -> {"init", "done", "failed"}]
         /\ h.prio \in [Sockets -> 0..2] /\ h.reads \in Flags /\ h.adopted \in Flags
         /\ h.timeout \in [Sockets -> 0..Lap] /\ h.long \in [Sockets -> 0..Lap]
         /\ h.head \in [Groups -> Ptr] /\ h.listen \in [Groups -> Ptr]
         /\ h.iter \in [Groups -> Ptr] /\ h.count \in [Groups -> Int]
         /\ h.linked \in [Groups -> BOOLEAN] /\ h.gnext \in GroupPtrMap
         /\ h.gprev \in GroupPtrMap /\ h.tick \in [Groups -> Nat]
         /\ h.gone \in [Groups -> BOOLEAN] /\ h.loopHead \in GroupPtr
         /\ h.loopIter \in GroupPtr /\ h.lowHead \in Ptr /\ h.closedHead \in Ptr
         /\ h.sweep \in Int /\ h.budget \in Int /\ h.told \in [Sockets -> Int]
         /\ h.opened \in SUBSET Sockets /\ h.given \in SUBSET Sockets
         /\ IsHeap(h)
  BY DEF Heaps, IsHeap, Fields

LEMMA IsHeaps ==
  ASSUME NEW h, IsHeap(h),
         h.next \in PtrMap, h.prev \in PtrMap, h.group \in [Sockets -> GroupPtr],
         h.life \in LifeMap, h.semi \in Flags,
         h.hs \in [Sockets -> {"init", "done", "failed"}],
         h.prio \in [Sockets -> 0..2], h.reads \in Flags, h.adopted \in Flags,
         h.timeout \in [Sockets -> 0..Lap], h.long \in [Sockets -> 0..Lap],
         h.head \in [Groups -> Ptr], h.listen \in [Groups -> Ptr],
         h.iter \in [Groups -> Ptr], h.count \in [Groups -> Int],
         h.linked \in [Groups -> BOOLEAN], h.gnext \in GroupPtrMap,
         h.gprev \in GroupPtrMap, h.tick \in [Groups -> Nat],
         h.gone \in [Groups -> BOOLEAN], h.loopHead \in GroupPtr,
         h.loopIter \in GroupPtr, h.lowHead \in Ptr, h.closedHead \in Ptr,
         h.sweep \in Int, h.budget \in Int, h.told \in [Sockets -> Int],
         h.opened \in SUBSET Sockets, h.given \in SUBSET Sockets
  PROVE  h \in Heaps
  BY DEF Heaps, IsHeap, Fields

\* A heap remains one when what is written has its type.
Types ==
  [next |-> PtrMap, prev |-> PtrMap, group |-> [Sockets -> GroupPtr], life |-> LifeMap,
   semi |-> Flags, hs |-> [Sockets -> {"init", "done", "failed"}], prio |-> [Sockets -> 0..2],
   reads |-> Flags, adopted |-> Flags, timeout |-> [Sockets -> 0..Lap],
   long |-> [Sockets -> 0..Lap],
   head |-> [Groups -> Ptr], listen |-> [Groups -> Ptr], iter |-> [Groups -> Ptr],
   count |-> [Groups -> Int], linked |-> [Groups -> BOOLEAN], gnext |-> GroupPtrMap,
   gprev |-> GroupPtrMap, tick |-> [Groups -> Nat], gone |-> [Groups -> BOOLEAN],
   loopHead |-> GroupPtr, loopIter |-> GroupPtr, lowHead |-> Ptr, closedHead |-> Ptr,
   sweep |-> Int, budget |-> Int, told |-> [Sockets -> Int],
   opened |-> SUBSET Sockets, given |-> SUBSET Sockets]

LEMMA TypesOf ==
  /\ Types["next"] = PtrMap /\ Types["prev"] = PtrMap /\ Types["group"] = [Sockets -> GroupPtr]
  /\ Types["life"] = LifeMap /\ Types["semi"] = Flags
  /\ Types["hs"] = [Sockets -> {"init", "done", "failed"}] /\ Types["prio"] = [Sockets -> 0..2]
  /\ Types["reads"] = Flags /\ Types["adopted"] = Flags
  /\ Types["timeout"] = [Sockets -> 0..Lap] /\ Types["long"] = [Sockets -> 0..Lap]
  /\ Types["head"] = [Groups -> Ptr] /\ Types["listen"] = [Groups -> Ptr]
  /\ Types["iter"] = [Groups -> Ptr] /\ Types["count"] = [Groups -> Int]
  /\ Types["linked"] = [Groups -> BOOLEAN] /\ Types["gnext"] = GroupPtrMap
  /\ Types["gprev"] = GroupPtrMap /\ Types["tick"] = [Groups -> Nat]
  /\ Types["gone"] = [Groups -> BOOLEAN] /\ Types["loopHead"] = GroupPtr
  /\ Types["loopIter"] = GroupPtr /\ Types["lowHead"] = Ptr /\ Types["closedHead"] = Ptr
  /\ Types["sweep"] = Int /\ Types["budget"] = Int /\ Types["told"] = [Sockets -> Int]
  /\ Types["opened"] = SUBSET Sockets /\ Types["given"] = SUBSET Sockets
  BY DEF Types

Typed(k, F) == \A f \in F : k[f] \in Types[f]

LEMMA HeapBut ==
  ASSUME NEW h \in Heaps, NEW k, NEW F, SameBut(h, k, F), Typed(k, F)
  PROVE  k \in Heaps
<1>1. \A f \in Fields : h[f] \in Types[f]
  <2> QED BY HeapParts, TypesOf DEF Fields
<1>2. \A f \in Fields : k[f] \in Types[f] BY <1>1 DEF SameBut, Typed
<1>3. IsHeap(k) BY DEF SameBut
<1> QED BY <1>2, <1>3, TypesOf, IsHeaps DEF Fields

-----------------------------------------------------------------------------
(* The lists of sockets: In are the sockets on the list of a group or on   *)
(* the low-priority queue, which stands for Null; C are on the closed list. *)

Rows(nx, pv, hd, W, dead, In, C) ==
  /\ In \subseteq Sockets /\ C \subseteq Sockets /\ In \cap C = {}
  /\ \E r, hi : /\ Listed(Sockets, GroupPtr, nx, pv, hd, In, W, r, hi)
                /\ Single(nx, dead, C, r)

\* Writes to links of sockets on no list leave the lists as they are.
LEMMA RowsSame ==
  ASSUME NEW nx, NEW pv, NEW hd, NEW W, NEW dead, NEW In, NEW C,
         Rows(nx, pv, hd, W, dead, In, C),
         NEW nx2, NEW pv2, NEW hd2, NEW W2,
         Same(GroupPtr, hd2, hd), Same(In, nx2, nx), Same(In, pv2, pv), Same(In, W2, W),
         Same(C, nx2, nx)
  PROVE  Rows(nx2, pv2, hd2, W2, dead, In, C)
<1>1. PICK r, hi : /\ Listed(Sockets, GroupPtr, nx, pv, hd, In, W, r, hi)
                   /\ Single(nx, dead, C, r)
  BY DEF Rows
<1>2. Ranked(Sockets, r, hi) /\ Same(In, r, r) /\ Same(C, r, r)
  BY <1>1 DEF Listed, Ranked, Same
<1>3. Listed(Sockets, GroupPtr, nx2, pv2, hd2, In, W2, r, hi)
  BY <1>1, <1>2, ListedSame
<1>4. Single(nx2, dead, C, r) BY <1>1, <1>2, SingleSame
<1> QED BY <1>3, <1>4 DEF Rows

\* A socket to the head of the list P.
LEMMA RowsInserted ==
  ASSUME NEW nx, NEW pv, NEW hd, NEW W, NEW dead, NEW In, NEW C,
         Rows(nx, pv, hd, W, dead, In, C),
         NEW P \in GroupPtr, NEW s \in Sockets \ In, s \notin C,
         NEW nx2, NEW pv2, NEW hd2, NEW W2,
         Inserts(GroupPtr, In, P, s, nx, pv, hd, W, nx2, pv2, hd2, W2), Same(C, nx2, nx)
  PROVE  Rows(nx2, pv2, hd2, W2, dead, In \cup {s}, C)
<1>1. PICK r, hi : /\ Listed(Sockets, GroupPtr, nx, pv, hd, In, W, r, hi)
                   /\ Single(nx, dead, C, r)
  BY DEF Rows
<1>2. PICK r2 : r2 = [r EXCEPT ![s] = hi] OBVIOUS
<1>3. Listed(Sockets, GroupPtr, nx2, pv2, hd2, In \cup {s}, W2, r2, hi + 1)
  BY <1>1, Inserted, <1>2
<1>4. Same(C, r2, r) BY <1>1, <1>2 DEF Listed, Rows, Same
<1>5. Single(nx2, dead, C, r2) BY <1>1, <1>4, SingleSame
<1> QED BY <1>3, <1>5 DEF Rows

\* A socket off its list.
LEMMA RowsRemoved ==
  ASSUME NEW nx, NEW pv, NEW hd, NEW W, NEW dead, NEW In, NEW C,
         Rows(nx, pv, hd, W, dead, In, C),
         NEW s \in In, NEW nx2, NEW pv2, NEW hd2, NEW W2,
         Removes(GroupPtr, In, s, nx, pv, hd, W, nx2, pv2, hd2, W2), Same(C, nx2, nx)
  PROVE  Rows(nx2, pv2, hd2, W2, dead, In \ {s}, C)
<1>1. PICK r, hi : /\ Listed(Sockets, GroupPtr, nx, pv, hd, In, W, r, hi)
                   /\ Single(nx, dead, C, r)
  BY DEF Rows
<1>2. Listed(Sockets, GroupPtr, nx2, pv2, hd2, In \ {s}, W2, r, hi)
  BY <1>1, Removed
<1>3. Single(nx2, dead, C, r) BY <1>1, SingleSame DEF Same
<1> QED BY <1>2, <1>3 DEF Rows

\* A socket to the head of the closed list.
LEMMA RowsClosed ==
  ASSUME NEW nx, NEW pv, NEW hd, NEW W, NEW dead, NEW In, NEW C,
         Rows(nx, pv, hd, W, dead, In, C),
         NEW s \in Sockets \ In, s \notin C, NEW nx2, NEW pv2, NEW hd2, NEW W2,
         nx2[s] = dead, Same(In, nx2, nx), Same(C, nx2, nx),
         Same(GroupPtr, hd2, hd), Same(In, pv2, pv), Same(In, W2, W)
  PROVE  Rows(nx2, pv2, hd2, W2, s, In, C \cup {s})
<1>1. PICK r, hi : /\ Listed(Sockets, GroupPtr, nx, pv, hd, In, W, r, hi)
                   /\ Single(nx, dead, C, r)
  BY DEF Rows
<1>l. /\ r \in [Sockets -> Nat] /\ hi \in Nat /\ \A x \in Sockets : r[x] < hi
      /\ Null \notin Sockets /\ C \in SUBSET Sockets /\ In \subseteq Sockets
  BY <1>1 DEF Listed, Rows
<1>2. PICK r2 : r2 = [r EXCEPT ![s] = hi] OBVIOUS
<1>3. /\ r2 \in [Sockets -> Nat] /\ r2[s] = hi /\ hi + 1 \in Nat
      /\ \A x \in Sockets : r2[x] < hi + 1
      /\ \A x \in In \cup C : r2[x] = r[x]
  BY <1>l, <1>2
<1>4. Listed(Sockets, GroupPtr, nx2, pv2, hd2, In, W2, r2, hi + 1)
  BY <1>3, <1>1, ListedSame DEF Ranked, Same
<1>5. \A x \in C : nx2[x] = nx[x] /\ r2[x] = r[x] BY <1>3 DEF Same
<1>6. Single(nx2, s, C \cup {s}, r2)
  BY <1>1, <1>l, <1>3, <1>5, SinglePushed
<1> QED BY <1>4, <1>6 DEF Rows

\* A socket in the place of another one, which goes to the closed list.
LEMMA RowsReplaced ==
  ASSUME NEW nx, NEW pv, NEW hd, NEW W, NEW dead, NEW In, NEW C,
         Rows(nx, pv, hd, W, dead, In, C),
         NEW s \in In, NEW t \in Sockets \ In, t \notin C,
         NEW nx2, NEW pv2, NEW hd2, NEW W2,
         Replaces(GroupPtr, In, s, t, nx, pv, hd, W, nx2, pv2, hd2, W2),
         nx2[s] = dead, Same(C, nx2, nx)
  PROVE  Rows(nx2, pv2, hd2, W2, s, (In \ {s}) \cup {t}, C \cup {s})
<1>1. PICK r, hi : /\ Listed(Sockets, GroupPtr, nx, pv, hd, In, W, r, hi)
                   /\ Single(nx, dead, C, r)
  BY DEF Rows
<1>l. /\ r \in [Sockets -> Nat] /\ hi \in Nat /\ \A x \in Sockets : r[x] < hi
      /\ Null \notin Sockets /\ C \in SUBSET Sockets /\ In \subseteq Sockets /\ In \cap C = {}
  BY <1>1 DEF Listed, Rows
<1>2. PICK r2 : r2 = [r EXCEPT ![t] = r[s]] OBVIOUS
<1>3. PICK In2 : In2 = (In \ {s}) \cup {t} OBVIOUS
<1>4. Listed(Sockets, GroupPtr, nx2, pv2, hd2, In2, W2, r2, hi)
  BY <1>1, Replaced, <1>2, <1>3
<1>5. PICK r3 : r3 = [r2 EXCEPT ![s] = hi] OBVIOUS
<1>6. /\ r3 \in [Sockets -> Nat] /\ r3[s] = hi /\ hi + 1 \in Nat
      /\ \A x \in Sockets : r3[x] < hi + 1
      /\ \A x \in In2 : r3[x] = r2[x]
      /\ \A x \in C : r3[x] = r[x]
  BY <1>l, <1>2, <1>3, <1>5
<1>7. Listed(Sockets, GroupPtr, nx2, pv2, hd2, In2, W2, r3, hi + 1)
  BY <1>6, <1>4, ListedSame DEF Ranked, Same
<1>8. s \in Sockets \ C BY <1>l
<1>9. \A x \in C : nx2[x] = nx[x] /\ r3[x] = r[x] BY <1>6 DEF Same
<1>10. Single(nx2, s, C \cup {s}, r3)
  BY <1>1, <1>l, <1>6, <1>8, <1>9, SinglePushed
<1>11. In2 \subseteq Sockets /\ C \cup {s} \subseteq Sockets /\ In2 \cap (C \cup {s}) = {}
  BY <1>l, <1>3
<1> QED BY <1>3, <1>7, <1>10, <1>11 DEF Rows

Heads(head, low) == [P \in GroupPtr |-> IF P = Null THEN low ELSE head[P]]
Places(prio, group) == [s \in Sockets |-> IF prio[s] = 1 THEN Null ELSE group[s]]

SocketLists(nx, pv, head, low, dead, prio, group, In, C) ==
  /\ Rows(nx, pv, Heads(head, low), Places(prio, group), dead, In, C)
  /\ \A s \in In : group[s] \in Groups

\* Pk are the sockets that their groups count as parked.
Counts(count, sweep, prio, group, In, Pk) ==
  /\ Pk \subseteq Sockets
  /\ \A g \in Groups : count[g] = Cardinality({s \in Pk : group[s] = g})
  /\ sweep = Cardinality({s \in In : prio[s] # 1})

Cursors(iter, prio, group, In) ==
  \A g \in Groups : iter[g] # Null =>
    iter[g] \in In /\ prio[iter[g]] # 1 /\ group[iter[g]] = g

(* The groups on the loop. *)
Root(head) == [P \in {Null} |-> head]
Rooted == [g \in Groups |-> Null]
LoopList(nx, pv, head, In) ==
  \E r, hi : Listed(Groups, {Null}, nx, pv, Root(head), In, Rooted, r, hi)

OnLoop(linked) == {g \in Groups : linked[g]}

LoopOK(gnext, gprev, loopHead, loopIter, linked, gone) ==
  /\ LoopList(gnext, gprev, loopHead, OnLoop(linked))
  /\ loopIter # Null => linked[loopIter]
  /\ \A g \in Groups : gone[g] => ~linked[g]

\* E are the groups that a function is about to link or to unlink.
Busy(linked, head, listen, count, E) ==
  \A g \in Groups \ E : linked[g] <=> ~(head[g] = Null /\ listen[g] = Null /\ count[g] = 0)

Exact(h, In, C, Pk, E) ==
  /\ h \in Heaps
  /\ SocketLists(h.next, h.prev, h.head, h.lowHead, h.closedHead, h.prio, h.group, In, C)
  /\ Counts(h.count, h.sweep, h.prio, h.group, In, Pk)
  /\ Cursors(h.iter, h.prio, h.group, In)
  /\ LoopOK(h.gnext, h.gprev, h.loopHead, h.loopIter, h.linked, h.gone)
  /\ Busy(h.linked, h.head, h.listen, h.count, E)

-----------------------------------------------------------------------------
(* Groups to and off the loop.                                             *)

LinkFields == {"gnext", "gprev", "loopHead", "linked"}
LoopFields == LinkFields \cup {"loopIter"}

LEMMA LinkGroupValues ==
  ASSUME NEW h \in Heaps, NEW g \in Groups, NEW k, k = LinkGroup(h, g)
  PROVE  /\ SameBut(h, k, LinkFields)
         /\ k.gnext = [h.gnext EXCEPT ![g] = h.loopHead]
         /\ k.gprev = Put([h.gprev EXCEPT ![g] = Null], h.loopHead, g)
         /\ k.loopHead = g
         /\ k.linked = [h.linked EXCEPT ![g] = TRUE]
<1>1. LinkFields \subseteq Fields BY DEF LinkFields, Fields
<1>2. IsHeap(h) BY HeapParts
<1> QED
  BY <1>1, <1>2, Zenon DEF SameBut, IsHeap, LinkGroup, LinkFields

LEMMA UnlinkGroupValues ==
  ASSUME NEW h \in Heaps, NEW g \in Groups, NEW k, k = UnlinkGroup(h, g)
  PROVE  /\ SameBut(h, k, LoopFields)
         /\ k.loopIter = IF h.loopIter = g THEN h.gnext[g] ELSE h.loopIter
         /\ k.loopHead = IF h.loopHead = g THEN h.gnext[g] ELSE h.loopHead
         /\ k.gnext = IF h.loopHead = g THEN h.gnext ELSE [h.gnext EXCEPT ![h.gprev[g]] = h.gnext[g]]
         /\ k.gprev = Put(h.gprev, h.gnext[g], IF h.loopHead = g THEN Null ELSE h.gprev[g])
         /\ k.linked = [h.linked EXCEPT ![g] = FALSE]
<1>1. LoopFields \subseteq Fields
  BY DEF LinkFields, LoopFields, Fields
<1>2. IsHeap(h) BY HeapParts
<1> QED
  BY <1>1, <1>2, Zenon DEF SameBut, IsHeap, UnlinkGroup, LinkFields, LoopFields

\* A heap that differs in the loop's list of groups only.
LEMMA LoopHeaps ==
  ASSUME NEW h \in Heaps, NEW k, SameBut(h, k, LoopFields),
         k.gnext \in GroupPtrMap, k.gprev \in GroupPtrMap, k.linked \in [Groups -> BOOLEAN],
         k.loopHead \in GroupPtr, k.loopIter \in GroupPtr
  PROVE  k \in Heaps
  BY TypesOf, HeapBut DEF Typed, LoopFields, LinkFields

LEMMA LinkGroupOK ==
  ASSUME NEW h \in Heaps, NEW g \in Groups, ~h.linked[g], ~h.gone[g],
         LoopOK(h.gnext, h.gprev, h.loopHead, h.loopIter, h.linked, h.gone),
         NEW k, k = LinkGroup(h, g)
  PROVE  /\ k \in Heaps /\ SameBut(h, k, LinkFields)
         /\ LoopOK(k.gnext, k.gprev, k.loopHead, k.loopIter, k.linked, k.gone)
         /\ k.linked = [h.linked EXCEPT ![g] = TRUE]
<1>1. /\ SameBut(h, k, LinkFields)
      /\ k.gnext = [h.gnext EXCEPT ![g] = h.loopHead]
      /\ k.gprev = Put([h.gprev EXCEPT ![g] = Null], h.loopHead, g)
      /\ k.loopHead = g
      /\ k.linked = [h.linked EXCEPT ![g] = TRUE]
  BY LinkGroupValues
<1>2. k.loopIter = h.loopIter /\ k.gone = h.gone
  BY <1>1 DEF SameBut, LinkFields, Fields
<1>h. /\ h.gnext \in [Groups -> GroupPtr] /\ h.gprev \in [Groups -> GroupPtr] /\ h.linked \in [Groups -> BOOLEAN]
      /\ h.loopHead \in GroupPtr /\ h.loopIter \in GroupPtr
  BY HeapParts DEF GroupPtrMap
<1> DEFINE In == OnLoop(h.linked)
           In2 == OnLoop(k.linked)
<1>3. PICK r, hi : Listed(Groups, {Null}, h.gnext, h.gprev, Root(h.loopHead), In, Rooted, r, hi)
  BY DEF LoopOK, LoopList
<1>4. In2 = In \cup {g} /\ g \in Groups \ In BY <1>1, <1>h DEF OnLoop
<1>5. h.loopHead # Null => h.loopHead \in In
  BY <1>3 DEF Root, Listed, Linked, HeadOK
<1>6. PICK pv : pv = [h.gprev EXCEPT ![g] = Null] OBVIOUS
<1>7. pv \in [Groups -> GroupPtr] /\ \A x \in Groups : pv[x] = IF x = g THEN Null ELSE h.gprev[x]
  BY <1>6, <1>h DEF GroupPtr
<1>8. /\ k.gprev \in [Groups -> GroupPtr]
      /\ \A x \in Groups : k.gprev[x] = IF h.loopHead # Null /\ x = h.loopHead THEN g ELSE pv[x]
  BY <1>h, <1>1, <1>6, <1>7 DEF GroupPtr, Put
<1>9. k.gnext \in [Groups -> GroupPtr] /\ k.gnext[g] = h.loopHead /\ \A x \in Groups \ {g} : k.gnext[x] = h.gnext[x]
  BY <1>1, <1>h
<1>10. Listed(Groups, {Null}, k.gnext, k.gprev, Root(k.loopHead), In \cup {g}, Rooted, [r EXCEPT ![g] = hi], hi + 1)
  <2>1. k.gprev[g] = Null BY <1>4, <1>5, <1>7, <1>8
  <2>2. Root(h.loopHead)[Null] = h.loopHead /\ Root(k.loopHead)[Null] = g
    BY <1>1 DEF Root
  <2>3. Rooted[g] = Null BY DEF Rooted
  <2>4. In \subseteq Groups /\ g \notin In /\ Null \notin In
    BY <1>4, Bounds DEF OnLoop
  <2>5. \A x \in In : k.gnext[x] = h.gnext[x] /\ k.gprev[x] = IF x = h.loopHead THEN g ELSE h.gprev[x]
    BY <1>7, <1>8, <1>9, <2>4
  <2>6. PICK nx, nx2, pv1, pv2, hd, hd2 :
          nx = h.gnext /\ nx2 = k.gnext /\ pv1 = h.gprev /\ pv2 = k.gprev
          /\ hd = Root(h.loopHead) /\ hd2 = Root(k.loopHead)
    OBVIOUS
  <2>7. /\ Listed(Groups, {Null}, nx, pv1, hd, In, Rooted, r, hi)
        /\ Inserts({Null}, In, Null, g, nx, pv1, hd, Rooted, nx2, pv2, hd2, Rooted)
    BY <1>3, <1>9, <2>1, <2>2, <2>3, <2>5, <2>6 DEF Inserts
  <2>8. Listed(Groups, {Null}, nx2, pv2, hd2, In \cup {g}, Rooted, [r EXCEPT ![g] = hi], hi + 1)
    <3> HIDE DEF In
    <3> QED BY <1>4, <2>7, Inserted
  <2> QED BY <2>6, <2>8
<1>11. LoopList(k.gnext, k.gprev, k.loopHead, In2)
  BY <1>4, <1>10 DEF LoopList
<1>12. LoopOK(k.gnext, k.gprev, k.loopHead, k.loopIter, k.linked, k.gone)
  BY <1>1, <1>2, <1>11, <1>h DEF LoopOK, GroupPtr
<1>13. SameBut(h, k, LoopFields) BY <1>1 DEF SameBut, LoopFields
<1>14. /\ k.gnext \in GroupPtrMap /\ k.gprev \in GroupPtrMap /\ k.linked \in [Groups -> BOOLEAN]
       /\ k.loopHead \in GroupPtr /\ k.loopIter \in GroupPtr
  BY <1>1, <1>2, <1>8, <1>9, <1>h DEF GroupPtr, GroupPtrMap
<1> QED BY <1>1, <1>12, <1>13, <1>14, LoopHeaps

LEMMA UnlinkGroupOK ==
  ASSUME NEW h \in Heaps, NEW g \in Groups, h.linked[g],
         LoopOK(h.gnext, h.gprev, h.loopHead, h.loopIter, h.linked, h.gone),
         NEW k, k = UnlinkGroup(h, g)
  PROVE  /\ k \in Heaps /\ SameBut(h, k, LoopFields)
         /\ LoopOK(k.gnext, k.gprev, k.loopHead, k.loopIter, k.linked, k.gone)
         /\ k.linked = [h.linked EXCEPT ![g] = FALSE]
<1>1. /\ SameBut(h, k, LoopFields)
      /\ k.loopIter = IF h.loopIter = g THEN h.gnext[g] ELSE h.loopIter
      /\ k.loopHead = IF h.loopHead = g THEN h.gnext[g] ELSE h.loopHead
      /\ k.gnext = IF h.loopHead = g THEN h.gnext ELSE [h.gnext EXCEPT ![h.gprev[g]] = h.gnext[g]]
      /\ k.gprev = Put(h.gprev, h.gnext[g], IF h.loopHead = g THEN Null ELSE h.gprev[g])
      /\ k.linked = [h.linked EXCEPT ![g] = FALSE]
  BY UnlinkGroupValues
<1>2. k.gone = h.gone
  BY <1>1 DEF SameBut, LoopFields, LinkFields, Fields
<1>h. /\ h.gnext \in [Groups -> GroupPtr] /\ h.gprev \in [Groups -> GroupPtr] /\ h.linked \in [Groups -> BOOLEAN]
      /\ h.loopHead \in GroupPtr /\ h.loopIter \in GroupPtr
  BY HeapParts DEF GroupPtrMap
<1> DEFINE In == OnLoop(h.linked)
           In2 == OnLoop(k.linked)
<1>3. PICK r, hi : Listed(Groups, {Null}, h.gnext, h.gprev, Root(h.loopHead), In, Rooted, r, hi)
  BY DEF LoopOK, LoopList
<1>4. In2 = In \ {g} /\ g \in In /\ Null \notin Groups /\ In \subseteq Groups
  BY <1>1, <1>h, Bounds DEF OnLoop
<1>5. /\ Root(h.loopHead)[Null] = h.loopHead /\ Root(k.loopHead)[Null] = k.loopHead
      /\ \A x \in Groups : Rooted[x] = Null
  BY DEF Root, Rooted
<1>6. PICK p, n : p = h.gprev[g] /\ n = h.gnext[g] OBVIOUS
<1>7. /\ p # Null => p \in In /\ p # g /\ h.gnext[p] = g
      /\ n # Null => n \in In /\ n # g
      /\ p = Null => h.loopHead = g
      /\ h.loopHead = g => p = Null
  <2>1. /\ NodeOK(h.gnext, h.gprev, Root(h.loopHead), In, Rooted, r, g)
        /\ HeadOK(h.gprev, Root(h.loopHead), In, Rooted, Null)
    BY <1>3, <1>4 DEF Listed, Linked
  <2>2. p # Null => NodeOK(h.gnext, h.gprev, Root(h.loopHead), In, Rooted, r, p)
    BY <1>3, <1>6, <2>1 DEF Listed, Linked, NodeOK
  <2>3. \A x \in In : r[x] \in Nat BY <1>3, <1>4 DEF Listed
  <2> QED BY <1>4, <1>5, <1>6, <2>1, <2>2, <2>3 DEF NodeOK, HeadOK
<1>8. k.gnext \in [Groups -> GroupPtr] /\ \A x \in Groups : k.gnext[x] = IF x = p THEN n ELSE h.gnext[x]
  BY <1>1, <1>4, <1>6, <1>7, <1>h DEF GroupPtr
<1>9. k.gprev \in [Groups -> GroupPtr] /\ \A x \in Groups : k.gprev[x] = IF x = n THEN p ELSE h.gprev[x]
  BY <1>1, <1>6, <1>7, <1>h, <1>4 DEF Put
<1>10. Listed(Groups, {Null}, k.gnext, k.gprev, Root(k.loopHead), In \ {g}, Rooted, r, hi)
  <2>1. PICK nx, nx2, pv1, pv2, hd, hd2 :
          nx = h.gnext /\ nx2 = k.gnext /\ pv1 = h.gprev /\ pv2 = k.gprev
          /\ hd = Root(h.loopHead) /\ hd2 = Root(k.loopHead)
    OBVIOUS
  <2>2. Removes({Null}, In, g, nx, pv1, hd, Rooted, nx2, pv2, hd2, Rooted)
    <3>1. \A x \in In \ {g} : nx2[x] = (IF x = p THEN n ELSE nx[x]) /\ pv2[x] = (IF x = n THEN p ELSE pv1[x])
      BY <1>4, <1>8, <1>9, <2>1
    <3>2. hd2[Null] = IF p = Null THEN n ELSE hd[Null]
      BY <1>1, <1>5, <1>6, <1>7, <2>1
    <3>3. p = pv1[g] /\ n = nx[g] /\ Rooted[g] = Null
      BY <1>4, <1>5, <1>6, <2>1
    <3> QED BY <3>1, <3>2, <3>3 DEF Removes
  <2>3. Listed(Groups, {Null}, nx, pv1, hd, In, Rooted, r, hi)
    BY <1>3, <2>1
  <2>4. Listed(Groups, {Null}, nx2, pv2, hd2, In \ {g}, Rooted, r, hi)
    <3> HIDE DEF In
    <3> QED BY <1>4, <2>2, <2>3, Removed
  <2> QED BY <2>1, <2>4
<1>11. LoopList(k.gnext, k.gprev, k.loopHead, In2)
  BY <1>4, <1>10 DEF LoopList
<1>12. LoopOK(k.gnext, k.gprev, k.loopHead, k.loopIter, k.linked, k.gone)
  <2>1. k.loopIter # Null => k.linked[k.loopIter]
    <3>1. CASE h.loopIter = g
      BY <1>1, <1>4, <1>6, <1>7, <1>h, <3>1 DEF OnLoop
    <3>2. CASE h.loopIter # g BY <1>1, <1>h, <3>2 DEF LoopOK
    <3> QED BY <3>1, <3>2
  <2>2. \A x \in Groups : k.gone[x] => ~k.linked[x]
    BY <1>1, <1>2, <1>h DEF LoopOK
  <2> QED BY <1>11, <2>1, <2>2 DEF LoopOK
<1>13. /\ k.gnext \in GroupPtrMap /\ k.gprev \in GroupPtrMap /\ k.linked \in [Groups -> BOOLEAN]
       /\ k.loopHead \in GroupPtr /\ k.loopIter \in GroupPtr
  BY <1>1, <1>8, <1>9, <1>h DEF GroupPtrMap
<1> QED BY <1>1, <1>12, <1>13, LoopHeaps

\* us_internal_socket_group_touched: afterwards the group is on the loop.
LEMMA TouchedOK ==
  ASSUME NEW h \in Heaps, NEW g \in Groups, ~h.gone[g],
         LoopOK(h.gnext, h.gprev, h.loopHead, h.loopIter, h.linked, h.gone),
         NEW k, k = Touched(h, g)
  PROVE  /\ k \in Heaps /\ SameBut(h, k, LoopFields)
         /\ LoopOK(k.gnext, k.gprev, k.loopHead, k.loopIter, k.linked, k.gone)
         /\ k.linked[g] /\ \A x \in Groups \ {g} : k.linked[x] = h.linked[x]
         /\ k.loopIter = h.loopIter
<1>1. CASE h.linked[g] BY <1>1, HeapParts DEF Touched, SameBut
<1>2. CASE ~h.linked[g]
  <2>1. k = LinkGroup(h, g) BY <1>2 DEF Touched
  <2>2. /\ k \in Heaps /\ SameBut(h, k, LinkFields)
        /\ LoopOK(k.gnext, k.gprev, k.loopHead, k.loopIter, k.linked, k.gone)
        /\ k.linked = [h.linked EXCEPT ![g] = TRUE]
    BY <1>2, <2>1, LinkGroupOK
  <2>3. h.linked \in [Groups -> BOOLEAN] BY HeapParts
  <2>4. SameBut(h, k, LoopFields) BY <2>2 DEF SameBut, LoopFields
  <2>5. k.loopIter = h.loopIter
    BY <2>2 DEF SameBut, LinkFields, Fields
  <2> QED BY <2>2, <2>3, <2>4, <2>5
<1> QED BY <1>1, <1>2

\* us_internal_socket_group_maybe_unlink: afterwards an empty group is off the loop.
LEMMA MaybeUnlinkOK ==
  ASSUME NEW h \in Heaps, NEW g \in Groups,
         LoopOK(h.gnext, h.gprev, h.loopHead, h.loopIter, h.linked, h.gone),
         NEW k, k = MaybeUnlink(h, g)
  PROVE  /\ k \in Heaps /\ SameBut(h, k, LoopFields)
         /\ LoopOK(k.gnext, k.gprev, k.loopHead, k.loopIter, k.linked, k.gone)
         /\ k.linked[g] <=> h.linked[g] /\ ~IsEmpty(h, g)
         /\ \A x \in Groups \ {g} : k.linked[x] = h.linked[x]
<1>0. h.linked \in [Groups -> BOOLEAN] /\ IsHeap(h) BY HeapParts
<1>1. CASE h.linked[g] /\ IsEmpty(h, g)
  <2>1. k = UnlinkGroup(h, g) BY <1>1 DEF MaybeUnlink
  <2>2. /\ k \in Heaps /\ SameBut(h, k, LoopFields)
        /\ LoopOK(k.gnext, k.gprev, k.loopHead, k.loopIter, k.linked, k.gone)
        /\ k.linked = [h.linked EXCEPT ![g] = FALSE]
    BY <1>1, <2>1, UnlinkGroupOK
  <2> QED BY <1>0, <1>1, <2>2
<1>2. CASE ~(h.linked[g] /\ IsEmpty(h, g))
  BY <1>2, <1>0 DEF MaybeUnlink, SameBut
<1> QED BY <1>1, <1>2

-----------------------------------------------------------------------------
(* What the functions on sockets write, and what it makes of the lists.    *)

\* The neighbours of a socket that is on a list.
LEMMA Neighbours ==
  ASSUME NEW nx, NEW pv, NEW hd, NEW W, NEW dead, NEW In, NEW C,
         Rows(nx, pv, hd, W, dead, In, C), NEW s \in In, NEW p, p = pv[s], NEW n, n = nx[s]
  PROVE  /\ p # Null => p \in In /\ p # s /\ nx[p] = s /\ W[p] = W[s]
         /\ n # Null => n \in In /\ n # s /\ pv[n] = s /\ W[n] = W[s]
         /\ p = Null <=> hd[W[s]] = s
         /\ p = n => p = Null
         /\ hd[W[s]] # Null /\ W[s] \in GroupPtr /\ s # Null /\ s \in Sockets /\ s \notin C
<1>1. PICK r, hi : Listed(Sockets, GroupPtr, nx, pv, hd, In, W, r, hi)
  BY DEF Rows
<1>l. /\ Null \notin Sockets /\ In \subseteq Sockets /\ r \in [Sockets -> Nat]
      /\ Linked(GroupPtr, nx, pv, hd, In, W, r) /\ W[s] \in GroupPtr
  BY <1>1 DEF Listed
<1>2. NodeOK(nx, pv, hd, In, W, r, s) /\ HeadOK(pv, hd, In, W, W[s])
  BY <1>l DEF Linked
<1>3. p # Null => NodeOK(nx, pv, hd, In, W, r, p)
  BY <1>l, <1>2 DEF Linked, NodeOK
<1>4. \A x \in In : r[x] \in Nat BY <1>l
<1>5. p = Null <=> hd[W[s]] = s BY <1>l, <1>2 DEF NodeOK, HeadOK
<1>6. p # Null => p \in In /\ p # s /\ nx[p] = s /\ W[p] = W[s] /\ r[s] < r[p]
  BY <1>l, <1>2, <1>3, <1>4 DEF NodeOK
<1>7. n # Null => n \in In /\ n # s /\ pv[n] = s /\ W[n] = W[s] /\ r[n] < r[s]
  BY <1>l, <1>2, <1>4 DEF NodeOK
<1>8. p = n => p = Null BY <1>4, <1>6, <1>7
<1>9. s \notin C BY DEF Rows
<1> QED BY <1>l, <1>2, <1>5, <1>6, <1>7, <1>8, <1>9 DEF NodeOK

\* The head of a list.
LEMMA HeadOfList ==
  ASSUME NEW nx, NEW pv, NEW hd, NEW W, NEW dead, NEW In, NEW C,
         Rows(nx, pv, hd, W, dead, In, C), NEW P \in GroupPtr, NEW s, s = hd[P], s # Null
  PROVE  s \in In /\ W[s] = P /\ pv[s] = Null /\ s \in Sockets
  BY DEF Rows, Listed, Linked, HeadOK

LinkWrites(nx, pv, head, low, dead, prio, group, In, C, s, g, nx2, pv2, head2, group2) ==
  /\ nx \in PtrMap /\ pv \in PtrMap /\ head \in [Groups -> Ptr] /\ group \in [Sockets -> GroupPtr]
  /\ SocketLists(nx, pv, head, low, dead, prio, group, In, C)
  /\ s \in Sockets /\ s \notin In /\ s \notin C /\ prio[s] # 1 /\ g \in Groups
  /\ nx2 = [nx EXCEPT ![s] = head[g]]
  /\ pv2 = Put([pv EXCEPT ![s] = Null], head[g], s)
  /\ head2 = [head EXCEPT ![g] = s]
  /\ group2 = [group EXCEPT ![s] = g]

\* us_internal_socket_group_link_socket.
LEMMA ListsLinked ==
  ASSUME NEW nx, NEW pv, NEW head, NEW low, NEW dead, NEW prio, NEW group, NEW In, NEW C,
         NEW s, NEW g, NEW nx2, NEW pv2, NEW head2, NEW group2,
         LinkWrites(nx, pv, head, low, dead, prio, group, In, C, s, g, nx2, pv2, head2, group2)
  PROVE  /\ SocketLists(nx2, pv2, head2, low, dead, prio, group2, In \cup {s}, C)
         /\ nx2 \in PtrMap /\ pv2 \in PtrMap /\ head2 \in [Groups -> Ptr]
         /\ group2 \in [Sockets -> GroupPtr]
         /\ Same(Sockets \ (In \cup {s}), pv2, pv)
<1> /\ nx \in PtrMap /\ pv \in PtrMap /\ head \in [Groups -> Ptr] /\ group \in [Sockets -> GroupPtr]
    /\ SocketLists(nx, pv, head, low, dead, prio, group, In, C)
    /\ s \in Sockets /\ s \notin In /\ s \notin C /\ prio[s] # 1 /\ g \in Groups
  BY DEF LinkWrites
<1>0. /\ nx2 = [nx EXCEPT ![s] = head[g]]
      /\ pv2 = Put([pv EXCEPT ![s] = Null], head[g], s)
      /\ head2 = [head EXCEPT ![g] = s]
      /\ group2 = [group EXCEPT ![s] = g]
  BY DEF LinkWrites
<1>1. PICK hd, hd2, W, W2 : /\ hd = Heads(head, low) /\ hd2 = Heads(head2, low)
                            /\ W = Places(prio, group) /\ W2 = Places(prio, group2)
  OBVIOUS
<1>2. Rows(nx, pv, hd, W, dead, In, C) /\ \A x \in In : group[x] \in Groups
  BY <1>1 DEF SocketLists
<1>3. In \subseteq Sockets /\ C \subseteq Sockets /\ Null \notin Sockets /\ Null \notin Groups
  BY <1>2, Bounds DEF Rows
<1>4. hd[g] = head[g] /\ hd2[g] = s /\ \A Q \in GroupPtr \ {g} : hd2[Q] = hd[Q]
  BY <1>0, <1>1, Bounds DEF Heads, GroupPtr
<1>5. hd[g] # Null => hd[g] \in In BY <1>2, HeadOfList DEF GroupPtr
<1>6. nx2 \in PtrMap /\ nx2[s] = head[g] /\ \A x \in Sockets \ {s} : nx2[x] = nx[x]
  BY <1>0 DEF PtrMap, Ptr
<1>7. PICK pv1 : pv1 = [pv EXCEPT ![s] = Null] OBVIOUS
<1>8. pv1 \in [Sockets -> Ptr] /\ pv1[s] = Null /\ \A x \in Sockets \ {s} : pv1[x] = pv[x]
  BY <1>7 DEF PtrMap, Ptr
<1>9. pv2 \in [Sockets -> Ptr] /\ \A x \in Sockets : pv2[x] = IF x = head[g] THEN s ELSE pv1[x]
  <2>1. pv2 = Put(pv1, head[g], s) /\ (head[g] # Null => head[g] \in Sockets) /\ s \in Ptr
    BY <1>0, <1>3, <1>4, <1>5, <1>7 DEF Ptr
  <2>2. CASE head[g] = Null BY <1>3, <1>8, <2>1, <2>2 DEF Put
  <2>3. CASE head[g] # Null BY <2>1, <2>3, <1>8 DEF Put
  <2> QED BY <2>2, <2>3
<1>10. W2[s] = g /\ \A x \in In : W2[x] = W[x]
  BY <1>0, <1>1, <1>3 DEF GroupPtr, Places
<1>11. Inserts(GroupPtr, In, g, s, nx, pv, hd, W, nx2, pv2, hd2, W2)
  <2>1. nx2[s] = hd[g] /\ pv2[s] = Null
    BY <1>3, <1>4, <1>5, <1>6, <1>8, <1>9
  <2>2. \A x \in In : nx2[x] = nx[x] /\ pv2[x] = IF x = hd[g] THEN s ELSE pv[x]
    <3> SUFFICES ASSUME NEW x \in In PROVE nx2[x] = nx[x] /\ pv2[x] = IF x = hd[g] THEN s ELSE pv[x]
      OBVIOUS
    <3>1. x \in Sockets /\ x # s BY <1>3
    <3>2. nx2[x] = nx[x] /\ pv1[x] = pv[x] /\ pv2[x] = IF x = head[g] THEN s ELSE pv1[x]
      BY <1>6, <1>8, <1>9, <3>1
    <3> QED BY <1>4, <3>2
  <2> QED BY <1>4, <1>10, <2>1, <2>2 DEF Inserts
<1>12. Same(C, nx2, nx) BY <1>3, <1>6 DEF Same
<1>13. Rows(nx2, pv2, hd2, W2, dead, In \cup {s}, C)
  BY <1>2, <1>11, <1>12, RowsInserted DEF GroupPtr
<1>14. \A x \in In \cup {s} : group2[x] \in Groups BY <1>0, <1>2, <1>3
<1>15. \A x \in Sockets : x \notin In /\ x # s => pv2[x] = pv[x]
  BY <1>3, <1>4, <1>5, <1>8, <1>9
<1>16. group2 \in [Sockets -> GroupPtr] /\ head2 \in [Groups -> Ptr]
  BY <1>0 DEF GroupPtr, Ptr
<1>17. Same(Sockets \ (In \cup {s}), pv2, pv) BY <1>15 DEF Same
<1> QED
  BY <1>1, <1>6, <1>9, <1>13, <1>14, <1>16, <1>17 DEF SocketLists, PtrMap

QueueWrites(nx, pv, head, low, dead, prio, group, In, C, s, nx2, pv2, prio2) ==
  /\ nx \in PtrMap /\ pv \in PtrMap /\ prio \in [Sockets -> 0..2]
  /\ SocketLists(nx, pv, head, low, dead, prio, group, In, C)
  /\ s \in Sockets /\ s \notin In /\ s \notin C /\ group[s] \in Groups
  /\ nx2 = [nx EXCEPT ![s] = low]
  /\ pv2 = Put([pv EXCEPT ![s] = Null], low, s)
  /\ prio2 = [prio EXCEPT ![s] = 1]

\* The end of Park: a socket to the head of the low-priority queue.
LEMMA ListsQueued ==
  ASSUME NEW nx, NEW pv, NEW head, NEW low, NEW dead, NEW prio, NEW group, NEW In, NEW C,
         NEW s, NEW nx2, NEW pv2, NEW prio2,
         QueueWrites(nx, pv, head, low, dead, prio, group, In, C, s, nx2, pv2, prio2)
  PROVE  /\ SocketLists(nx2, pv2, head, s, dead, prio2, group, In \cup {s}, C)
         /\ nx2 \in PtrMap /\ pv2 \in PtrMap /\ prio2 \in [Sockets -> 0..2]
         /\ Same(Sockets \ (In \cup {s}), pv2, pv)
<1> /\ nx \in PtrMap /\ pv \in PtrMap /\ prio \in [Sockets -> 0..2]
    /\ SocketLists(nx, pv, head, low, dead, prio, group, In, C)
    /\ s \in Sockets /\ s \notin In /\ s \notin C /\ group[s] \in Groups
    /\ nx2 = [nx EXCEPT ![s] = low]
    /\ pv2 = Put([pv EXCEPT ![s] = Null], low, s)
    /\ prio2 = [prio EXCEPT ![s] = 1]
  BY DEF QueueWrites
<1>1. PICK hd, hd2, W, W2 : /\ hd = Heads(head, low) /\ hd2 = Heads(head, s)
                            /\ W = Places(prio, group) /\ W2 = Places(prio2, group)
  OBVIOUS
<1>2. Rows(nx, pv, hd, W, dead, In, C) /\ \A x \in In : group[x] \in Groups
  BY <1>1 DEF SocketLists
<1>3. In \subseteq Sockets /\ C \subseteq Sockets /\ Null \notin Sockets /\ Null \notin Groups
  BY <1>2, Bounds DEF Rows
<1>4. hd[Null] = low /\ hd2[Null] = s /\ \A Q \in GroupPtr \ {Null} : hd2[Q] = hd[Q]
  BY <1>1, Bounds DEF Heads, GroupPtr
<1>5. low # Null => low \in In BY <1>2, <1>4, HeadOfList DEF GroupPtr
<1>6. nx2 \in PtrMap /\ nx2[s] = low /\ \A x \in Sockets \ {s} : nx2[x] = nx[x]
  BY <1>3, <1>5 DEF PtrMap, Ptr
<1>7. PICK pv1 : pv1 = [pv EXCEPT ![s] = Null] OBVIOUS
<1>8. pv1 \in [Sockets -> Ptr] /\ pv1[s] = Null /\ \A x \in Sockets \ {s} : pv1[x] = pv[x]
  BY <1>7 DEF PtrMap, Ptr
<1>9. pv2 \in [Sockets -> Ptr] /\ \A x \in Sockets : pv2[x] = IF x = low THEN s ELSE pv1[x]
  <2>1. pv2 = Put(pv1, low, s) /\ (low # Null => low \in Sockets) /\ s \in Ptr
    BY <1>3, <1>5, <1>7 DEF Ptr
  <2>2. CASE low = Null BY <1>3, <1>8, <2>1, <2>2 DEF Put
  <2>3. CASE low # Null BY <2>1, <2>3, <1>8 DEF Put
  <2> QED BY <2>2, <2>3
<1>10. W2[s] = Null /\ \A x \in In : W2[x] = W[x]
  BY <1>1, <1>3 DEF Places
<1>11. Inserts(GroupPtr, In, Null, s, nx, pv, hd, W, nx2, pv2, hd2, W2)
  <2>1. nx2[s] = hd[Null] /\ pv2[s] = Null
    BY <1>3, <1>4, <1>5, <1>6, <1>8, <1>9
  <2>2. \A x \in In : nx2[x] = nx[x] /\ pv2[x] = IF x = hd[Null] THEN s ELSE pv[x]
    <3> SUFFICES ASSUME NEW x \in In PROVE nx2[x] = nx[x] /\ pv2[x] = IF x = hd[Null] THEN s ELSE pv[x]
      OBVIOUS
    <3>1. x \in Sockets /\ x # s BY <1>3
    <3>2. nx2[x] = nx[x] /\ pv1[x] = pv[x] /\ pv2[x] = IF x = low THEN s ELSE pv1[x]
      BY <1>6, <1>8, <1>9, <3>1
    <3> QED BY <1>4, <3>2
  <2> QED BY <1>4, <1>10, <2>1, <2>2 DEF Inserts
<1>12. Same(C, nx2, nx) BY <1>3, <1>6 DEF Same
<1>13. Rows(nx2, pv2, hd2, W2, dead, In \cup {s}, C)
  BY <1>2, <1>11, <1>12, RowsInserted DEF GroupPtr
<1>15. \A x \in Sockets : x \notin In /\ x # s => pv2[x] = pv[x]
  BY <1>3, <1>5, <1>8, <1>9
<1>16. prio2 \in [Sockets -> 0..2] OBVIOUS
<1>17. \A x \in In \cup {s} : group[x] \in Groups BY <1>2
<1>18. Same(Sockets \ (In \cup {s}), pv2, pv) BY <1>15 DEF Same
<1> QED
  BY <1>1, <1>6, <1>9, <1>13, <1>16, <1>17, <1>18 DEF SocketLists, PtrMap

UnlinkWrites(nx, pv, head, low, dead, prio, group, In, C, s, g, p, n, nx2, pv2, head2) ==
  /\ nx \in PtrMap /\ pv \in PtrMap /\ head \in [Groups -> Ptr]
  /\ SocketLists(nx, pv, head, low, dead, prio, group, In, C)
  /\ s \in In /\ prio[s] # 1 /\ g = group[s] /\ p = pv[s] /\ n = nx[s]
  /\ nx2 = IF p = n THEN nx ELSE Put(nx, p, n)
  /\ pv2 = IF p = n THEN pv ELSE Put(pv, n, p)
  /\ head2 = [head EXCEPT ![g] = IF p = n THEN Null ELSE IF p = Null THEN n ELSE @]

\* us_internal_socket_group_unlink_socket.
LEMMA ListsUnlinked ==
  ASSUME NEW nx, NEW pv, NEW head, NEW low, NEW dead, NEW prio, NEW group, NEW In, NEW C,
         NEW s, NEW g, NEW p, NEW n, NEW nx2, NEW pv2, NEW head2,
         UnlinkWrites(nx, pv, head, low, dead, prio, group, In, C, s, g, p, n, nx2, pv2, head2)
  PROVE  /\ SocketLists(nx2, pv2, head2, low, dead, prio, group, In \ {s}, C)
         /\ nx2 \in PtrMap /\ pv2 \in PtrMap /\ head2 \in [Groups -> Ptr]
         /\ Same(Sockets \ (In \ {s}), pv2, pv) /\ Same(Sockets \ (In \ {s}), nx2, nx)
<1> /\ nx \in PtrMap /\ pv \in PtrMap /\ head \in [Groups -> Ptr]
    /\ SocketLists(nx, pv, head, low, dead, prio, group, In, C)
    /\ s \in In /\ prio[s] # 1 /\ g = group[s] /\ p = pv[s] /\ n = nx[s]
    /\ nx2 = IF p = n THEN nx ELSE Put(nx, p, n)
    /\ pv2 = IF p = n THEN pv ELSE Put(pv, n, p)
    /\ head2 = [head EXCEPT ![g] = IF p = n THEN Null ELSE IF p = Null THEN n ELSE @]
  BY DEF UnlinkWrites
<1>1. PICK hd, hd2, W : hd = Heads(head, low) /\ hd2 = Heads(head2, low) /\ W = Places(prio, group)
  OBVIOUS
<1>2. Rows(nx, pv, hd, W, dead, In, C) /\ \A x \in In : group[x] \in Groups
  BY <1>1 DEF SocketLists
<1>3. In \subseteq Sockets /\ C \subseteq Sockets /\ Null \notin Sockets /\ Null \notin Groups /\ In \cap C = {}
  BY <1>2, Bounds DEF Rows
<1>4. /\ p # Null => p \in In /\ p # s
      /\ n # Null => n \in In /\ n # s
      /\ p = Null <=> hd[W[s]] = s
      /\ p = n => p = Null
      /\ s \in Sockets /\ s \notin C
  BY <1>2, Neighbours
<1>5. g \in Groups /\ W[s] = g BY <1>1, <1>2, <1>4 DEF Places
<1>6. nx2 \in [Sockets -> Ptr] /\ \A x \in Sockets : nx2[x] = IF x = p THEN n ELSE nx[x]
  <2>1. nx \in [Sockets -> Ptr] /\ n \in Ptr
    BY <1>3, <1>4 DEF PtrMap, Ptr
  <2>2. CASE p = Null BY <1>3, <2>1, <2>2 DEF Put
  <2>3. CASE p # Null BY <1>3, <1>4, <2>3, <2>1 DEF Put
  <2> QED BY <2>2, <2>3
<1>7. pv2 \in [Sockets -> Ptr] /\ \A x \in Sockets : pv2[x] = IF x = n THEN p ELSE pv[x]
  <2>1. pv \in [Sockets -> Ptr] /\ p \in Ptr
    BY <1>3, <1>4 DEF PtrMap, Ptr
  <2>2. CASE n = Null BY <1>3, <2>1, <2>2 DEF Put
  <2>3. CASE n # Null BY <1>3, <1>4, <2>3, <2>1 DEF Put
  <2> QED BY <2>2, <2>3
<1>8. head2 \in [Groups -> Ptr] /\ \A Q \in Groups : head2[Q] = IF Q = g /\ p = Null THEN n ELSE head[Q]
  <2>1. n \in Ptr /\ Null \in Ptr BY <1>3, <1>4 DEF Ptr
  <2>2. head2 \in [Groups -> Ptr] /\ \A Q \in Groups \ {g} : head2[Q] = head[Q]
    BY <2>1
  <2>3. head2[g] = IF p = n THEN Null ELSE IF p = Null THEN n ELSE head[g]
    BY <1>5
  <2> QED BY <1>4, <2>2, <2>3
<1>9. \A Q \in GroupPtr : hd2[Q] = IF Q = g /\ p = Null THEN n ELSE hd[Q]
  BY <1>1, Bounds, <1>3, <1>5, <1>8 DEF Heads, GroupPtr
<1>10. Removes(GroupPtr, In, s, nx, pv, hd, W, nx2, pv2, hd2, W)
  BY <1>3, <1>5, <1>6, <1>7, <1>9 DEF Removes
<1>11. Same(C, nx2, nx) BY <1>3, <1>4, <1>6 DEF Same
<1>12. Rows(nx2, pv2, hd2, W, dead, In \ {s}, C)
  BY <1>2, <1>10, <1>11, RowsRemoved
<1>13. \A x \in Sockets : x \notin In \/ x = s => pv2[x] = pv[x] /\ nx2[x] = nx[x]
  BY <1>3, <1>4, <1>6, <1>7
<1>14. Same(Sockets \ (In \ {s}), pv2, pv) /\ Same(Sockets \ (In \ {s}), nx2, nx)
  BY <1>13 DEF Same
<1> QED
  BY <1>1, <1>2, <1>6, <1>7, <1>8, <1>12, <1>14 DEF SocketLists, PtrMap

\* The links of a socket are null.
Cleared(nx, pv, s) == nx[s] = Null /\ pv[s] = Null

UnqueueWrites(nx, pv, head, low, dead, prio, group, In, C, s, p, n, v, nx2, pv2, low2, prio2) ==
  /\ nx \in PtrMap /\ pv \in PtrMap /\ prio \in [Sockets -> 0..2]
  /\ SocketLists(nx, pv, head, low, dead, prio, group, In, C)
  /\ s \in In /\ prio[s] = 1 /\ p = pv[s] /\ n = nx[s] /\ v \in 0..2
  /\ low2 = IF p = Null THEN n ELSE low
  /\ nx2 = [Put(nx, p, n) EXCEPT ![s] = Null]
  /\ pv2 = [Put(pv, n, p) EXCEPT ![s] = Null]
  /\ prio2 = [prio EXCEPT ![s] = v]

\* A socket off the low-priority queue.
LEMMA ListsUnqueued ==
  ASSUME NEW nx, NEW pv, NEW head, NEW low, NEW dead, NEW prio, NEW group, NEW In, NEW C,
         NEW s, NEW p, NEW n, NEW v, NEW nx2, NEW pv2, NEW low2, NEW prio2,
         UnqueueWrites(nx, pv, head, low, dead, prio, group, In, C, s, p, n, v,
                       nx2, pv2, low2, prio2)
  PROVE  /\ SocketLists(nx2, pv2, head, low2, dead, prio2, group, In \ {s}, C)
         /\ nx2 \in PtrMap /\ pv2 \in PtrMap /\ low2 \in Ptr /\ prio2 \in [Sockets -> 0..2]
         /\ Same(Sockets \ In, pv2, pv) /\ Same(Sockets \ In, nx2, nx)
         /\ Cleared(nx2, pv2, s)
<1> /\ nx \in PtrMap /\ pv \in PtrMap /\ prio \in [Sockets -> 0..2]
    /\ SocketLists(nx, pv, head, low, dead, prio, group, In, C)
    /\ s \in In /\ prio[s] = 1 /\ p = pv[s] /\ n = nx[s] /\ v \in 0..2
    /\ low2 = IF p = Null THEN n ELSE low
    /\ nx2 = [Put(nx, p, n) EXCEPT ![s] = Null]
    /\ pv2 = [Put(pv, n, p) EXCEPT ![s] = Null]
    /\ prio2 = [prio EXCEPT ![s] = v]
  BY DEF UnqueueWrites
<1>1. PICK hd, hd2, W, W2 : /\ hd = Heads(head, low) /\ hd2 = Heads(head, low2)
                            /\ W = Places(prio, group) /\ W2 = Places(prio2, group)
  OBVIOUS
<1>2. Rows(nx, pv, hd, W, dead, In, C) /\ \A x \in In : group[x] \in Groups
  BY <1>1 DEF SocketLists
<1>3. In \subseteq Sockets /\ C \subseteq Sockets /\ Null \notin Sockets /\ Null \notin Groups /\ In \cap C = {}
  BY <1>2, Bounds DEF Rows
<1>4. /\ p # Null => p \in In /\ p # s
      /\ n # Null => n \in In /\ n # s
      /\ p = Null <=> hd[W[s]] = s
      /\ p = n => p = Null
      /\ s \in Sockets /\ s \notin C
      /\ hd[W[s]] # Null
  BY <1>2, Neighbours
<1>s. s \in Sockets BY <1>4
<1>5. W[s] = Null /\ hd[Null] = low /\ low # Null
  BY <1>1, <1>4, Bounds DEF Places, Heads, GroupPtr
<1>6. /\ nx2 \in [Sockets -> Ptr] /\ nx2[s] = Null
      /\ \A x \in Sockets \ {s} : nx2[x] = IF x = p THEN n ELSE nx[x]
  <2>1. nx \in [Sockets -> Ptr] /\ n \in Ptr /\ Null \in Ptr
    BY <1>3, <1>4 DEF PtrMap, Ptr
  <2>2. CASE p = Null BY <2>2, <1>s, <2>1, <1>3 DEF Put
  <2>3. CASE p # Null
    <3>1. PICK m : m = [nx EXCEPT ![p] = n] OBVIOUS
    <3>2. nx2 = [m EXCEPT ![s] = Null] /\ p \in Sockets
      BY <1>3, <1>4, <2>3, <3>1 DEF Put
    <3>3. m \in [Sockets -> Ptr] /\ \A x \in Sockets : m[x] = IF x = p THEN n ELSE nx[x]
      BY <2>1, <3>1, <3>2
    <3>4. nx2 \in [Sockets -> Ptr] /\ nx2[s] = Null /\ \A x \in Sockets \ {s} : nx2[x] = m[x]
      <4>1. m \in [Sockets -> Ptr] BY <3>3
      <4> QED BY ONLY <1>s, <2>1, <3>2, <4>1
    <3> QED BY <3>3, <3>4
  <2> QED BY <2>2, <2>3
<1>7. /\ pv2 \in [Sockets -> Ptr] /\ pv2[s] = Null
      /\ \A x \in Sockets \ {s} : pv2[x] = IF x = n THEN p ELSE pv[x]
  <2>1. pv \in [Sockets -> Ptr] /\ p \in Ptr /\ Null \in Ptr
    BY <1>3, <1>4 DEF PtrMap, Ptr
  <2>2. CASE n = Null BY <2>2, <1>s, <2>1, <1>3 DEF Put
  <2>3. CASE n # Null
    <3>1. PICK m : m = [pv EXCEPT ![n] = p] OBVIOUS
    <3>2. pv2 = [m EXCEPT ![s] = Null] /\ n \in Sockets
      BY <1>3, <1>4, <2>3, <3>1 DEF Put
    <3>3. m \in [Sockets -> Ptr] /\ \A x \in Sockets : m[x] = IF x = n THEN p ELSE pv[x]
      BY <2>1, <3>1, <3>2
    <3>4. pv2 \in [Sockets -> Ptr] /\ pv2[s] = Null /\ \A x \in Sockets \ {s} : pv2[x] = m[x]
      <4>1. m \in [Sockets -> Ptr] BY <3>3
      <4> QED BY ONLY <1>s, <2>1, <3>2, <4>1
    <3> QED BY <3>3, <3>4
  <2> QED BY <2>2, <2>3
<1>8. \A Q \in GroupPtr : hd2[Q] = IF Q = Null /\ p = Null THEN n ELSE hd[Q]
  BY <1>1, Bounds, <1>3 DEF Heads, GroupPtr
<1>9. \A x \in In \ {s} : W2[x] = W[x] BY <1>1, <1>3 DEF Places
<1>10. Removes(GroupPtr, In, s, nx, pv, hd, W, nx2, pv2, hd2, W2)
  BY <1>3, <1>5, <1>6, <1>7, <1>8, <1>9 DEF Removes
<1>11. Same(C, nx2, nx) BY <1>3, <1>4, <1>6 DEF Same
<1>12. Rows(nx2, pv2, hd2, W2, dead, In \ {s}, C)
  BY <1>2, <1>10, <1>11, RowsRemoved
<1>13. \A x \in Sockets : x \notin In => pv2[x] = pv[x] /\ nx2[x] = nx[x]
  <2> SUFFICES ASSUME NEW x \in Sockets, x \notin In PROVE pv2[x] = pv[x] /\ nx2[x] = nx[x]
    OBVIOUS
  <2>1. x # p /\ x # n /\ x # s BY <1>3, <1>4
  <2> QED BY <1>6, <1>7, <2>1
<1>14. low2 \in Ptr /\ prio2 \in [Sockets -> 0..2]
  BY <1>2, <1>3, <1>5, HeadOfList, <1>4 DEF GroupPtr, Ptr
<1>15. SocketLists(nx2, pv2, head, low2, dead, prio2, group, In \ {s}, C)
  BY <1>1, <1>2, <1>12 DEF SocketLists
<1>16. Same(Sockets \ In, pv2, pv) /\ Same(Sockets \ In, nx2, nx)
  BY <1>13 DEF Same
<1>17. Cleared(nx2, pv2, s) BY <1>6, <1>7 DEF Cleared
<1> QED BY <1>6, <1>7, <1>14, <1>15, <1>16, <1>17 DEF PtrMap

CloseWrites(nx, pv, head, low, dead, prio, group, In, C, s, nx2) ==
  /\ nx \in PtrMap /\ dead \in Ptr /\ nx2 = [nx EXCEPT ![s] = dead]
  /\ SocketLists(nx, pv, head, low, dead, prio, group, In, C)
  /\ s \in Sockets /\ s \notin In /\ s \notin C

\* A closed socket to the head of the closed list.
LEMMA ListsClosed ==
  ASSUME NEW nx, NEW pv, NEW head, NEW low, NEW dead, NEW prio, NEW group, NEW In, NEW C,
         NEW s, NEW nx2, CloseWrites(nx, pv, head, low, dead, prio, group, In, C, s, nx2)
  PROVE  SocketLists(nx2, pv, head, low, s, prio, group, In, C \cup {s}) /\ nx2 \in PtrMap
<1>0. s \in Sockets /\ s \notin In /\ s \notin C BY DEF CloseWrites
<1>1. PICK hd, W : hd = Heads(head, low) /\ W = Places(prio, group)
  OBVIOUS
<1>2. Rows(nx, pv, hd, W, dead, In, C)
  BY <1>1 DEF SocketLists, CloseWrites
<1>3. nx2 \in PtrMap /\ nx2[s] = dead /\ \A x \in Sockets \ {s} : nx2[x] = nx[x]
  BY DEF PtrMap, CloseWrites
<1>4. In \subseteq Sockets /\ C \subseteq Sockets BY <1>2 DEF Rows
<1>5. /\ Same(In, nx2, nx) /\ Same(C, nx2, nx) /\ Same(GroupPtr, hd, hd)
      /\ Same(In, pv, pv) /\ Same(In, W, W) /\ s \in Sockets \ In
  BY <1>0, <1>3, <1>4 DEF Same
<1>6. Rows(nx2, pv, hd, W, s, In, C \cup {s})
  BY <1>0, <1>2, <1>3, <1>5, RowsClosed
<1> QED BY <1>1, <1>3, <1>6 DEF SocketLists, CloseWrites

\* What is written to sockets on no list.
LEMMA ListsSame ==
  ASSUME NEW nx, NEW pv, NEW head, NEW low, NEW dead, NEW prio, NEW group, NEW In, NEW C,
         SocketLists(nx, pv, head, low, dead, prio, group, In, C),
         NEW nx2, NEW pv2, NEW prio2, NEW group2,
         Same(In, nx2, nx), Same(C, nx2, nx), Same(In, pv2, pv),
         Same(In, prio2, prio), Same(In, group2, group)
  PROVE  SocketLists(nx2, pv2, head, low, dead, prio2, group2, In, C)
<1>1. PICK hd, W, W2 : /\ hd = Heads(head, low)
                       /\ W = Places(prio, group) /\ W2 = Places(prio2, group2)
  OBVIOUS
<1>2. Rows(nx, pv, hd, W, dead, In, C) /\ \A x \in In : group[x] \in Groups
  BY <1>1 DEF SocketLists
<1>3. In \subseteq Sockets BY <1>2 DEF Rows
<1>4. Same(In, W2, W) /\ Same(GroupPtr, hd, hd)
  BY <1>1, <1>3 DEF Places, Same
<1>5. Rows(nx2, pv2, hd, W2, dead, In, C) BY <1>2, <1>4, RowsSame
<1>6. \A x \in In : group2[x] \in Groups BY <1>2 DEF Same
<1> QED BY <1>1, <1>5, <1>6 DEF SocketLists

Refers(nx, pv, s, n, p) == nx[s] = n /\ pv[s] = p
Replacing(nx, pv, head, low, dead, prio, group, In, C, s, t, p, n,
          low2, nx1, nx2, pv1, pv2, prio2, group2) ==
  /\ nx \in PtrMap /\ pv \in PtrMap /\ dead \in Ptr /\ prio \in [Sockets -> 0..2]
  /\ SocketLists(nx, pv, head, low, dead, prio, group, In, C)
  /\ s \in In /\ prio[s] = 1 /\ p = pv[s] /\ n = nx[s]
  /\ t \in Sockets /\ t \notin In /\ t \notin C
  /\ low2 = (IF p = Null THEN t ELSE low)
  /\ nx1 = [[nx EXCEPT ![t] = n] EXCEPT ![s] = dead] /\ nx2 = Put(nx1, p, t)
  /\ pv1 = [[pv EXCEPT ![t] = p] EXCEPT ![s] = t] /\ pv2 = Put(pv1, n, t)
  /\ prio2 = [prio EXCEPT ![t] = 1]
  /\ group2[t] \in Groups /\ \A x \in In \ {s} : group2[x] = group[x]

\* us_socket_adopt of a parked socket: its new address takes its place in the queue.
LEMMA ListsReplaced ==
  ASSUME NEW nx, NEW pv, NEW head, NEW low, NEW dead, NEW prio, NEW group, NEW In, NEW C,
         NEW s, NEW t, NEW p, NEW n, NEW low2, NEW nx1, NEW nx2, NEW pv1, NEW pv2, NEW prio2,
         NEW group2,
         Replacing(nx, pv, head, low, dead, prio, group, In, C, s, t, p, n,
                   low2, nx1, nx2, pv1, pv2, prio2, group2)
  PROVE  /\ SocketLists(nx2, pv2, head, low2, s, prio2, group2, (In \ {s}) \cup {t}, C \cup {s})
         /\ nx2 \in PtrMap /\ pv2 \in PtrMap /\ low2 \in Ptr /\ prio2 \in [Sockets -> 0..2]
         /\ Same(Sockets \ (In \cup {t}), pv2, pv) /\ Same(Sockets \ (In \cup {t}), nx2, nx)
         /\ Refers(nx2, pv2, s, dead, t)
<1> /\ nx \in PtrMap /\ pv \in PtrMap /\ dead \in Ptr /\ prio \in [Sockets -> 0..2]
    /\ SocketLists(nx, pv, head, low, dead, prio, group, In, C)
    /\ s \in In /\ prio[s] = 1 /\ p = pv[s] /\ n = nx[s]
    /\ t \in Sockets /\ t \notin In /\ t \notin C
    /\ low2 = (IF p = Null THEN t ELSE low)
    /\ nx1 = [[nx EXCEPT ![t] = n] EXCEPT ![s] = dead] /\ nx2 = Put(nx1, p, t)
    /\ pv1 = [[pv EXCEPT ![t] = p] EXCEPT ![s] = t] /\ pv2 = Put(pv1, n, t)
    /\ prio2 = [prio EXCEPT ![t] = 1]
    /\ group2[t] \in Groups /\ \A x \in In \ {s} : group2[x] = group[x]
  BY DEF Replacing
<1>1. PICK hd, hd2, W, W2 : /\ hd = Heads(head, low) /\ hd2 = Heads(head, low2)
                            /\ W = Places(prio, group) /\ W2 = Places(prio2, group2)
  OBVIOUS
<1>2. Rows(nx, pv, hd, W, dead, In, C) /\ \A x \in In : group[x] \in Groups
  BY <1>1 DEF SocketLists
<1>3. In \subseteq Sockets /\ C \subseteq Sockets /\ Null \notin Sockets /\ Null \notin Groups /\ In \cap C = {}
  BY <1>2, Bounds DEF Rows
<1>4. /\ p # Null => p \in In /\ p # s
      /\ n # Null => n \in In /\ n # s
      /\ p = Null <=> hd[W[s]] = s
      /\ s \in Sockets /\ s \notin C
      /\ hd[W[s]] # Null
  BY <1>2, Neighbours
<1>s. s \in Sockets /\ s # t /\ p # t /\ n # t /\ p # s /\ n # s
  BY <1>3, <1>4
<1>5. W[s] = Null /\ hd[Null] = low /\ low # Null
  BY <1>1, <1>4, Bounds DEF Places, Heads, GroupPtr
<1>p. p \in Ptr /\ n \in Ptr /\ t \in Ptr BY <1>3, <1>4 DEF Ptr
<1>6. /\ nx2 \in [Sockets -> Ptr] /\ nx2[s] = dead /\ nx2[t] = n
      /\ \A x \in Sockets : x # s /\ x # t => nx2[x] = IF x = p THEN t ELSE nx[x]
  <2>1. PICK m : m = [nx EXCEPT ![t] = n] OBVIOUS
  <2>2. m \in [Sockets -> Ptr] /\ m[t] = n /\ \A x \in Sockets : x # t => m[x] = nx[x]
    <3>1. nx \in [Sockets -> Ptr] BY DEF PtrMap
    <3> QED BY ONLY <1>p, <2>1, <3>1, t \in Sockets
  <2>3. nx1 \in [Sockets -> Ptr] /\ nx1[s] = dead /\ \A x \in Sockets : x # s => nx1[x] = m[x]
    <3>1. nx1 = [m EXCEPT ![s] = dead] /\ m \in [Sockets -> Ptr]
      BY <2>1, <2>2
    <3> QED BY ONLY <1>s, <3>1, dead \in Ptr
  <2>4. CASE p = Null
    <3>1. nx2 = nx1 BY <2>4 DEF Put
    <3> QED BY ONLY <1>3, <1>s, <2>2, <2>3, <2>4, <3>1, t \in Sockets
  <2>5. CASE p # Null
    <3>1. nx2 = [nx1 EXCEPT ![p] = t] /\ p \in Sockets /\ nx1 \in [Sockets -> Ptr]
      BY <1>3, <1>4, <2>3, <2>5 DEF Put
    <3>2. nx2 \in [Sockets -> Ptr] /\ \A x \in Sockets : nx2[x] = IF x = p THEN t ELSE nx1[x]
      BY ONLY <1>p, <3>1
    <3> QED BY ONLY <1>s, <2>2, <2>3, <3>2, t \in Sockets
  <2> QED BY <2>4, <2>5
<1>7. /\ pv2 \in [Sockets -> Ptr] /\ pv2[s] = t /\ pv2[t] = p
      /\ \A x \in Sockets : x # s /\ x # t => pv2[x] = IF x = n THEN t ELSE pv[x]
  <2>1. PICK m : m = [pv EXCEPT ![t] = p] OBVIOUS
  <2>2. m \in [Sockets -> Ptr] /\ m[t] = p /\ \A x \in Sockets : x # t => m[x] = pv[x]
    <3>1. pv \in [Sockets -> Ptr] BY DEF PtrMap
    <3> QED BY ONLY <1>p, <2>1, <3>1, t \in Sockets
  <2>3. pv1 \in [Sockets -> Ptr] /\ pv1[s] = t /\ \A x \in Sockets : x # s => pv1[x] = m[x]
    <3>1. pv1 = [m EXCEPT ![s] = t] /\ m \in [Sockets -> Ptr]
      BY <2>1, <2>2
    <3> QED BY ONLY <1>s, <1>p, <3>1
  <2>4. CASE n = Null
    <3>1. pv2 = pv1 BY <2>4 DEF Put
    <3> QED BY ONLY <1>3, <1>s, <2>2, <2>3, <2>4, <3>1, t \in Sockets
  <2>5. CASE n # Null
    <3>1. pv2 = [pv1 EXCEPT ![n] = t] /\ n \in Sockets /\ pv1 \in [Sockets -> Ptr]
      BY <1>3, <1>4, <2>3, <2>5 DEF Put
    <3>2. pv2 \in [Sockets -> Ptr] /\ \A x \in Sockets : pv2[x] = IF x = n THEN t ELSE pv1[x]
      BY ONLY <1>p, <3>1
    <3> QED BY ONLY <1>s, <2>2, <2>3, <3>2, t \in Sockets
  <2> QED BY <2>4, <2>5
<1>8. \A Q \in GroupPtr : hd2[Q] = IF Q = Null /\ p = Null THEN t ELSE hd[Q]
  BY <1>1, Bounds, <1>3 DEF Heads, GroupPtr
<1>9. W2[t] = Null /\ \A x \in In \ {s} : W2[x] = W[x]
  BY <1>1, <1>3 DEF Places
<1>10. Replaces(GroupPtr, In, s, t, nx, pv, hd, W, nx2, pv2, hd2, W2)
  <2>1. \A x \in In \ {s} : x \in Sockets /\ x # s /\ x # t BY <1>3
  <2> QED
    BY ONLY <1>5, <1>6, <1>7, <1>8, <1>9, <2>1, p = pv[s], n = nx[s] DEF Replaces
<1>11. Same(C, nx2, nx)
  <2>1. \A x \in C : x \in Sockets /\ x # s /\ x # t /\ x # p
    BY <1>3, <1>4
  <2> QED BY <1>6, <2>1 DEF Same
<1>12. Rows(nx2, pv2, hd2, W2, s, (In \ {s}) \cup {t}, C \cup {s})
  <2>1. t \in Sockets \ In OBVIOUS
  <2> QED
    BY ONLY <1>2, <1>6, <1>10, <1>11, <2>1, s \in In, t \notin C, RowsReplaced
<1>13. \A x \in Sockets : x \notin In /\ x # t => pv2[x] = pv[x] /\ nx2[x] = nx[x]
  <2> SUFFICES ASSUME NEW x \in Sockets, x \notin In, x # t PROVE pv2[x] = pv[x] /\ nx2[x] = nx[x]
    OBVIOUS
  <2>1. x # p /\ x # n /\ x # s BY <1>3, <1>4
  <2> QED BY <1>6, <1>7, <2>1
<1>14. low2 \in Ptr /\ prio2 \in [Sockets -> 0..2]
  BY <1>2, <1>3, <1>5, HeadOfList, <1>p DEF GroupPtr, Ptr
<1>15. \A x \in (In \ {s}) \cup {t} : group2[x] \in Groups BY <1>2
<1>16. SocketLists(nx2, pv2, head, low2, s, prio2, group2, (In \ {s}) \cup {t}, C \cup {s})
  BY <1>1, <1>12, <1>15 DEF SocketLists
<1>17. Same(Sockets \ (In \cup {t}), pv2, pv) /\ Same(Sockets \ (In \cup {t}), nx2, nx)
  BY <1>13 DEF Same
<1> QED BY <1>6, <1>7, <1>14, <1>16, <1>17 DEF PtrMap, Refers

\* ... and when it keeps its address, nothing is written.
LEMMA ListsKept ==
  ASSUME NEW nx \in PtrMap, NEW pv \in PtrMap, NEW head, NEW low, NEW dead,
         NEW prio, NEW group, NEW In, NEW C,
         SocketLists(nx, pv, head, low, dead, prio, group, In, C),
         NEW s \in In, prio[s] = 1
  PROVE  /\ (IF pv[s] = Null THEN s ELSE low) = low
         /\ Put(nx, pv[s], s) = nx /\ Put(pv, nx[s], s) = pv
<1>1. PICK hd, W, p, n : /\ hd = Heads(head, low) /\ W = Places(prio, group)
                         /\ p = pv[s] /\ n = nx[s]
  OBVIOUS
<1>2. Rows(nx, pv, hd, W, dead, In, C) /\ In \subseteq Sockets
  BY <1>1 DEF SocketLists, Rows
<1>3. /\ p # Null => p \in In /\ nx[p] = s
      /\ n # Null => n \in In /\ pv[n] = s
      /\ p = Null <=> hd[W[s]] = s
      /\ s \in Sockets
  BY <1>1, <1>2, Neighbours
<1>4. W[s] = Null /\ hd[Null] = low
  BY <1>1, <1>3, Bounds DEF Places, Heads, GroupPtr
<1>5. Put(nx, p, s) = nx BY <1>2, <1>3 DEF Put, PtrMap
<1>6. Put(pv, n, s) = pv BY <1>2, <1>3 DEF Put, PtrMap
<1> QED BY <1>1, <1>3, <1>4, <1>5, <1>6

\* us_internal_free_closed_sockets: what is on the closed list, and off every list.
LEMMA ListsFreed ==
  ASSUME NEW nx \in PtrMap, NEW pv, NEW head, NEW low, NEW dead,
         NEW prio, NEW group, NEW In, NEW C,
         SocketLists(nx, pv, head, low, dead, prio, group, In, C),
         NEW nx2, NEW pv2, NEW prio2, NEW group2,
         Same(In, nx2, nx), Same(In, pv2, pv), Same(In, prio2, prio), Same(In, group2, group)
  PROVE  /\ Lists(nx, dead, C)
         /\ SocketLists(nx2, pv2, head, low, Null, prio2, group2, In, {})
<1>1. PICK hd, W : hd = Heads(head, low) /\ W = Places(prio, group)
  OBVIOUS
<1>2. Rows(nx, pv, hd, W, dead, In, C) /\ DOMAIN nx = Sockets /\ \A x \in In : group[x] \in Groups
  BY <1>1 DEF SocketLists, PtrMap
<1>3. PICK r, hi : /\ Listed(Sockets, GroupPtr, nx, pv, hd, In, W, r, hi)
                   /\ Single(nx, dead, C, r)
  BY <1>2 DEF Rows
<1>4. /\ r \in [Sockets -> Nat] /\ hi \in Nat /\ \A x \in Sockets : r[x] < hi
      /\ Null \notin Sockets /\ C \in SUBSET Sockets /\ In \subseteq Sockets
  BY <1>2, <1>3 DEF Listed, Rows
<1>5. Lists(nx, dead, C) BY <1>2, <1>3, <1>4, SingleLists
<1>6. SocketLists(nx, pv, head, low, Null, prio, group, In, {})
  BY <1>3, <1>4, <1>1, <1>2 DEF Single, Rows, SocketLists
<1>7. Same({}, nx2, nx) BY DEF Same
<1> QED BY <1>5, <1>6, <1>7, ListsSame

-----------------------------------------------------------------------------
(* The counters.                                                           *)

LEMMA CardPlus ==
  ASSUME NEW S, IsFiniteSet(S), NEW x, x \notin S, NEW T, T = S \cup {x}
  PROVE  Cardinality(T) = Cardinality(S) + 1 /\ Cardinality(S) \in Nat
  BY FS_AddElement, FS_CardinalityType

LEMMA CardMinus ==
  ASSUME NEW S, IsFiniteSet(S), NEW x \in S, NEW T, T = S \ {x}
  PROVE  Cardinality(T) = Cardinality(S) - 1 /\ Cardinality(S) \in Nat
  BY FS_RemoveElement, FS_CardinalityType

LEMMA FiniteSockets ==
  ASSUME NEW S, S \subseteq Sockets
  PROVE  IsFiniteSet(S)
  BY Bounds, FS_Subset

\* A socket that no group counts is put on the list of a group.
LEMMA CountsLinked ==
  ASSUME NEW count, NEW sweep, NEW prio, NEW group, NEW In, NEW Pk,
         Counts(count, sweep, prio, group, In, Pk), In \subseteq Sockets,
         NEW s, s \notin In, s \notin Pk, prio[s] # 1,
         NEW group2, \A x \in Pk : group2[x] = group[x]
  PROVE  Counts(count, sweep + 1, prio, group2, In \cup {s}, Pk)
<1>1. ASSUME NEW g \in Groups
      PROVE  count[g] = Cardinality({x \in Pk : group2[x] = g})
  BY DEF Counts
<1>2. PICK S, T : S = {x \in In : prio[x] # 1} /\ T = {x \in In \cup {s} : prio[x] # 1}
  OBVIOUS
<1>3. IsFiniteSet(S) /\ s \notin S /\ T = S \cup {s}
  BY <1>2, FiniteSockets
<1>4. Cardinality(T) = Cardinality(S) + 1 BY <1>3, CardPlus
<1> QED BY <1>1, <1>2, <1>4 DEF Counts

\* ... and taken off it.
LEMMA CountsUnlinked ==
  ASSUME NEW count, NEW sweep, NEW prio, NEW group, NEW In, NEW Pk,
         Counts(count, sweep, prio, group, In, Pk), In \subseteq Sockets,
         NEW s \in In, prio[s] # 1
  PROVE  Counts(count, sweep - 1, prio, group, In \ {s}, Pk)
<1>1. PICK S, T : S = {x \in In : prio[x] # 1} /\ T = {x \in In \ {s} : prio[x] # 1}
  OBVIOUS
<1>2. IsFiniteSet(S) /\ s \in S /\ T = S \ {s} BY <1>1, FiniteSockets
<1>3. Cardinality(T) = Cardinality(S) - 1 BY <1>2, CardMinus
<1> QED BY <1>1, <1>3 DEF Counts

\* A group counts one socket more.
LEMMA CountsMore ==
  ASSUME NEW count \in [Groups -> Int], NEW sweep, NEW prio, NEW group, NEW In, NEW Pk,
         Counts(count, sweep, prio, group, In, Pk),
         NEW s \in Sockets, s \notin Pk, NEW g \in Groups, g = group[s],
         NEW count2, count2 = [count EXCEPT ![g] = @ + 1]
  PROVE  /\ Counts(count2, sweep, prio, group, In, Pk \cup {s})
         /\ count2 \in [Groups -> Int]
<1>1. ASSUME NEW f \in Groups
      PROVE  count2[f] = Cardinality({x \in Pk \cup {s} : group[x] = f})
  <2>1. PICK S, T : S = {x \in Pk : group[x] = f} /\ T = {x \in Pk \cup {s} : group[x] = f}
    OBVIOUS
  <2>2. count[f] = Cardinality(S) /\ S \subseteq Sockets
    BY <2>1 DEF Counts
  <2>3. CASE f = g BY <2>1, <2>2, <2>3, FiniteSockets, CardPlus
  <2>4. CASE f # g BY <2>1, <2>4, <2>2
  <2> QED BY <2>3, <2>4
<1>2. count[g] \in Nat
  <2>1. PICK S : S = {x \in Pk : group[x] = g} OBVIOUS
  <2>2. count[g] = Cardinality(S) /\ IsFiniteSet(S)
    BY <2>1, FiniteSockets DEF Counts
  <2> QED BY <2>2, FS_CardinalityType
<1> QED BY <1>1, <1>2 DEF Counts

NotZero(f, g) == f[g] # 0
CountsDown(count, sweep, prio, group, In, Pk, s, g, count2) ==
  /\ count \in [Groups -> Int] /\ Counts(count, sweep, prio, group, In, Pk)
  /\ s \in Pk /\ g \in Groups /\ g = group[s]
  /\ count2 = [count EXCEPT ![g] = @ - 1]

\* A group counts one socket less.
LEMMA CountsLess ==
  ASSUME NEW count, NEW sweep, NEW prio, NEW group, NEW In, NEW Pk, NEW s, NEW g, NEW count2,
         CountsDown(count, sweep, prio, group, In, Pk, s, g, count2)
  PROVE  /\ Counts(count2, sweep, prio, group, In, Pk \ {s})
         /\ count2 \in [Groups -> Int] /\ NotZero(count, g)
<1> /\ count \in [Groups -> Int] /\ Counts(count, sweep, prio, group, In, Pk)
    /\ s \in Pk /\ g \in Groups /\ g = group[s]
    /\ count2 = [count EXCEPT ![g] = @ - 1]
  BY DEF CountsDown
<1>1. ASSUME NEW f \in Groups
      PROVE  /\ count2[f] = Cardinality({x \in Pk \ {s} : group[x] = f})
             /\ f = g => count[f] # 0
  <2>1. PICK S, T : S = {x \in Pk : group[x] = f} /\ T = {x \in Pk \ {s} : group[x] = f}
    OBVIOUS
  <2>2. count[f] = Cardinality(S) /\ S \subseteq Sockets
    BY <2>1 DEF Counts
  <2>3. CASE f = g
    <3>1. IsFiniteSet(S) /\ s \in S /\ T = S \ {s}
      BY <2>1, <2>2, <2>3, FiniteSockets
    <3>2. Cardinality(T) = Cardinality(S) - 1 BY <3>1, CardMinus
    <3>3. Cardinality(T) \in Nat
      BY <2>2, <3>1, FiniteSockets, FS_CardinalityType
    <3> QED BY <2>1, <2>2, <2>3, <3>2, <3>3
  <2>4. CASE f # g BY <2>1, <2>4, <2>2
  <2> QED BY <2>3, <2>4
<1>2. Pk \ {s} \subseteq Sockets /\ sweep = Cardinality({x \in In : prio[x] # 1})
  BY DEF Counts
<1>3. count2 \in [Groups -> Int] OBVIOUS
<1>4. Counts(count2, sweep, prio, group, In, Pk \ {s})
  BY ONLY <1>1, <1>2 DEF Counts
<1>5. NotZero(count, g) BY <1>1 DEF NotZero
<1> QED BY <1>3, <1>4, <1>5

\* What makes no difference to the counters.
LEMMA CountsSame ==
  ASSUME NEW count, NEW sweep, NEW prio, NEW group, NEW In, NEW Pk,
         Counts(count, sweep, prio, group, In, Pk),
         NEW prio2, NEW In2, {x \in In2 : prio2[x] # 1} = {x \in In : prio[x] # 1},
         NEW group2, Same(Pk, group2, group)
  PROVE  Counts(count, sweep, prio2, group2, In2, Pk)
<1>1. ASSUME NEW g \in Groups
      PROVE  count[g] = Cardinality({x \in Pk : group2[x] = g})
  BY DEF Same, Counts
<1> QED BY <1>1 DEF Counts

-----------------------------------------------------------------------------
(* The functions on the lists keep them exact.                             *)

LEMMA ExactParts ==
  ASSUME NEW h, NEW In, NEW C, NEW Pk, NEW E, Exact(h, In, C, Pk, E)
  PROVE  /\ h \in Heaps
         /\ SocketLists(h.next, h.prev, h.head, h.lowHead, h.closedHead, h.prio, h.group, In, C)
         /\ Counts(h.count, h.sweep, h.prio, h.group, In, Pk)
         /\ Cursors(h.iter, h.prio, h.group, In)
         /\ LoopOK(h.gnext, h.gprev, h.loopHead, h.loopIter, h.linked, h.gone)
         /\ Busy(h.linked, h.head, h.listen, h.count, E)
         /\ In \subseteq Sockets /\ C \subseteq Sockets /\ In \cap C = {} /\ Pk \subseteq Sockets
         /\ \A s \in In : h.group[s] \in Groups
         /\ Null \notin Sockets /\ Null \notin Groups
  BY Bounds DEF Exact, SocketLists, Rows, Counts

\* The group of a socket on a list is on the loop.
LEMMA GroupLinked ==
  ASSUME NEW h, NEW In, NEW C, NEW Pk, Exact(h, In, C, Pk, {}), NEW s \in In, h.prio[s] # 1
  PROVE  /\ h.head[h.group[s]] # Null /\ h.linked[h.group[s]] /\ h.group[s] \in Groups
         /\ ~h.gone[h.group[s]]
<1>1. PICK hd, W, g : /\ hd = Heads(h.head, h.lowHead) /\ W = Places(h.prio, h.group)
                      /\ g = h.group[s]
  OBVIOUS
<1>2. Rows(h.next, h.prev, hd, W, h.closedHead, In, C) /\ g \in Groups /\ s \in Sockets
  BY <1>1, ExactParts DEF SocketLists
<1>3. W[s] = g /\ hd[g] = h.head[g]
  BY <1>1, <1>2, Bounds DEF Places, Heads, GroupPtr
<1>4. hd[W[s]] # Null BY <1>2, Neighbours
<1>5. h.linked[g] BY <1>2, <1>3, <1>4 DEF Exact, Busy
<1>6. ~h.gone[g] BY <1>2, <1>5 DEF Exact, LoopOK
<1> QED BY <1>1, <1>2, <1>3, <1>4, <1>5, <1>6

\* After Touched, the group it is about is not excepted any more.
LEMMA ExactTouched ==
  ASSUME NEW h, NEW In, NEW C, NEW Pk, NEW g \in Groups, NEW E, Exact(h, In, C, Pk, E), NEW F, F = E \ {g},
         ~h.gone[g], ~IsEmpty(h, g), NEW k, k = Touched(h, g)
  PROVE  /\ Exact(k, In, C, Pk, F) /\ SameBut(h, k, LoopFields)
         /\ k.loopIter = h.loopIter
<1>1. /\ k \in Heaps /\ SameBut(h, k, LoopFields)
      /\ LoopOK(k.gnext, k.gprev, k.loopHead, k.loopIter, k.linked, k.gone)
      /\ k.linked[g] /\ \A x \in Groups \ {g} : k.linked[x] = h.linked[x]
      /\ k.loopIter = h.loopIter
  BY TouchedOK DEF Exact
<1>2. /\ k.next = h.next /\ k.prev = h.prev /\ k.head = h.head /\ k.lowHead = h.lowHead
      /\ k.closedHead = h.closedHead /\ k.prio = h.prio /\ k.group = h.group
      /\ k.count = h.count /\ k.sweep = h.sweep /\ k.iter = h.iter /\ k.listen = h.listen
  BY <1>1 DEF SameBut, LoopFields, LinkFields, Fields
<1>3. Busy(k.linked, k.head, k.listen, k.count, F)
  BY <1>1, <1>2 DEF Exact, Busy, IsEmpty
<1> QED BY <1>1, <1>2, <1>3 DEF Exact

\* ... nor after MaybeUnlink.
LEMMA ExactMaybeUnlink ==
  ASSUME NEW h, NEW In, NEW C, NEW Pk, NEW g \in Groups, NEW E, Exact(h, In, C, Pk, E), NEW F, F = E \ {g},
         ~IsEmpty(h, g) => h.linked[g], NEW k, k = MaybeUnlink(h, g)
  PROVE  Exact(k, In, C, Pk, F) /\ SameBut(h, k, LoopFields)
<1>1. /\ k \in Heaps /\ SameBut(h, k, LoopFields)
      /\ LoopOK(k.gnext, k.gprev, k.loopHead, k.loopIter, k.linked, k.gone)
      /\ k.linked[g] <=> h.linked[g] /\ ~IsEmpty(h, g)
      /\ \A x \in Groups \ {g} : k.linked[x] = h.linked[x]
  BY MaybeUnlinkOK DEF Exact
<1>2. /\ k.next = h.next /\ k.prev = h.prev /\ k.head = h.head /\ k.lowHead = h.lowHead
      /\ k.closedHead = h.closedHead /\ k.prio = h.prio /\ k.group = h.group
      /\ k.count = h.count /\ k.sweep = h.sweep /\ k.iter = h.iter /\ k.listen = h.listen
  BY <1>1 DEF SameBut, LoopFields, LinkFields, Fields
<1>3. Busy(k.linked, k.head, k.listen, k.count, F)
  BY <1>1, <1>2 DEF Exact, Busy, IsEmpty
<1> QED BY <1>1, <1>2, <1>3 DEF Exact

LinkedAt(h, g, s) ==
  [h EXCEPT !.group[s] = g,
            !.next[s] = h.head[g],
            !.prev = Put([@ EXCEPT ![s] = Null], h.head[g], s),
            !.head[g] = s,
            !.sweep = @ + 1]
LinkedFields == {"group", "next", "prev", "head", "sweep"}

\* s may be linked to g; s has been linked to g.
Linkable(h, In, C, Pk, g, s) ==
  /\ s \in Sockets /\ s \notin In /\ s \notin C /\ s \notin Pk /\ h.prio[s] # 1
  /\ g \in Groups /\ ~h.gone[g]
Headed(h, k, g, s) ==
  /\ k.group = [h.group EXCEPT ![s] = g]
  /\ k.next = [h.next EXCEPT ![s] = h.head[g]]
  /\ k.loopIter = h.loopIter

\* us_internal_socket_group_link_socket.
LEMMA LinkSocketOK ==
  ASSUME NEW h, NEW In, NEW C, NEW Pk, NEW g, Exact(h, In, C, Pk, {g}),
         NEW s, Linkable(h, In, C, Pk, g, s), NEW k, k = LinkSocket(h, g, s)
  PROVE  /\ Exact(k, In \cup {s}, C, Pk, {})
         /\ SameBut(h, k, LinkedFields \cup LoopFields)
         /\ Headed(h, k, g, s)
         /\ Same(Sockets \ (In \cup {s}), k.prev, h.prev)
<1> /\ s \in Sockets /\ s \notin In /\ s \notin C /\ s \notin Pk /\ h.prio[s] # 1
    /\ g \in Groups /\ ~h.gone[g]
  BY DEF Linkable
<1>1. PICK m : m = LinkedAt(h, g, s) OBVIOUS
<1>2. k = Touched(m, g) BY <1>1 DEF LinkSocket, LinkedAt
<1>3. h \in Heaps BY DEF Exact
<1>4. /\ SameBut(h, m, LinkedFields)
      /\ m.group = [h.group EXCEPT ![s] = g]
      /\ m.next = [h.next EXCEPT ![s] = h.head[g]]
      /\ m.prev = Put([h.prev EXCEPT ![s] = Null], h.head[g], s)
      /\ m.head = [h.head EXCEPT ![g] = s]
      /\ m.sweep = h.sweep + 1
  <2>1. LinkedFields \subseteq Fields BY DEF LinkedFields, Fields
  <2>2. IsHeap(h) BY <1>3, HeapParts
  <2> QED
    BY ONLY <1>1, <2>1, <2>2, Zenon DEF SameBut, IsHeap, LinkedAt, LinkedFields
<1>5. /\ m.lowHead = h.lowHead /\ m.closedHead = h.closedHead /\ m.prio = h.prio
      /\ m.count = h.count /\ m.iter = h.iter /\ m.listen = h.listen /\ m.linked = h.linked
      /\ m.gnext = h.gnext /\ m.gprev = h.gprev /\ m.loopHead = h.loopHead
      /\ m.loopIter = h.loopIter /\ m.gone = h.gone
  BY <1>4 DEF SameBut, LinkedFields, Fields
<1>6. /\ h.next \in PtrMap /\ h.prev \in PtrMap /\ h.head \in [Groups -> Ptr]
      /\ h.group \in [Sockets -> GroupPtr] /\ h.sweep \in Int
  BY <1>3, HeapParts
<1>7. /\ SocketLists(m.next, m.prev, m.head, m.lowHead, m.closedHead, m.prio, m.group, In \cup {s}, C)
      /\ m.next \in PtrMap /\ m.prev \in PtrMap /\ m.head \in [Groups -> Ptr]
      /\ m.group \in [Sockets -> GroupPtr]
      /\ Same(Sockets \ (In \cup {s}), m.prev, h.prev)
  <2>1. SocketLists(h.next, h.prev, h.head, h.lowHead, h.closedHead, h.prio, h.group, In, C)
    BY DEF Exact
  <2>2. /\ SocketLists(m.next, m.prev, m.head, h.lowHead, h.closedHead, h.prio, m.group, In \cup {s}, C)
        /\ m.next \in PtrMap /\ m.prev \in PtrMap /\ m.head \in [Groups -> Ptr]
        /\ m.group \in [Sockets -> GroupPtr]
        /\ Same(Sockets \ (In \cup {s}), m.prev, h.prev)
    <3>1. LinkWrites(h.next, h.prev, h.head, h.lowHead, h.closedHead, h.prio, h.group, In, C,
                     s, g, m.next, m.prev, m.head, m.group)
      BY <1>4, <1>6, <2>1 DEF LinkWrites
    <3> QED BY <3>1, ListsLinked
  <2> QED BY <1>5, <2>2
<1>8. In \subseteq Sockets /\ Pk \subseteq Sockets /\ Null \notin Sockets
  BY ExactParts
<1>9. \A x \in Sockets \ {s} : m.group[x] = h.group[x] BY <1>4, <1>6
<1>10. Counts(m.count, m.sweep, m.prio, m.group, In \cup {s}, Pk)
  <2>1. \A x \in Pk : m.group[x] = h.group[x] BY <1>8, <1>9
  <2>2. Counts(h.count, h.sweep, h.prio, h.group, In, Pk) BY DEF Exact
  <2>3. Counts(h.count, h.sweep + 1, h.prio, m.group, In \cup {s}, Pk)
    BY <1>8, <2>1, <2>2, CountsLinked
  <2> QED BY <1>4, <1>5, <2>3
<1>11. Cursors(m.iter, m.prio, m.group, In \cup {s})
  BY <1>5, <1>8, <1>9 DEF Exact, Cursors
<1>12. m.head[g] = s /\ \A f \in Groups \ {g} : m.head[f] = h.head[f]
  BY <1>4, <1>6
<1>13. Busy(m.linked, m.head, m.listen, m.count, {g})
  BY <1>5, <1>12 DEF Exact, Busy
<1>14. m \in Heaps
  BY <1>4, <1>6, <1>7, TypesOf, <1>3, HeapBut DEF Typed, LinkedFields
<1>15. Exact(m, In \cup {s}, C, Pk, {g})
  BY <1>5, <1>7, <1>10, <1>11, <1>13, <1>14 DEF Exact
<1>16. Exact(k, In \cup {s}, C, Pk, {}) /\ SameBut(m, k, LoopFields) /\ k.loopIter = m.loopIter
  <2>1. ~IsEmpty(m, g) /\ ~m.gone[g] BY <1>5, <1>8, <1>12 DEF IsEmpty
  <2>2. PICK E, F, I : E = {g} /\ F = {} /\ F = E \ {g} /\ I = In \cup {s}
    OBVIOUS
  <2>4. Exact(m, I, C, Pk, E) /\ F = E \ {g} BY <1>15, <2>2
  <2>6. Exact(k, In \cup {s}, C, Pk, {}) /\ SameBut(m, k, LoopFields) /\ k.loopIter = m.loopIter
    BY <1>2, <1>15, <2>4, <2>1, <2>2, ExactTouched
  <2> QED BY <2>6
<1>17. SameBut(h, k, LinkedFields \cup LoopFields)
  BY <1>4, <1>16 DEF SameBut
<1>18. k.group = m.group /\ k.next = m.next /\ k.prev = m.prev
  BY <1>16 DEF SameBut, LoopFields, LinkFields, Fields
<1>19. Headed(h, k, g, s) BY <1>4, <1>5, <1>16, <1>18 DEF Headed
<1> QED BY <1>7, <1>16, <1>17, <1>18, <1>19

UnlinkedAt(h, g, s) ==
  [h EXCEPT !.iter[g] = IF @ = s THEN h.next[s] ELSE @,
            !.head[g] = IF h.prev[s] = h.next[s] THEN Null
                        ELSE IF h.prev[s] = Null THEN h.next[s] ELSE @,
            !.next = IF h.prev[s] = h.next[s] THEN @ ELSE Put(@, h.prev[s], h.next[s]),
            !.prev = IF h.prev[s] = h.next[s] THEN @ ELSE Put(@, h.next[s], h.prev[s]),
            !.sweep = @ - 1]
UnlinkedFields == {"iter", "next", "prev", "head", "sweep"}

\* us_internal_socket_group_unlink_socket.
LEMMA UnlinkSocketOK ==
  ASSUME NEW h, NEW In, NEW C, NEW Pk, Exact(h, In, C, Pk, {}),
         NEW s \in In, h.prio[s] # 1, NEW g, g = h.group[s],
         NEW k, k = UnlinkSocket(h, g, s)
  PROVE  /\ Exact(k, In \ {s}, C, Pk, {})
         /\ SameBut(h, k, UnlinkedFields \cup LoopFields)
         /\ Same(Sockets \ (In \ {s}), k.prev, h.prev)
         /\ Same(Sockets \ (In \ {s}), k.next, h.next)
<1>1. PICK m, p, n : m = UnlinkedAt(h, g, s) /\ p = h.prev[s] /\ n = h.next[s]
  OBVIOUS
<1>2. k = MaybeUnlink(m, g) BY <1>1 DEF UnlinkSocket, UnlinkedAt
<1>3. h \in Heaps BY DEF Exact
<1>4. /\ SameBut(h, m, UnlinkedFields)
      /\ m.iter = [h.iter EXCEPT ![g] = IF @ = s THEN n ELSE @]
      /\ m.head = [h.head EXCEPT ![g] = IF p = n THEN Null ELSE IF p = Null THEN n ELSE @]
      /\ m.next = IF p = n THEN h.next ELSE Put(h.next, p, n)
      /\ m.prev = IF p = n THEN h.prev ELSE Put(h.prev, n, p)
      /\ m.sweep = h.sweep - 1
  <2>1. UnlinkedFields \subseteq Fields BY DEF UnlinkedFields, Fields
  <2>2. IsHeap(h) BY <1>3, HeapParts
  <2> QED
    BY ONLY <1>1, <2>1, <2>2, Zenon DEF SameBut, IsHeap, UnlinkedAt, UnlinkedFields
<1>5. /\ m.lowHead = h.lowHead /\ m.closedHead = h.closedHead /\ m.prio = h.prio
      /\ m.count = h.count /\ m.listen = h.listen /\ m.linked = h.linked /\ m.group = h.group
      /\ m.gnext = h.gnext /\ m.gprev = h.gprev /\ m.loopHead = h.loopHead
      /\ m.loopIter = h.loopIter /\ m.gone = h.gone
  BY <1>4 DEF SameBut, UnlinkedFields, Fields
<1>6. /\ h.next \in PtrMap /\ h.prev \in PtrMap /\ h.head \in [Groups -> Ptr]
      /\ h.iter \in [Groups -> Ptr] /\ h.sweep \in Int
  BY <1>3, HeapParts
<1>7. h.linked[g] /\ g \in Groups /\ s \in Sockets /\ g # Null
  BY GroupLinked, ExactParts
<1>8. SocketLists(h.next, h.prev, h.head, h.lowHead, h.closedHead, h.prio, h.group, In, C)
  BY DEF Exact
<1>9. /\ SocketLists(m.next, m.prev, m.head, h.lowHead, h.closedHead, h.prio, h.group, In \ {s}, C)
      /\ m.next \in PtrMap /\ m.prev \in PtrMap /\ m.head \in [Groups -> Ptr]
      /\ Same(Sockets \ (In \ {s}), m.prev, h.prev)
      /\ Same(Sockets \ (In \ {s}), m.next, h.next)
  <2>1. UnlinkWrites(h.next, h.prev, h.head, h.lowHead, h.closedHead, h.prio, h.group, In, C,
                     s, g, p, n, m.next, m.prev, m.head)
    BY <1>1, <1>4, <1>6, <1>8 DEF UnlinkWrites
  <2> QED BY <2>1, ListsUnlinked
<1>10. In \subseteq Sockets /\ Null \notin Sockets BY ExactParts
<1>11. Counts(m.count, m.sweep, m.prio, m.group, In \ {s}, Pk)
  BY <1>10, CountsUnlinked, <1>4, <1>5 DEF Exact
<1>12. n # Null => n \in In \ {s} /\ h.prio[n] # 1 /\ h.group[n] = g
  <2>1. PICK hd, W : hd = Heads(h.head, h.lowHead) /\ W = Places(h.prio, h.group)
    OBVIOUS
  <2>2. Rows(h.next, h.prev, hd, W, h.closedHead, In, C)
    BY <1>8, <2>1 DEF SocketLists
  <2>3. n # Null => n \in In /\ n # s /\ W[n] = W[s]
    BY <1>1, <2>2, Neighbours
  <2> QED BY <1>7, <1>10, <2>1, <2>3 DEF Places
<1>13. m.iter \in [Groups -> Ptr] /\ Cursors(m.iter, m.prio, m.group, In \ {s})
  <2>1. Cursors(h.iter, h.prio, h.group, In) BY DEF Exact
  <2>2. m.iter \in [Groups -> Ptr]
    <3>1. n \in Ptr /\ h.iter[g] \in Ptr
      BY <1>6, <1>7, <1>10, <1>12 DEF Ptr
    <3>2. PICK i, v : i = h.iter /\ v = IF i[g] = s THEN n ELSE i[g]
      OBVIOUS
    <3>3. v \in Ptr /\ i \in [Groups -> Ptr] /\ m.iter = [i EXCEPT ![g] = v]
      BY <1>4, <1>6, <3>1, <3>2
    <3> QED BY <3>3
  <2>3. \A f \in Groups : m.iter[f] = IF f = g /\ h.iter[g] = s THEN n ELSE h.iter[f]
    BY <1>4, <1>6
  <2>4. Cursors(m.iter, h.prio, h.group, In \ {s})
    BY <1>12, <2>1, <2>3 DEF Cursors
  <2> QED BY <1>5, <2>2, <2>4
<1>14. Busy(m.linked, m.head, m.listen, m.count, {g})
  BY <1>4, <1>6, <1>5 DEF Exact, Busy
<1>15. m \in Heaps
  <2>1. m.sweep \in Int BY <1>4, <1>6
  <2>2. Typed(m, UnlinkedFields)
    BY <1>9, <1>13, <2>1, TypesOf DEF Typed, UnlinkedFields
  <2> QED BY <1>3, <1>4, <2>2, HeapBut
<1>16. Exact(m, In \ {s}, C, Pk, {g})
  BY <1>5, <1>9, <1>11, <1>13, <1>14, <1>15 DEF Exact
<1>17. Exact(k, In \ {s}, C, Pk, {}) /\ SameBut(m, k, LoopFields)
  <2>1. PICK E, F, I : E = {g} /\ F = {} /\ F = E \ {g} /\ I = In \ {s}
    OBVIOUS
  <2>2. Exact(m, I, C, Pk, E) /\ F = E \ {g} /\ m.linked[g]
    BY <1>5, <1>7, <1>16, <2>1
  <2>3. Exact(k, I, C, Pk, F) /\ SameBut(m, k, LoopFields)
    BY ONLY <1>2, <1>7, <2>2, ExactMaybeUnlink
  <2> QED BY <2>1, <2>3
<1>18. SameBut(h, k, UnlinkedFields \cup LoopFields)
  BY <1>4, <1>17 DEF SameBut
<1>19. k.next = m.next /\ k.prev = m.prev
  BY <1>17 DEF SameBut, LoopFields, LinkFields, Fields
<1> QED BY <1>9, <1>17, <1>18, <1>19

\* What is written besides the lists, the counters and the priorities.
OtherFields ==
  {"life", "semi", "hs", "reads", "adopted", "timeout", "long", "tick", "budget", "told",
   "opened", "given"}

LEMMA ExactOthers ==
  ASSUME NEW h, NEW In, NEW C, NEW Pk, NEW E, Exact(h, In, C, Pk, E),
         NEW k \in Heaps, SameBut(h, k, OtherFields)
  PROVE  Exact(k, In, C, Pk, E)
  BY DEF SameBut, OtherFields, Fields, Exact

Parking(u, s) ==
  [u EXCEPT !.next[s] = u.lowHead,
            !.prev = Put([@ EXCEPT ![s] = Null], u.lowHead, s),
            !.lowHead = s,
            !.prio[s] = 1]
ParkingFields == {"next", "prev", "lowHead", "prio"}

\* The end of parking: a socket on no list, counted already, to the queue.
LEMMA ParkingOK ==
  ASSUME NEW h, NEW In, NEW C, NEW Pk, Exact(h, In, C, Pk, {}),
         NEW s \in Sockets, s \notin In, s \notin C, h.group[s] \in Groups,
         NEW k, k = Parking(h, s)
  PROVE  /\ Exact(k, In \cup {s}, C, Pk, {})
         /\ SameBut(h, k, ParkingFields)
         /\ k.prio = [h.prio EXCEPT ![s] = 1]
         /\ Same(Sockets \ (In \cup {s}), k.prev, h.prev)
         /\ Same(Sockets \ (In \cup {s}), k.next, h.next)
<1>1. h \in Heaps BY DEF Exact
<1>2. /\ SameBut(h, k, ParkingFields)
      /\ k.next = [h.next EXCEPT ![s] = h.lowHead]
      /\ k.prev = Put([h.prev EXCEPT ![s] = Null], h.lowHead, s)
      /\ k.lowHead = s
      /\ k.prio = [h.prio EXCEPT ![s] = 1]
  <2>1. ParkingFields \subseteq Fields BY DEF ParkingFields, Fields
  <2>2. IsHeap(h) BY <1>1, HeapParts
  <2>3. k = Parking(h, s) OBVIOUS
  <2> QED
    BY ONLY <2>1, <2>2, <2>3, Zenon DEF SameBut, IsHeap, Parking, ParkingFields
<1>3. /\ k.head = h.head /\ k.closedHead = h.closedHead /\ k.group = h.group
      /\ k.count = h.count /\ k.sweep = h.sweep /\ k.iter = h.iter /\ k.listen = h.listen
      /\ k.gnext = h.gnext /\ k.gprev = h.gprev /\ k.loopHead = h.loopHead
      /\ k.loopIter = h.loopIter /\ k.linked = h.linked /\ k.gone = h.gone
  BY <1>2 DEF SameBut, ParkingFields, Fields
<1>4. /\ h.next \in PtrMap /\ h.prev \in PtrMap /\ h.prio \in [Sockets -> 0..2]
  BY <1>1, HeapParts
<1>5. SocketLists(h.next, h.prev, h.head, h.lowHead, h.closedHead, h.prio, h.group, In, C)
  BY DEF Exact
<1>6. /\ SocketLists(k.next, k.prev, h.head, s, h.closedHead, k.prio, h.group, In \cup {s}, C)
      /\ k.next \in PtrMap /\ k.prev \in PtrMap /\ k.prio \in [Sockets -> 0..2]
      /\ Same(Sockets \ (In \cup {s}), k.prev, h.prev)
  <2>1. QueueWrites(h.next, h.prev, h.head, h.lowHead, h.closedHead, h.prio, h.group, In, C,
                    s, k.next, k.prev, k.prio)
    BY <1>2, <1>4, <1>5 DEF QueueWrites
  <2> QED BY <2>1, ListsQueued
<1>7. In \subseteq Sockets /\ Pk \subseteq Sockets /\ Null \notin Sockets
  BY ExactParts
<1>8. \A x \in In : k.prio[x] = h.prio[x] BY <1>2, <1>4, <1>7
<1>9. Counts(k.count, k.sweep, k.prio, k.group, In \cup {s}, Pk)
  <2>1. Counts(h.count, h.sweep, h.prio, h.group, In, Pk) BY DEF Exact
  <2>2. {x \in In \cup {s} : k.prio[x] # 1} = {x \in In : h.prio[x] # 1}
    BY <1>2, <1>4, <1>8
  <2>3. Counts(h.count, h.sweep, k.prio, h.group, In \cup {s}, Pk)
    BY <2>1, <2>2 DEF Counts
  <2> QED BY <1>3, <2>3
<1>10. Cursors(k.iter, k.prio, k.group, In \cup {s})
  BY <1>3, <1>8 DEF Exact, Cursors
<1>11. k \in Heaps
  BY <1>2, <1>6, TypesOf, <1>1, HeapBut DEF Ptr, Typed, ParkingFields
<1>12. /\ LoopOK(k.gnext, k.gprev, k.loopHead, k.loopIter, k.linked, k.gone)
       /\ Busy(k.linked, k.head, k.listen, k.count, {})
  BY <1>3 DEF Exact
<1>13. SocketLists(k.next, k.prev, k.head, k.lowHead, k.closedHead, k.prio, k.group, In \cup {s}, C)
  BY <1>2, <1>3, <1>6
<1>14. Exact(k, In \cup {s}, C, Pk, {})
  BY <1>9, <1>10, <1>11, <1>12, <1>13 DEF Exact
<1>15. Same(Sockets \ (In \cup {s}), k.next, h.next)
  BY <1>2, <1>4 DEF Same, PtrMap
<1> QED BY <1>2, <1>6, <1>14, <1>15

Counted(h, g, s) == [h EXCEPT !.count[g] = @ + 1, !.reads[s] = FALSE]
ParkFields == {"count", "reads"} \cup UnlinkedFields \cup LoopFields \cup ParkingFields

\* The beginning of parking: the group counts the socket.
LEMMA CountedOK ==
  ASSUME NEW h, NEW In, NEW C, NEW Pk, Exact(h, In, C, Pk, {}),
         NEW s \in In, h.prio[s] # 1, s \notin Pk, NEW g, g = h.group[s],
         NEW k, k = Counted(h, g, s)
  PROVE  Exact(k, In, C, Pk \cup {s}, {}) /\ SameBut(h, k, {"count", "reads"})
<1>1. h \in Heaps /\ g \in Groups /\ s \in Sockets BY ExactParts
<1>2. /\ SameBut(h, k, {"count", "reads"})
      /\ k.count = [h.count EXCEPT ![g] = @ + 1] /\ k.reads = [h.reads EXCEPT ![s] = FALSE]
  <2>1. {"count", "reads"} \subseteq Fields BY DEF Fields
  <2>2. IsHeap(h) BY <1>1, HeapParts
  <2>3. k = Counted(h, g, s) OBVIOUS
  <2> QED BY ONLY <2>1, <2>2, <2>3, Zenon DEF SameBut, IsHeap, Counted
<1>3. /\ k.head = h.head /\ k.closedHead = h.closedHead /\ k.group = h.group /\ k.next = h.next
      /\ k.prev = h.prev /\ k.prio = h.prio /\ k.lowHead = h.lowHead
      /\ k.sweep = h.sweep /\ k.iter = h.iter /\ k.listen = h.listen
      /\ k.gnext = h.gnext /\ k.gprev = h.gprev /\ k.loopHead = h.loopHead
      /\ k.loopIter = h.loopIter /\ k.linked = h.linked /\ k.gone = h.gone
  BY <1>2 DEF SameBut, Fields
<1>4. h.count \in [Groups -> Int] /\ h.reads \in Flags
  BY <1>1, HeapParts
<1>5. Counts(h.count, h.sweep, h.prio, h.group, In, Pk) BY DEF Exact
<1>6. Counts(k.count, h.sweep, h.prio, h.group, In, Pk \cup {s})
  BY <1>1, <1>2, <1>4, <1>5, CountsMore
<1>7. k.count \in [Groups -> Int] /\ k.reads \in Flags
  BY <1>1, <1>2, <1>4 DEF Flags
<1>8. k \in Heaps BY <1>7, TypesOf, <1>1, <1>2, HeapBut DEF Typed
<1>9. Busy(k.linked, k.head, k.listen, k.count, {})
  <2>1. h.head[g] # Null /\ h.linked[g] BY GroupLinked
  <2>2. \A f \in Groups \ {g} : k.count[f] = h.count[f] BY <1>2, <1>4
  <2>3. Busy(h.linked, h.head, h.listen, h.count, {}) BY DEF Exact
  <2> QED BY ONLY <1>3, <2>1, <2>2, <2>3 DEF Busy
<1> QED BY <1>2, <1>3, <1>6, <1>8, <1>9 DEF Exact

Resets(h, k, s, v) == k.prio = [h.prio EXCEPT ![s] = v]
Parkable(h, In, Pk, s) == s \in In /\ h.prio[s] # 1 /\ s \notin Pk

\* The socket of a poll is parked.
LEMMA ParkOK ==
  ASSUME NEW h, NEW In, NEW C, NEW Pk, Exact(h, In, C, Pk, {}),
         NEW s, Parkable(h, In, Pk, s), NEW k, k = Park(h, s)
  PROVE  /\ Exact(k, In, C, Pk \cup {s}, {}) /\ SameBut(h, k, ParkFields)
         /\ Resets(h, k, s, 1)
         /\ Same(Sockets \ In, k.prev, h.prev)
         /\ Same(Sockets \ In, k.next, h.next)
<1>0. s \in In /\ h.prio[s] # 1 /\ s \notin Pk BY DEF Parkable
<1>1. PICK g, c, u : g = h.group[s] /\ c = Counted(h, g, s) /\ u = UnlinkSocket(c, g, s)
  OBVIOUS
<1>2. k = Parking(u, s) BY <1>1 DEF Park, Parking, Counted
<1>3. Exact(c, In, C, Pk \cup {s}, {}) /\ SameBut(h, c, {"count", "reads"})
  BY <1>0, <1>1, CountedOK
<1>4. /\ c.prio = h.prio /\ c.group = h.group /\ c.prev = h.prev /\ c.next = h.next
  BY <1>3 DEF SameBut, Fields
<1>5. PICK P : P = Pk \cup {s} OBVIOUS
<1>6. Exact(c, In, C, P, {}) /\ c.prio[s] # 1 /\ g = c.group[s]
  BY <1>0, <1>1, <1>3, <1>4, <1>5
<1>7. /\ Exact(u, In \ {s}, C, P, {})
      /\ SameBut(c, u, UnlinkedFields \cup LoopFields)
      /\ Same(Sockets \ (In \ {s}), u.prev, c.prev)
      /\ Same(Sockets \ (In \ {s}), u.next, c.next)
  BY ONLY <1>0, <1>1, <1>6, UnlinkSocketOK
<1>8. u.group = c.group /\ u.prio = c.prio
  BY <1>7 DEF SameBut, UnlinkedFields, LoopFields, LinkFields, Fields
<1>9. s \in Sockets /\ u.group[s] \in Groups /\ s \notin C
  BY <1>0, <1>4, <1>8, ExactParts
<1>10. PICK I : I = In \ {s} OBVIOUS
<1>11. Exact(u, I, C, P, {}) /\ s \notin I /\ I \cup {s} = In
  BY <1>0, <1>7, <1>10
<1>12. /\ Exact(k, In, C, P, {})
       /\ SameBut(u, k, ParkingFields)
       /\ k.prio = [u.prio EXCEPT ![s] = 1]
       /\ Same(Sockets \ In, k.prev, u.prev)
       /\ Same(Sockets \ In, k.next, u.next)
  BY ONLY <1>2, <1>9, <1>11, ParkingOK
<1>13. SameBut(h, k, ParkFields)
  BY ONLY <1>3, <1>7, <1>12 DEF SameBut, ParkFields
<1>14. k.prio = [h.prio EXCEPT ![s] = 1] BY <1>4, <1>8, <1>12
<1>15. Same(Sockets \ In, k.prev, h.prev) /\ Same(Sockets \ In, k.next, h.next)
  BY ONLY <1>4, <1>7, <1>12 DEF Same
<1> QED BY <1>5, <1>12, <1>13, <1>14, <1>15 DEF Resets

UnqueuedFields == {"next", "prev", "lowHead", "prio", "count", "budget", "reads"}

\* A parked socket off the queue and uncounted; the priority becomes v.
Unqueues(h, k, s, g, v) ==
  /\ h.prio[s] = 1 /\ g = h.group[s] /\ v \in 0..2
  /\ SameBut(h, k, UnqueuedFields)
  /\ k.lowHead = IF h.prev[s] = Null THEN h.next[s] ELSE h.lowHead
  /\ k.next = [Put(h.next, h.prev[s], h.next[s]) EXCEPT ![s] = Null]
  /\ k.prev = [Put(h.prev, h.next[s], h.prev[s]) EXCEPT ![s] = Null]
  /\ k.prio = [h.prio EXCEPT ![s] = v]
  /\ k.count = [h.count EXCEPT ![h.group[s]] = @ - 1]
  /\ k.budget \in Int /\ k.reads \in Flags

LEMMA UnqueuedOK ==
  ASSUME NEW h, NEW In, NEW C, NEW Pk, Exact(h, In, C, Pk, {}),
         NEW s, s \in In, s \in Pk, NEW g, NEW v, NEW k, Unqueues(h, k, s, g, v)
  PROVE  /\ Exact(k, In \ {s}, C, Pk \ {s}, {g}) /\ g \in OnLoop(h.linked)
         /\ Same(Sockets \ In, k.prev, h.prev) /\ Same(Sockets \ In, k.next, h.next)
         /\ Cleared(k.next, k.prev, s)
<1> h.prio[s] = 1 /\ g = h.group[s] /\ v \in 0..2 BY DEF Unqueues
<1>1. PICK p, n : p = h.prev[s] /\ n = h.next[s] OBVIOUS
<1>2. h \in Heaps /\ g \in Groups /\ s \in Sockets BY <1>1, ExactParts
<1>3. /\ SameBut(h, k, UnqueuedFields)
      /\ k.lowHead = IF p = Null THEN n ELSE h.lowHead
      /\ k.next = [Put(h.next, p, n) EXCEPT ![s] = Null]
      /\ k.prev = [Put(h.prev, n, p) EXCEPT ![s] = Null]
      /\ k.prio = [h.prio EXCEPT ![s] = v]
      /\ k.count = [h.count EXCEPT ![g] = @ - 1]
      /\ k.budget \in Int /\ k.reads \in Flags
  BY <1>1 DEF Unqueues
<1>4. /\ k.head = h.head /\ k.closedHead = h.closedHead /\ k.group = h.group
      /\ k.sweep = h.sweep /\ k.iter = h.iter /\ k.listen = h.listen
      /\ k.gnext = h.gnext /\ k.gprev = h.gprev /\ k.loopHead = h.loopHead
      /\ k.loopIter = h.loopIter /\ k.linked = h.linked /\ k.gone = h.gone
  BY <1>3 DEF SameBut, UnqueuedFields, Fields
<1>5. /\ h.next \in PtrMap /\ h.prev \in PtrMap /\ h.prio \in [Sockets -> 0..2]
      /\ h.count \in [Groups -> Int]
  BY <1>2, HeapParts
<1>6. SocketLists(h.next, h.prev, h.head, h.lowHead, h.closedHead, h.prio, h.group, In, C)
  BY DEF Exact
<1>7. /\ SocketLists(k.next, k.prev, h.head, k.lowHead, h.closedHead, k.prio, h.group, In \ {s}, C)
      /\ k.next \in PtrMap /\ k.prev \in PtrMap /\ k.lowHead \in Ptr /\ k.prio \in [Sockets -> 0..2]
      /\ Same(Sockets \ In, k.prev, h.prev) /\ Same(Sockets \ In, k.next, h.next)
      /\ Cleared(k.next, k.prev, s)
  <2>1. UnqueueWrites(h.next, h.prev, h.head, h.lowHead, h.closedHead, h.prio, h.group, In, C,
                      s, p, n, v, k.next, k.prev, k.lowHead, k.prio)
    BY <1>1, <1>3, <1>5, <1>6 DEF UnqueueWrites
  <2> QED BY <2>1, ListsUnqueued
<1>8. In \subseteq Sockets /\ Pk \subseteq Sockets BY ExactParts
<1>9. \A x \in In \ {s} : k.prio[x] = h.prio[x] BY <1>3, <1>5, <1>8
<1>10. Counts(k.count, k.sweep, k.prio, k.group, In \ {s}, Pk \ {s}) /\ NotZero(h.count, g)
       /\ k.count \in [Groups -> Int]
  <2>1. Counts(h.count, h.sweep, h.prio, h.group, In, Pk) BY DEF Exact
  <2>2. /\ Counts(k.count, h.sweep, h.prio, h.group, In, Pk \ {s}) /\ NotZero(h.count, g)
        /\ k.count \in [Groups -> Int]
    <3>1. CountsDown(h.count, h.sweep, h.prio, h.group, In, Pk, s, g, k.count)
      BY <1>1, <1>2, <1>3, <1>5, <2>1 DEF CountsDown
    <3> QED BY <3>1, CountsLess
  <2>3. {x \in In \ {s} : k.prio[x] # 1} = {x \in In : h.prio[x] # 1}
    BY <1>9
  <2>4. Counts(k.count, h.sweep, k.prio, h.group, In \ {s}, Pk \ {s})
    BY <2>2, <2>3 DEF Counts
  <2> QED BY <1>4, <2>2, <2>4
<1>11. Cursors(k.iter, k.prio, k.group, In \ {s})
  BY <1>4, <1>9 DEF Exact, Cursors
<1>12. k \in Heaps
  BY <1>3, <1>7, <1>10, TypesOf, <1>2, HeapBut DEF Typed, UnqueuedFields
<1>13. h.linked[g] /\ Busy(k.linked, k.head, k.listen, k.count, {g})
  BY <1>3, <1>5, <1>2, <1>4, <1>10 DEF Exact, Busy, NotZero
<1>14. LoopOK(k.gnext, k.gprev, k.loopHead, k.loopIter, k.linked, k.gone)
  BY <1>4 DEF Exact
<1>15. SocketLists(k.next, k.prev, k.head, k.lowHead, k.closedHead, k.prio, k.group, In \ {s}, C)
  BY <1>4, <1>7
<1>16. Exact(k, In \ {s}, C, Pk \ {s}, {g})
  BY <1>10, <1>11, <1>12, <1>13, <1>14, <1>15 DEF Exact
<1>17. g \in OnLoop(h.linked) BY <1>2, <1>13 DEF OnLoop
<1> QED BY <1>7, <1>16, <1>17

Unqueued(h, s) ==
  [h EXCEPT !.lowHead = IF h.prev[s] = Null THEN h.next[s] ELSE @,
            !.next = [Put(@, h.prev[s], h.next[s]) EXCEPT ![s] = Null],
            !.prev = [Put(@, h.next[s], h.prev[s]) EXCEPT ![s] = Null],
            !.prio[s] = 0,
            !.count[h.group[s]] = @ - 1]
QueueFields == {"next", "prev", "lowHead", "prio", "count"}

Waits(h, In) == {s \in In : h.prio[s] = 1}

\* A socket leaves the queue to be closed.
LEMMA LeaveQueueOK ==
  ASSUME NEW h, NEW In, NEW C, NEW Pk, Exact(h, In, C, Pk, {}),
         NEW s, s \in Waits(h, In), s \in Pk, NEW k, k = LeaveQueue(h, s)
  PROVE  /\ Exact(k, In \ {s}, C, Pk \ {s}, {})
         /\ SameBut(h, k, QueueFields \cup LoopFields)
         /\ Resets(h, k, s, 0)
         /\ Same(Sockets \ In, k.prev, h.prev) /\ Same(Sockets \ In, k.next, h.next)
         /\ Cleared(k.next, k.prev, s)
<1> s \in In /\ h.prio[s] = 1 BY DEF Waits
<1>1. PICK m, g : m = Unqueued(h, s) /\ g = h.group[s] OBVIOUS
<1>2. k = MaybeUnlink(m, g) BY <1>1 DEF LeaveQueue, Unqueued
<1>3. h \in Heaps /\ g \in Groups /\ s \in Sockets BY <1>1, ExactParts
<1>4. /\ SameBut(h, m, QueueFields)
      /\ m.lowHead = IF h.prev[s] = Null THEN h.next[s] ELSE h.lowHead
      /\ m.next = [Put(h.next, h.prev[s], h.next[s]) EXCEPT ![s] = Null]
      /\ m.prev = [Put(h.prev, h.next[s], h.prev[s]) EXCEPT ![s] = Null]
      /\ m.prio = [h.prio EXCEPT ![s] = 0]
      /\ m.count = [h.count EXCEPT ![h.group[s]] = @ - 1]
  <2>1. QueueFields \subseteq Fields BY DEF QueueFields, Fields
  <2>2. IsHeap(h) BY <1>3, HeapParts
  <2> QED
    BY ONLY <1>1, <2>1, <2>2, Zenon DEF SameBut, IsHeap, Unqueued, QueueFields
<1>5. Unqueues(h, m, s, g, 0)
  <2>1. m.budget = h.budget /\ m.reads = h.reads
    BY <1>4 DEF SameBut, QueueFields, Fields
  <2>2. m.budget \in Int /\ m.reads \in Flags BY <1>3, <2>1, HeapParts
  <2>3. SameBut(h, m, UnqueuedFields)
    BY <1>4 DEF SameBut, QueueFields, UnqueuedFields
  <2> QED BY ONLY <1>1, <1>4, <2>2, <2>3, h.prio[s] = 1 DEF Unqueues
<1>6. /\ Exact(m, In \ {s}, C, Pk \ {s}, {g}) /\ g \in OnLoop(h.linked)
      /\ Same(Sockets \ In, m.prev, h.prev) /\ Same(Sockets \ In, m.next, h.next)
      /\ Cleared(m.next, m.prev, s)
  BY <1>5, UnqueuedOK
<1>7. m.linked[g]
  BY <1>4, <1>6 DEF SameBut, QueueFields, Fields, OnLoop
<1>8. Exact(k, In \ {s}, C, Pk \ {s}, {}) /\ SameBut(m, k, LoopFields)
  <2>1. PICK E, F, I, P : E = {g} /\ F = {} /\ F = E \ {g} /\ I = In \ {s} /\ P = Pk \ {s}
    OBVIOUS
  <2>2. Exact(m, I, C, P, E) /\ F = E \ {g} BY <1>6, <2>1
  <2>3. Exact(k, I, C, P, F) /\ SameBut(m, k, LoopFields)
    BY ONLY <1>2, <1>3, <1>7, <2>2, ExactMaybeUnlink
  <2> QED BY <2>1, <2>3
<1>9. SameBut(h, k, QueueFields \cup LoopFields)
  BY <1>4, <1>8 DEF SameBut
<1>10. k.next = m.next /\ k.prev = m.prev /\ k.prio = m.prio
  BY <1>8 DEF SameBut, LoopFields, LinkFields, Fields
<1>11. Resets(h, k, s, 0) BY <1>4, <1>10 DEF Resets
<1> QED BY <1>6, <1>8, <1>9, <1>10, <1>11

Unparking(h, s) ==
  [h EXCEPT !.lowHead = h.next[s],
            !.prev = Put(@, h.next[s], Null),
            !.next[s] = Null,
            !.count[h.group[s]] = @ - 1,
            !.budget = @ - 1,
            !.reads[s] = TRUE,
            !.prio[s] = 2]
UnparkFields == UnqueuedFields \cup LinkedFields \cup LoopFields

Wakeable(h, Pk, s) == s = h.lowHead /\ s # Null /\ s \in Pk /\ ~IsClosed(h, s)
Woken(h, k, s) ==
  k.prio = [h.prio EXCEPT ![s] = 2] /\ k.group = h.group /\ k.budget = h.budget - 1

\* One turn of us_internal_handle_low_priority_sockets.
LEMMA UnparkOK ==
  ASSUME NEW h, NEW In, NEW C, NEW Pk, Exact(h, In, C, Pk, {}),
         NEW s, Wakeable(h, Pk, s), NEW k, k = Unpark(h)
  PROVE  /\ Exact(k, In, C, Pk \ {s}, {}) /\ s \in In /\ SameBut(h, k, UnparkFields)
         /\ Woken(h, k, s)
         /\ Same(Sockets \ In, k.prev, h.prev) /\ Same(Sockets \ In, k.next, h.next)
<1> s = h.lowHead /\ s # Null /\ s \in Pk /\ ~IsClosed(h, s)
  BY DEF Wakeable
<1>1. PICK m, g, n : m = Unparking(h, s) /\ g = h.group[s] /\ n = h.next[s]
  OBVIOUS
<1>2. k = LinkSocket(m, g, s) BY <1>1 DEF Unpark, Unparking
<1>3. h \in Heaps /\ Null \notin Sockets /\ Null \notin Groups
  BY ExactParts
<1>4. s \in In /\ h.prio[s] = 1 /\ h.prev[s] = Null /\ s \in Sockets /\ g \in Groups /\ n # s
      /\ s \notin C
  <2>1. PICK hd, W : hd = Heads(h.head, h.lowHead) /\ W = Places(h.prio, h.group)
    OBVIOUS
  <2>2. Rows(h.next, h.prev, hd, W, h.closedHead, In, C) /\ \A x \in In : h.group[x] \in Groups
    BY <2>1 DEF Exact, SocketLists
  <2>3. hd[Null] = s /\ Null \in GroupPtr BY <2>1 DEF Heads, GroupPtr
  <2>4. s \in In /\ W[s] = Null /\ h.prev[s] = Null /\ s \in Sockets
    BY <2>2, <2>3, HeadOfList
  <2>5. (n # Null => n # s) /\ s \notin C
    BY <1>1, <2>2, <2>4, Neighbours
  <2> QED BY <1>1, <1>3, <2>1, <2>2, <2>4, <2>5 DEF Places
<1>5. /\ SameBut(h, m, UnqueuedFields)
      /\ m.lowHead = n
      /\ m.next = [h.next EXCEPT ![s] = Null]
      /\ m.prev = Put(h.prev, n, Null)
      /\ m.prio = [h.prio EXCEPT ![s] = 2]
      /\ m.count = [h.count EXCEPT ![h.group[s]] = @ - 1]
      /\ m.budget = h.budget - 1
      /\ m.reads = [h.reads EXCEPT ![s] = TRUE]
  <2>1. UnqueuedFields \subseteq Fields BY DEF UnqueuedFields, Fields
  <2>2. IsHeap(h) BY <1>3, HeapParts
  <2> QED
    BY ONLY <1>1, <2>1, <2>2, Zenon DEF SameBut, IsHeap, Unparking, UnqueuedFields
<1>6. Unqueues(h, m, s, g, 2)
  <2>1. m.budget \in Int /\ m.reads \in Flags
    <3>1. h.budget \in Int /\ h.reads \in Flags BY <1>3, HeapParts
    <3>2. m.budget \in Int BY <1>5, <3>1
    <3>3. PICK f : f = h.reads OBVIOUS
    <3>4. f \in [Sockets -> BOOLEAN] /\ m.reads = [f EXCEPT ![s] = TRUE]
      BY <1>5, <3>1, <3>3 DEF Flags
    <3>5. m.reads \in Flags BY ONLY <3>4 DEF Flags
    <3> QED BY <3>2, <3>5
  <2>2. m.next = [Put(h.next, h.prev[s], h.next[s]) EXCEPT ![s] = Null]
    BY <1>4, <1>5 DEF Put
  <2>3. m.prev = [Put(h.prev, h.next[s], h.prev[s]) EXCEPT ![s] = Null]
    <3>1. h.prev \in PtrMap BY <1>3, HeapParts
    <3>2. PICK f, v : f = h.prev /\ v = Put(f, n, Null) OBVIOUS
    <3>3. v = [v EXCEPT ![s] = Null]
      BY <1>4, <3>1, <3>2 DEF Put, PtrMap
    <3> QED BY <1>1, <1>4, <1>5, <3>2, <3>3
  <2>4. m.lowHead = IF h.prev[s] = Null THEN h.next[s] ELSE h.lowHead
    BY <1>1, <1>4, <1>5
  <2> QED
    BY ONLY <1>1, <1>4, <1>5, <2>1, <2>2, <2>3, <2>4 DEF Unqueues
<1>7. /\ Exact(m, In \ {s}, C, Pk \ {s}, {g}) /\ g \in OnLoop(h.linked)
      /\ Same(Sockets \ In, m.prev, h.prev) /\ Same(Sockets \ In, m.next, h.next)
  BY <1>4, <1>6, UnqueuedOK
<1>8. m.linked = h.linked /\ m.gone = h.gone /\ m.group = h.group
  BY <1>5 DEF SameBut, UnqueuedFields, Fields
<1>9. ~m.gone[g] /\ m.prio[s] # 1
  BY <1>4, <1>7, <1>3, HeapParts, <1>5, <1>8 DEF Exact, LoopOK, OnLoop
<1>10. PICK I, P : I = In \ {s} /\ P = Pk \ {s} OBVIOUS
<1>11. Exact(m, I, C, P, {g}) /\ s \notin I /\ s \notin P /\ I \cup {s} = In
  BY <1>4, <1>7, <1>10
<1>12. /\ Exact(k, In, C, P, {})
       /\ SameBut(m, k, LinkedFields \cup LoopFields)
       /\ Headed(m, k, g, s)
       /\ Same(Sockets \ In, k.prev, m.prev)
  <2>1. /\ Exact(k, I \cup {s}, C, P, {})
        /\ SameBut(m, k, LinkedFields \cup LoopFields)
        /\ Headed(m, k, g, s)
        /\ Same(Sockets \ (I \cup {s}), k.prev, m.prev)
    <3>1. Linkable(m, I, C, P, g, s) BY <1>4, <1>9, <1>11 DEF Linkable
    <3> QED BY ONLY <1>2, <1>11, <3>1, LinkSocketOK
  <2> QED BY ONLY <1>11, <2>1
<1>13. SameBut(h, k, UnparkFields)
  BY ONLY <1>5, <1>12 DEF SameBut, UnparkFields
<1>14. k.prio = m.prio /\ k.budget = m.budget
  BY <1>12 DEF SameBut, LinkedFields, LoopFields, LinkFields, Fields
<1>15. k.group = h.group
  BY <1>3, HeapParts, <1>1, <1>4, <1>8, <1>12 DEF Headed
<1>16. Same(Sockets \ In, k.prev, h.prev) BY ONLY <1>7, <1>12 DEF Same
<1>17. Same(Sockets \ In, k.next, h.next)
  <2>1. h.next \in PtrMap /\ DOMAIN m.next = Sockets
    BY <1>3, <1>5, HeapParts DEF PtrMap
  <2>2. \A x \in Sockets \ In : k.next[x] = m.next[x]
    BY ONLY <1>4, <1>12, <2>1 DEF Headed
  <2> QED BY ONLY <1>7, <2>2 DEF Same
<1>18. Woken(h, k, s) BY <1>5, <1>14, <1>15 DEF Woken
<1> QED BY <1>4, <1>10, <1>12, <1>13, <1>16, <1>17, <1>18

-----------------------------------------------------------------------------
(* Functions computed step by step: f[i] follows from f[i-1].              *)

LEMMA StepsStay ==
  ASSUME NEW n \in Nat, NEW H, NEW f, f[0] \in H[0],
         \A i \in 1..n : f[i-1] \in H[i-1] => f[i] \in H[i]
  PROVE  \A i \in 0..n : f[i] \in H[i]
<1> DEFINE T == {i \in 0..n : f[i] \notin H[i]}
<1> SUFFICES ASSUME T # {} PROVE FALSE OBVIOUS
<1>1. T \subseteq Nat OBVIOUS
<1>2. PICK i \in T : \A j \in T : i <= j
  <2> HIDE DEF T
  <2> QED BY <1>1, Least
<1>3. i # 0 /\ i \in 1..n /\ i - 1 \in 0..n /\ i - 1 < i OBVIOUS
<1>4. i - 1 \notin T BY <1>2, <1>3
<1> QED BY <1>3, <1>4

Steps(f, n, a, G) ==
  f = [i \in 0..n |-> f[i]] /\ f[0] = a /\ \A i \in 1..n : f[i] = G[i][f[i-1]]

LEMMA StepsExist ==
  ASSUME NEW n \in Nat, NEW a, NEW G
  PROVE  \E f : Steps(f, n, a, G)
<1> DEFINE T == {m \in 0..n : ~\E f : Steps(f, m, a, G)}
<1> SUFFICES ASSUME T # {} PROVE FALSE
  <2>1. n \in 0..n OBVIOUS
  <2> QED BY <2>1, Zenon
<1>1. T \subseteq Nat OBVIOUS
<1>2. PICK m \in T : \A j \in T : m <= j
  <2> HIDE DEF T
  <2> QED BY <1>1, Least
<1>3. CASE m = 0
  <2>1. PICK f : f = [i \in 0..0 |-> a] OBVIOUS
  <2>2. Steps(f, 0, a, G) BY <2>1 DEF Steps
  <2> QED BY <1>3, <2>2
<1>4. CASE m # 0
  <2>1. m - 1 \in 0..n /\ m - 1 \notin T /\ m \in 1..n BY <1>2, <1>4
  <2>2. PICK f : Steps(f, m - 1, a, G) BY <2>1, Zenon
  <2>3. PICK v, e : v = G[m][f[m-1]] /\ e = [i \in 0..m |-> IF i = m THEN v ELSE f[i]]
    OBVIOUS
  <2>4. e = [i \in 0..m |-> e[i]] /\ e[0] = a
    BY <2>1, <2>2, <2>3 DEF Steps
  <2>5. ASSUME NEW i \in 1..m PROVE e[i] = G[i][e[i-1]]
    <3>1. e[i-1] = f[i-1] BY <2>1, <2>3
    <3>2. CASE i = m
      <4>1. e[i] = v BY <2>1, <2>3, <3>2
      <4> QED BY <2>3, <3>1, <3>2, <4>1
    <3>3. CASE i # m
      <4>1. i \in 1..(m - 1) /\ e[i] = f[i] BY <2>1, <2>3, <3>3
      <4> QED BY <2>2, <3>1, <4>1 DEF Steps
    <3> QED BY <3>2, <3>3
  <2>6. Steps(e, m, a, G) BY <2>4, <2>5 DEF Steps
  <2> QED BY <2>6
<1> QED BY <1>3, <1>4

-----------------------------------------------------------------------------
(* us_internal_handle_low_priority_sockets.                                *)


Tidy(h, In, C) == Exact(h, In, C, Waits(h, In), {})

\* What k may have become of h when sockets of the queue go on.
Turned(h, k, In, C) ==
  /\ Tidy(k, In, C) /\ SameBut(h, k, UnparkFields) /\ k.group = h.group
  /\ Same(Sockets \ In, k.prev, h.prev) /\ Same(Sockets \ In, k.next, h.next)
  /\ Same(Sockets \ In, k.prio, h.prio)

\* The head of the queue waits.
LEMMA LowHead ==
  ASSUME NEW h, NEW In, NEW C, NEW Pk, Exact(h, In, C, Pk, {}), NEW s, s = h.lowHead, s # Null
  PROVE  s \in Waits(h, In)
<1>1. PICK hd, W : hd = Heads(h.head, h.lowHead) /\ W = Places(h.prio, h.group)
  OBVIOUS
<1>2. Rows(h.next, h.prev, hd, W, h.closedHead, In, C) /\ \A x \in In : h.group[x] \in Groups
  BY <1>1 DEF Exact, SocketLists
<1>3. hd[Null] = s /\ Null \in GroupPtr BY <1>1 DEF Heads, GroupPtr
<1>4. s \in In /\ W[s] = Null /\ s \in Sockets
  BY <1>2, <1>3, HeadOfList
<1> QED BY <1>1, <1>2, <1>4, ExactParts DEF Places, Waits

LEMMA TurnOK ==
  ASSUME NEW h, NEW In, NEW C, \A s \in In : ~IsClosed(h, s),
         NEW q, Turned(h, q, In, C), q.lowHead # Null, NEW k, k = Unpark(q)
  PROVE  Turned(h, k, In, C) /\ k.budget = q.budget - 1
<1>1. PICK s, P : s = q.lowHead /\ P = Waits(q, In) OBVIOUS
<1>2. Exact(q, In, C, P, {}) BY <1>1 DEF Turned, Tidy
<1>3. s \in P /\ s \in In BY <1>1, <1>2, LowHead DEF Waits
<1>4. ~IsClosed(q, s)
  <2>1. q.life = h.life
    BY DEF Turned, SameBut, UnparkFields, UnqueuedFields, LinkedFields, LoopFields, LinkFields, Fields
  <2> QED BY <1>3, <2>1 DEF IsClosed
<1>5. /\ Exact(k, In, C, P \ {s}, {}) /\ SameBut(q, k, UnparkFields)
      /\ Woken(q, k, s)
      /\ Same(Sockets \ In, k.prev, q.prev) /\ Same(Sockets \ In, k.next, q.next)
  BY <1>1, <1>3, <1>4, <1>2, UnparkOK DEF Wakeable
<1>w. k.prio = [q.prio EXCEPT ![s] = 2] /\ k.group = q.group /\ k.budget = q.budget - 1
  BY <1>5 DEF Woken
<1>6. q.prio \in [Sockets -> 0..2] /\ In \subseteq Sockets
  BY <1>2, HeapParts, ExactParts
<1>7. P \ {s} = Waits(k, In) BY <1>1, <1>3, <1>w, <1>6 DEF Waits
<1>8. Tidy(k, In, C) BY <1>5, <1>7 DEF Tidy
<1>9. Same(Sockets \ In, k.prio, h.prio)
  BY <1>3, <1>w, <1>6 DEF Turned, Same
<1>10. /\ SameBut(h, k, UnparkFields) /\ k.group = h.group
       /\ Same(Sockets \ In, k.prev, h.prev) /\ Same(Sockets \ In, k.next, h.next)
  <2>1. /\ SameBut(h, q, UnparkFields) /\ q.group = h.group
        /\ Same(Sockets \ In, q.prev, h.prev) /\ Same(Sockets \ In, q.next, h.next)
    BY DEF Turned
  <2> QED BY ONLY <1>5, <1>w, <2>1 DEF SameBut, Same
<1> QED BY <1>w, <1>8, <1>9, <1>10 DEF Turned

\* The budget after i turns.
Turns(h, In, C, i) ==
  {q \in Heaps : Turned(h, q, In, C) /\ q.budget \in (LowPrioBudget - i)..LowPrioBudget}

LEMMA HandleLowPriorityOK ==
  ASSUME NEW h, NEW In, NEW C, Tidy(h, In, C), \A s \in In : ~IsClosed(h, s),
         NEW k, k = HandleLowPriority(h)
  PROVE  Turned(h, k, In, C) /\ k.budget \in 0..LowPrioBudget
<1>1. PICK B, a : B = LowPrioBudget /\ a = [h EXCEPT !.budget = LowPrioBudget]
  OBVIOUS
<1>2. B \in Nat /\ h \in Heaps BY <1>1, Bounds DEF Tidy, Exact
<1> DEFINE Turn(f) == [i \in 0..B |-> IF i = 0 THEN a
                                      ELSE IF f[i-1].lowHead = Null THEN f[i-1]
                                      ELSE Unpark(f[i-1])]
           H == [i \in 0..B |-> Turns(h, In, C, i)]
           G == [i \in 0..B |-> [q \in Heaps |-> IF q.lowHead = Null THEN q ELSE Unpark(q)]]
<1>3. k = (CHOOSE f : f = Turn(f))[B] BY <1>1 DEF HandleLowPriority
<1>4. a \in H[0]
  <2>1. SameBut(h, a, {"budget"}) /\ a.budget = B
    <3>1. {"budget"} \subseteq Fields BY DEF Fields
    <3>2. IsHeap(h) BY <1>2, HeapParts
    <3> QED BY ONLY <1>1, <3>1, <3>2, Zenon DEF SameBut, IsHeap
  <2>2. Typed(a, {"budget"}) BY <1>2, <2>1, TypesOf DEF Typed
  <2>3. a \in Heaps BY <1>2, <2>1, <2>2, HeapBut
  <2>4. a.prio = h.prio /\ a.group = h.group /\ a.prev = h.prev /\ a.next = h.next
    BY <2>1 DEF SameBut, Fields
  <2>5. PICK P : P = Waits(h, In) OBVIOUS
  <2>6. P = Waits(a, In) BY <2>4, <2>5 DEF Waits
  <2>7. Exact(a, In, C, P, {})
    BY <2>5, <2>1, <2>3, ExactOthers DEF Tidy, SameBut, OtherFields
  <2>8. Turned(h, a, In, C)
    BY <2>1, <2>4, <2>6, <2>7 DEF SameBut, UnparkFields, UnqueuedFields, Turned, Tidy, Same
  <2>9. a.budget \in (B - 0)..B /\ 0 \in 0..B BY <1>2, <2>1
  <2> QED BY <1>1, <2>3, <2>8, <2>9 DEF Turns
<1>5. ASSUME NEW i \in 1..B, NEW q \in H[i-1]
      PROVE  G[i][q] \in H[i]
  <2>1. /\ q \in Heaps /\ Turned(h, q, In, C)
        /\ q.budget \in (B - (i - 1))..B
    BY <1>1, <1>2 DEF Turns
  <2>2. CASE q.lowHead = Null BY <1>1, <1>2, <2>1, <2>2 DEF Turns
  <2>3. CASE q.lowHead # Null
    <3>1. PICK m : m = Unpark(q) OBVIOUS
    <3>2. Turned(h, m, In, C) /\ m.budget = q.budget - 1
      BY <2>1, <2>3, <3>1, TurnOK
    <3>3. m \in Heaps BY <3>2 DEF Turned, Tidy, Exact
    <3>4. m \in H[i] BY <1>1, <1>2, <2>1, <3>2, <3>3 DEF Turns
    <3> QED BY <1>2, <2>1, <2>3, <3>1, <3>4
  <2> QED BY <2>2, <2>3
<1>6. \E f : f = Turn(f)
  <2> HIDE DEF H, G
  <2>1. PICK f : Steps(f, B, a, G) BY <1>2, StepsExist, Zenon
  <2>2. /\ f = [i \in 0..B |-> f[i]] /\ f[0] = a
        /\ \A i \in 1..B : f[i] = G[i][f[i-1]]
    BY <2>1 DEF Steps
  <2>3. f[0] \in H[0] /\ \A i \in 1..B : f[i-1] \in H[i-1] => f[i] \in H[i]
    BY <1>4, <1>5, <2>2
  <2>4. \A i \in 0..B : f[i] \in H[i] BY <1>2, <2>3, StepsStay
  <2>5. f = Turn(f)
    <3>1. ASSUME NEW i \in 0..B
          PROVE  f[i] = Turn(f)[i]
      <4>1. CASE i = 0 BY <1>2, <2>2, <4>1
      <4>2. CASE i # 0
        <5>1. i \in 1..B /\ i - 1 \in 0..B BY <1>2, <4>2
        <5>2. f[i-1] \in Heaps BY <2>4, <5>1 DEF H, Turns
        <5>3. f[i] = G[i][f[i-1]] BY <2>2, <5>1
        <5>4. f[i] = IF f[i-1].lowHead = Null THEN f[i-1] ELSE Unpark(f[i-1])
          BY <5>1, <5>2, <5>3 DEF G
        <5> QED BY <4>2, <5>4
      <4> QED BY <4>1, <4>2
    <3> HIDE DEF Turn
    <3>2. PICK e : e = Turn(f) OBVIOUS
    <3>3. \A i \in 0..B : f[i] = e[i] BY <3>1, <3>2
    <3>4. e = [i \in 0..B |-> e[i]] BY <3>2 DEF Turn
    <3> QED BY <2>2, <3>2, <3>3, <3>4
  <2> QED BY <2>5
<1>7. PICK f : k = f[B] /\ f = Turn(f) BY <1>3, <1>6, Zenon
<1>8. f[B] \in H[B]
  <2>1. f[0] = a /\ \A i \in 1..B : f[i] = IF f[i-1].lowHead = Null THEN f[i-1] ELSE Unpark(f[i-1])
    BY <1>2, <1>7
  <2>2. ASSUME NEW i \in 1..B, f[i-1] \in H[i-1]
        PROVE  f[i] \in H[i]
    <3>1. f[i] = G[i][f[i-1]] BY <1>2, <2>2, <2>1 DEF Turns
    <3> QED BY <1>5, <2>2, <3>1
  <2> HIDE DEF H
  <2>3. \A i \in 0..B : f[i] \in H[i]
    BY <1>2, <1>4, <2>1, <2>2, StepsStay
  <2> QED BY <1>2, <2>3
<1> QED BY <1>2, <1>1, <1>7, <1>8 DEF Turns

-----------------------------------------------------------------------------
(* What a heap is between two steps. Z are the sockets whose on_close has  *)
(* not returned: closed, and not on the closed list yet.                   *)

Open(h) == {s \in Sockets : h.life[s] = "open"}
Shut(h) == {s \in Sockets : h.life[s] = "closed"}

\* x may still be dereferenced; ... or is null.
InUse(life, x) == x \in Sockets /\ life[x] \in {"open", "closed"}
Leads(life, x) == x = Null \/ InUse(life, x)

ListensOK(listen, group, life) ==
  /\ \A g \in Groups : listen[g] # Null =>
       listen[g] \in Sockets /\ life[listen[g]] = "listen" /\ group[listen[g]] = g
  /\ \A s \in Sockets : life[s] = "listen" => group[s] \in Groups /\ listen[group[s]] = s

ToldOK(life, semi, told, opened, given) ==
  \A s \in Sockets :
    /\ life[s] \in {"unused", "listen"} => told[s] = 0 /\ s \notin opened /\ s \notin given
    /\ life[s] = "open" => told[s] = 0 /\ s \notin given /\ (s \in opened <=> ~semi[s])
    /\ life[s] \in {"closed", "freed"} => told[s] = IF s \in opened \ given THEN 1 ELSE 0

LinksOK(life, adopted, prev, next, prio) ==
  \A s \in Sockets :
    /\ life[s] = "unused" => prio[s] # 1
    /\ adopted[s] => life[s] \in {"closed", "freed"}
    /\ adopted[s] /\ life[s] = "closed" => InUse(life, prev[s])
    /\ life[s] = "freed" => prev[s] = Null
    /\ life[s] = "closed" => Leads(life, next[s])

World(h, Z) ==
  /\ Tidy(h, Open(h), Shut(h) \ Z) /\ Z \subseteq Shut(h)
  /\ h.budget \in 0..LowPrioBudget
  /\ ListensOK(h.listen, h.group, h.life)
  /\ ToldOK(h.life, h.semi, h.told, h.opened, h.given)
  /\ LinksOK(h.life, h.adopted, h.prev, h.next, h.prio)

\* No socket is freed, or opened again.
Aged(h, k) ==
  \A s \in Sockets :
    /\ h.life[s] \in {"open", "closed"} => k.life[s] \in {"open", "closed"}
    /\ h.life[s] = "closed" => k.life[s] = "closed"
    /\ h.life[s] = "listen" => k.life[s] \in {"listen", "closed"}

\* Sockets of In were open; those that are closed now lead to sockets in use.
Closes(In, life, life2, next2) ==
  /\ Same(Sockets \ In, life2, life)
  /\ \A x \in In : /\ life[x] = "open" /\ life2[x] \in {"open", "closed"}
                   /\ life2[x] = "closed" => Leads(life2, next2[x])

LEMMA LinksKept ==
  ASSUME NEW life, NEW adopted, NEW prev, NEW next, NEW prio,
         LinksOK(life, adopted, prev, next, prio), NEW In, NEW life2, NEW prev2, NEW next2, NEW prio2,
         Closes(In, life, life2, next2),
         Same(Sockets \ In, prev2, prev), Same(Sockets \ In, next2, next),
         Same(Sockets \ In, prio2, prio)
  PROVE  LinksOK(life2, adopted, prev2, next2, prio2)
<1>1. \A x \in Sockets : life[x] \in {"open", "closed"} => life2[x] \in {"open", "closed"}
  BY DEF Closes, Same
<1>2. \A x : InUse(life, x) => InUse(life2, x) BY <1>1 DEF InUse
<1> SUFFICES ASSUME NEW s \in Sockets
             PROVE  /\ life2[s] = "unused" => prio2[s] # 1
                    /\ adopted[s] => life2[s] \in {"closed", "freed"}
                    /\ adopted[s] /\ life2[s] = "closed" => InUse(life2, prev2[s])
                    /\ life2[s] = "freed" => prev2[s] = Null
                    /\ life2[s] = "closed" => Leads(life2, next2[s])
  BY DEF LinksOK
<1>3. CASE s \in In BY <1>3 DEF LinksOK, Closes
<1>4. CASE s \notin In BY <1>4, <1>2 DEF Closes, Same, LinksOK, Leads
<1> QED BY <1>3, <1>4

-----------------------------------------------------------------------------
(* Closing.                                                                *)

UnhookFields == {"life"} \cup QueueFields \cup UnlinkedFields \cup LoopFields

\* k is h without the open socket s.
Unhooked(h, k, In, s) ==
  /\ SameBut(h, k, UnhookFields)
  /\ k.life = [h.life EXCEPT ![s] = "closed"]
  /\ Same(Sockets \ In, k.prev, h.prev) /\ Same(Sockets \ In, k.next, h.next)
  /\ Same(Sockets \ In, k.prio, h.prio)
  /\ Closes(In, h.life, k.life, k.next)

LEMMA UnhookOK ==
  ASSUME NEW h, NEW In, NEW C, Tidy(h, In, C), In = Open(h), NEW s \in In,
         NEW k, k = Unhook(h, s)
  PROVE  Tidy(k, In \ {s}, C) /\ Unhooked(h, k, In, s)
<1>1. PICK P, u : P = Waits(h, In) /\ u = IF h.prio[s] = 1 THEN LeaveQueue(h, s)
                                          ELSE UnlinkSocket(h, h.group[s], s)
  OBVIOUS
<1>2. Exact(h, In, C, P, {}) BY <1>1 DEF Tidy
<1>3. h \in Heaps /\ s \in Sockets /\ In \subseteq Sockets /\ h.prio \in [Sockets -> 0..2]
      /\ h.life \in LifeMap
  BY <1>2, HeapParts, ExactParts
<1>4. h.next[s] # Null => h.next[s] \in In /\ h.next[s] # s
  <2>1. PICK hd, W, n : /\ hd = Heads(h.head, h.lowHead) /\ W = Places(h.prio, h.group)
                        /\ n = h.next[s]
    OBVIOUS
  <2>2. Rows(h.next, h.prev, hd, W, h.closedHead, In, C)
    BY <1>2, <2>1 DEF Exact, SocketLists
  <2> QED BY <2>1, <2>2, Neighbours
<1>5. /\ Exact(u, In \ {s}, C, P \ {s}, {})
      /\ SameBut(h, u, QueueFields \cup UnlinkedFields \cup LoopFields)
      /\ Same(Sockets \ In, u.prev, h.prev) /\ Same(Sockets \ In, u.next, h.next)
      /\ \A x \in Sockets \ {s} : u.prio[x] = h.prio[x]
      /\ u.next[s] = Null \/ u.next[s] = h.next[s]
  <2>1. CASE h.prio[s] = 1
    <3>1. u = LeaveQueue(h, s) /\ s \in P /\ s \in Waits(h, In)
      BY <1>1, <2>1 DEF Waits
    <3>2. /\ Exact(u, In \ {s}, C, P \ {s}, {})
          /\ SameBut(h, u, QueueFields \cup LoopFields)
          /\ Resets(h, u, s, 0)
          /\ Same(Sockets \ In, u.prev, h.prev) /\ Same(Sockets \ In, u.next, h.next)
          /\ Cleared(u.next, u.prev, s)
      BY ONLY <1>2, <3>1, LeaveQueueOK
    <3>3. SameBut(h, u, QueueFields \cup UnlinkedFields \cup LoopFields)
      BY <3>2 DEF SameBut
    <3>4. \A x \in Sockets \ {s} : u.prio[x] = h.prio[x]
      BY <1>3, <3>2 DEF Resets
    <3> QED BY <3>2, <3>3, <3>4 DEF Cleared
  <2>2. CASE h.prio[s] # 1
    <3>1. PICK g : g = h.group[s] OBVIOUS
    <3>2. u = UnlinkSocket(h, g, s) /\ s \notin P
      BY <1>1, <2>2, <3>1 DEF Waits
    <3>3. /\ Exact(u, In \ {s}, C, P, {})
          /\ SameBut(h, u, UnlinkedFields \cup LoopFields)
          /\ Same(Sockets \ (In \ {s}), u.prev, h.prev)
          /\ Same(Sockets \ (In \ {s}), u.next, h.next)
      BY ONLY <1>2, <2>2, <3>1, <3>2, s \in In, UnlinkSocketOK
    <3>4. SameBut(h, u, QueueFields \cup UnlinkedFields \cup LoopFields)
      BY <3>3 DEF SameBut
    <3>5. u.prio = h.prio
      BY <3>3 DEF SameBut, UnlinkedFields, LoopFields, LinkFields, Fields
    <3>6. /\ Same(Sockets \ In, u.prev, h.prev) /\ Same(Sockets \ In, u.next, h.next)
          /\ u.next[s] = h.next[s]
      BY <1>3, <3>3 DEF Same
    <3>7. P \ {s} = P BY <3>2
    <3> QED BY <3>3, <3>4, <3>5, <3>6, <3>7
  <2> QED BY <2>1, <2>2
<1>6. u \in Heaps /\ u.life = h.life
  <2>1. u \in Heaps BY <1>5 DEF Exact
  <2> QED
    BY <1>5, <2>1 DEF SameBut, QueueFields, UnlinkedFields, LoopFields, LinkFields, Fields
<1>7. SameBut(u, k, {"life"}) /\ k.life = [u.life EXCEPT ![s] = "closed"]
  <2>1. {"life"} \subseteq Fields BY DEF Fields
  <2>2. IsHeap(u) BY <1>6, HeapParts
  <2>3. k = [u EXCEPT !.life[s] = "closed"] BY <1>1 DEF Unhook
  <2> QED BY ONLY <2>1, <2>2, <2>3, Zenon DEF SameBut, IsHeap
<1>8. k.life \in LifeMap /\ k \in Heaps
  BY <1>3, <1>6, <1>7, TypesOf, HeapBut DEF LifeMap, Typed
<1>9. Exact(k, In \ {s}, C, P \ {s}, {})
  <2>1. SameBut(u, k, OtherFields) BY <1>7 DEF SameBut, OtherFields
  <2>2. PICK I, Q : I = In \ {s} /\ Q = P \ {s} OBVIOUS
  <2>3. Exact(u, I, C, Q, {}) BY <1>5, <2>2
  <2>4. Exact(k, I, C, Q, {}) BY ONLY <1>8, <2>1, <2>3, ExactOthers
  <2> QED BY <2>2, <2>4
<1>10. k.prev = u.prev /\ k.next = u.next /\ k.prio = u.prio
  BY <1>7 DEF SameBut, Fields
<1>11. Tidy(k, In \ {s}, C)
  <2>1. P \ {s} = Waits(k, In \ {s})
    BY <1>1, <1>3, <1>5, <1>10 DEF Waits
  <2> QED BY <1>9, <2>1 DEF Tidy
<1>12. SameBut(h, k, UnhookFields)
  BY ONLY <1>5, <1>7 DEF SameBut, UnhookFields
<1>13. Closes(In, h.life, k.life, k.next)
  BY <1>6, <1>7, <1>3, <1>4, <1>5, <1>10 DEF Open, Leads, InUse, LifeMap, Closes, Same
<1>14. Same(Sockets \ In, k.prio, h.prio) BY <1>5, <1>10 DEF Same
<1>15. k.life = [h.life EXCEPT ![s] = "closed"] BY <1>6, <1>7
<1> QED BY <1>5, <1>10, <1>11, <1>12, <1>13, <1>14, <1>15 DEF Unhooked

LEMMA TidyOthers ==
  ASSUME NEW h, NEW In, NEW C, Tidy(h, In, C), NEW k \in Heaps, SameBut(h, k, OtherFields)
  PROVE  Tidy(k, In, C)
<1>1. PICK P : P = Waits(h, In) OBVIOUS
<1>2. Exact(h, In, C, P, {}) BY <1>1 DEF Tidy
<1>3. Exact(k, In, C, P, {}) BY <1>2, ExactOthers
<1>4. k.prio = h.prio BY DEF SameBut, OtherFields, Fields
<1> QED BY <1>1, <1>3, <1>4 DEF Tidy, Waits

LEMMA WorldParts ==
  ASSUME NEW h, NEW Z, World(h, Z)
  PROVE  /\ h \in Heaps /\ Tidy(h, Open(h), Shut(h) \ Z) /\ Z \subseteq Shut(h)
         /\ h.budget \in 0..LowPrioBudget
         /\ ListensOK(h.listen, h.group, h.life)
         /\ ToldOK(h.life, h.semi, h.told, h.opened, h.given)
         /\ LinksOK(h.life, h.adopted, h.prev, h.next, h.prio)
         /\ h.life \in LifeMap /\ h.told \in [Sockets -> Int] /\ h.prio \in [Sockets -> 0..2]
         /\ h.next \in PtrMap /\ h.prev \in PtrMap /\ h.semi \in Flags
  BY HeapParts DEF World, Tidy, Exact

\* on_close is told, unless the socket never opened.
Tells(u, k, s, semi) ==
  /\ SameBut(u, k, {"told"})
  /\ k.told = IF semi[s] THEN u.told ELSE [u.told EXCEPT ![s] = @ + 1]

LEMMA ClosedWorld ==
  ASSUME NEW h, NEW Z, World(h, Z), NEW s \in Open(h), NEW u, u = Unhook(h, s),
         NEW k, Tells(u, k, s, h.semi)
  PROVE  World(k, Z \cup {s}) /\ Aged(h, k) /\ s \notin Z /\ s \in Shut(k)
<1>1. PICK In, C : In = Open(h) /\ C = Shut(h) \ Z OBVIOUS
<1>2. /\ h \in Heaps /\ Tidy(h, In, C) /\ Z \subseteq Shut(h)
      /\ h.life \in LifeMap /\ h.told \in [Sockets -> Int] /\ h.semi \in Flags
  BY <1>1, WorldParts
<1>3. Tidy(u, In \ {s}, C) /\ Unhooked(h, u, In, s)
  BY <1>1, <1>2, UnhookOK
<1>4. s \in Sockets /\ h.life[s] = "open" /\ s \notin Z /\ s \in In
  BY <1>1, <1>2 DEF Open, Shut
<1>5. /\ SameBut(h, u, UnhookFields) /\ u.life = [h.life EXCEPT ![s] = "closed"]
      /\ Same(Sockets \ In, u.prev, h.prev) /\ Same(Sockets \ In, u.next, h.next)
      /\ Same(Sockets \ In, u.prio, h.prio) /\ Closes(In, h.life, u.life, u.next)
  BY <1>3 DEF Unhooked
<1>6. /\ u.told = h.told /\ u.listen = h.listen /\ u.group = h.group /\ u.semi = h.semi
      /\ u.opened = h.opened /\ u.given = h.given /\ u.adopted = h.adopted /\ u.budget = h.budget
  BY <1>5 DEF SameBut, UnhookFields, QueueFields, UnlinkedFields, LoopFields, LinkFields, Fields
<1>7. /\ k.listen = u.listen /\ k.group = u.group /\ k.semi = u.semi /\ k.life = u.life
      /\ k.opened = u.opened /\ k.given = u.given /\ k.adopted = u.adopted /\ k.budget = u.budget
      /\ k.prev = u.prev /\ k.next = u.next /\ k.prio = u.prio
  BY DEF SameBut, Fields, Tells
<1>8. k.told = IF h.semi[s] THEN h.told ELSE [h.told EXCEPT ![s] = @ + 1]
  BY <1>6 DEF Tells
<1>9. k \in Heaps
  <2>1. u \in Heaps BY <1>3 DEF Tidy, Exact
  <2>2. PICK f : f = h.told OBVIOUS
  <2>3. f \in [Sockets -> Int] /\ (k.told = f \/ k.told = [f EXCEPT ![s] = @ + 1])
    BY <1>2, <1>8, <2>2
  <2>4. [f EXCEPT ![s] = @ + 1] \in [Sockets -> Int]
    BY ONLY <1>4, <2>3
  <2>5. k.told \in [Sockets -> Int] BY ONLY <2>3, <2>4
  <2>6. Typed(k, {"told"}) BY <2>5, TypesOf DEF Typed
  <2> QED BY <2>1, <2>6, HeapBut DEF Tells
<1>10. Tidy(k, In \ {s}, C)
  BY <1>3, <1>9, TidyOthers DEF SameBut, OtherFields, Tells
<1>11. k.life = [h.life EXCEPT ![s] = "closed"] BY <1>5, <1>7
<1>12. /\ Open(k) = In \ {s} /\ Shut(k) \ (Z \cup {s}) = C /\ Z \cup {s} \subseteq Shut(k)
       /\ s \in Shut(k)
  BY <1>1, <1>2, <1>4, <1>11 DEF Open, Shut, LifeMap
<1>13. Aged(h, k) BY <1>2, <1>4, <1>11 DEF Aged, LifeMap
<1>14. ListensOK(k.listen, k.group, k.life)
  <2>1. ListensOK(h.listen, h.group, h.life) BY WorldParts
  <2>2. \A x \in Sockets : k.life[x] = "listen" <=> h.life[x] = "listen"
    BY <1>2, <1>4, <1>11 DEF LifeMap
  <2> QED BY <1>6, <1>7, <2>1, <2>2 DEF ListensOK
<1>15. ToldOK(k.life, k.semi, k.told, k.opened, k.given)
  <2>1. ToldOK(h.life, h.semi, h.told, h.opened, h.given)
    BY WorldParts
  <2>2. \A x \in Sockets \ {s} : k.life[x] = h.life[x] /\ k.told[x] = h.told[x]
    BY <1>2, <1>8, <1>11 DEF LifeMap
  <2>3. k.life[s] = "closed" /\ k.told[s] = IF h.semi[s] THEN 0 ELSE 1
    BY <1>2, <1>4, <1>8, <1>11, <2>1 DEF LifeMap, ToldOK
  <2>4. s \notin h.given /\ (s \in h.opened <=> ~h.semi[s])
    BY <1>4, <2>1 DEF ToldOK
  <2> QED BY <1>4, <1>6, <1>7, <2>1, <2>2, <2>3, <2>4 DEF ToldOK
<1>16. LinksOK(k.life, k.adopted, k.prev, k.next, k.prio)
  <2>1. LinksOK(h.life, h.adopted, h.prev, h.next, h.prio)
    BY WorldParts
  <2>2. LinksOK(u.life, h.adopted, u.prev, u.next, u.prio)
    BY ONLY <1>5, <2>1, LinksKept
  <2> QED BY <1>6, <1>7, <2>2
<1>17. k.budget \in 0..LowPrioBudget BY <1>6, <1>7, WorldParts
<1> QED
  BY <1>4, <1>10, <1>12, <1>13, <1>14, <1>15, <1>16, <1>17 DEF World

ClosedFields == {"next", "closedHead"}
Onto(h, k, s) == k.next = [h.next EXCEPT ![s] = h.closedHead] /\ k.closedHead = s

\* A closed socket to the closed list.
LEMMA OnClosedExact ==
  ASSUME NEW h, NEW In, NEW C, NEW Pk, NEW E, Exact(h, In, C, Pk, E),
         NEW s \in Sockets, s \notin In, s \notin C, NEW k, k = OnClosedList(h, s)
  PROVE  /\ Exact(k, In, C \cup {s}, Pk, E) /\ SameBut(h, k, ClosedFields)
         /\ Onto(h, k, s) /\ h.closedHead \in C \cup {Null}
<1>1. /\ h \in Heaps
      /\ SocketLists(h.next, h.prev, h.head, h.lowHead, h.closedHead, h.prio, h.group, In, C)
      /\ Counts(h.count, h.sweep, h.prio, h.group, In, Pk)
      /\ Cursors(h.iter, h.prio, h.group, In)
      /\ LoopOK(h.gnext, h.gprev, h.loopHead, h.loopIter, h.linked, h.gone)
      /\ Busy(h.linked, h.head, h.listen, h.count, E)
  BY ExactParts
<1>2. h.next \in PtrMap /\ h.closedHead \in Ptr /\ {"next", "closedHead"} \subseteq Fields /\ IsHeap(h)
  BY <1>1, HeapParts DEF Fields
<1>3. /\ SameBut(h, k, ClosedFields)
      /\ k.next = [h.next EXCEPT ![s] = h.closedHead] /\ k.closedHead = s
  BY ONLY <1>2, k = OnClosedList(h, s), Zenon DEF SameBut, IsHeap, OnClosedList, ClosedFields
<1>4. /\ k.prev = h.prev /\ k.head = h.head /\ k.lowHead = h.lowHead /\ k.prio = h.prio
      /\ k.group = h.group /\ k.count = h.count /\ k.sweep = h.sweep /\ k.iter = h.iter
      /\ k.gnext = h.gnext /\ k.gprev = h.gprev /\ k.loopHead = h.loopHead
      /\ k.loopIter = h.loopIter /\ k.linked = h.linked /\ k.gone = h.gone /\ k.listen = h.listen
  BY <1>3 DEF SameBut, ClosedFields, Fields
<1>5. /\ SocketLists(k.next, h.prev, h.head, h.lowHead, s, h.prio, h.group, In, C \cup {s})
      /\ k.next \in PtrMap
  BY <1>1, <1>2, <1>3, ListsClosed DEF CloseWrites
<1>6. k \in Heaps
  BY <1>3, <1>5, TypesOf, <1>1, HeapBut DEF Typed, ClosedFields, Ptr
<1>7. h.closedHead \in C \cup {Null}
  BY <1>1 DEF SocketLists, Rows, Single
<1> QED BY <1>1, <1>3, <1>4, <1>5, <1>6, <1>7 DEF Exact, Onto

\* On_close has returned, or there was none: the socket goes to the closed list.
LEMMA OnClosedOK ==
  ASSUME NEW h, NEW Z, World(h, Z), NEW s \in Z, NEW Y, Y = Z \ {s}, NEW k, k = OnClosedList(h, s)
  PROVE  World(k, Y) /\ k.life = h.life
<1>1. PICK In, C : In = Open(h) /\ C = Shut(h) \ Z OBVIOUS
<1>2. /\ h \in Heaps /\ Tidy(h, In, C) /\ Z \subseteq Shut(h) /\ h.budget \in 0..LowPrioBudget
      /\ ListensOK(h.listen, h.group, h.life)
      /\ ToldOK(h.life, h.semi, h.told, h.opened, h.given)
      /\ LinksOK(h.life, h.adopted, h.prev, h.next, h.prio) /\ h.life \in LifeMap
      /\ h.next \in PtrMap
  BY <1>1, WorldParts
<1>3. s \in Sockets /\ h.life[s] = "closed" /\ s \notin In /\ s \notin C
  BY <1>1, <1>2 DEF Open, Shut
<1>4. PICK P : P = Waits(h, In) OBVIOUS
<1>5. Exact(h, In, C, P, {}) BY <1>2, <1>4 DEF Tidy
<1>6. /\ Exact(k, In, C \cup {s}, P, {}) /\ SameBut(h, k, ClosedFields)
      /\ Onto(h, k, s) /\ h.closedHead \in C \cup {Null}
  BY <1>3, <1>5, OnClosedExact
<1>7. /\ k.life = h.life /\ k.prio = h.prio /\ k.prev = h.prev /\ k.budget = h.budget
      /\ k.listen = h.listen /\ k.group = h.group /\ k.semi = h.semi /\ k.told = h.told
      /\ k.opened = h.opened /\ k.given = h.given /\ k.adopted = h.adopted
  BY <1>6 DEF SameBut, ClosedFields, Fields
<1>8. Open(k) = In /\ Shut(k) \ Y = C \cup {s} /\ Y \subseteq Shut(k)
  BY <1>1, <1>2, <1>3, <1>7 DEF Open, Shut
<1>9. Tidy(k, Open(k), Shut(k) \ Y)
  BY <1>4, <1>6, <1>7, <1>8 DEF Tidy, Waits
<1>10. LinksOK(k.life, k.adopted, k.prev, k.next, k.prio)
  BY <1>6, <1>1, <1>2, <1>3, <1>7 DEF Onto, Leads, InUse, Shut, LinksOK, PtrMap
<1> QED BY <1>2, <1>7, <1>8, <1>9, <1>10 DEF World

\* What neither the lists nor the history depend on.
PlainFields == {"hs", "reads", "timeout", "long", "tick"}

LEMMA WorldPlain ==
  ASSUME NEW h, NEW Z, World(h, Z), NEW k \in Heaps, SameBut(h, k, PlainFields)
  PROVE  World(k, Z) /\ k.life = h.life
<1>1. /\ k.life = h.life /\ k.prio = h.prio /\ k.prev = h.prev /\ k.budget = h.budget
      /\ k.next = h.next /\ k.listen = h.listen /\ k.group = h.group /\ k.semi = h.semi
      /\ k.told = h.told /\ k.opened = h.opened /\ k.given = h.given /\ k.adopted = h.adopted
  BY DEF SameBut, PlainFields, Fields
<1>2. PICK In, C : In = Open(h) /\ C = Shut(h) \ Z OBVIOUS
<1>3. In = Open(k) /\ C = Shut(k) \ Z /\ Shut(h) = Shut(k)
  BY <1>1, <1>2 DEF Open, Shut
<1>4. Tidy(k, In, C)
  BY <1>2, WorldParts, TidyOthers DEF SameBut, PlainFields, OtherFields
<1> QED BY <1>1, <1>3, <1>4, WorldParts DEF World

\* The frames that a call leaves besides on_close.
Quiet(life, f) ==
  \/ f = <<>>
  \/ f = <<User>>
  \/ \E s \in Sockets : InUse(life, s) /\ f = <<User, [k |-> "ssl", s |-> s]>>

\* o is what a call may leave of the heap h.
Leaves(h, Z, o) ==
  /\ Aged(h, o.h)
  /\ \/ World(o.h, Z) /\ Quiet(o.h.life, o.f)
     \/ \E s \in Sockets \ Z : /\ World(o.h, Z \cup {s})
                               /\ o.f = <<User, [k |-> "close", s |-> s]>>

LEMMA SameAge ==
  ASSUME NEW h, NEW k, k.life = h.life, h.life \in LifeMap
  PROVE  Aged(h, k)
  BY DEF Aged

\* A call that only writes what matters little.
LEMMA LeavesPlain ==
  ASSUME NEW h, NEW Z, World(h, Z), NEW o, World(o.h, Z), o.h.life = h.life, Quiet(h.life, o.f)
  PROVE  Leaves(h, Z, o)
  BY SameAge, WorldParts DEF Leaves

\* us_internal_socket_close_raw.
LEMMA CloseRawOK ==
  ASSUME NEW h, NEW Z, World(h, Z), NEW s, InUse(h.life, s), NEW o, o = CloseRaw(h, s)
  PROVE  Leaves(h, Z, o)
<1>1. s \in Sockets /\ h.life[s] \in {"open", "closed"} BY DEF InUse
<1>2. CASE h.life[s] = "closed"
  BY <1>2, LeavesPlain DEF CloseRaw, IsClosed, Outcome, Quiet
<1>3. CASE h.life[s] = "open"
  <2>1. s \in Open(h) /\ ~IsClosed(h, s)
    BY <1>1, <1>3 DEF Open, IsClosed
  <2>2. PICK u : u = Unhook(h, s) OBVIOUS
  <2>3. u \in Heaps /\ IsHeap(u)
    <3>1. PICK In, C : In = Open(h) /\ C = Shut(h) \ Z OBVIOUS
    <3>2. Tidy(h, In, C) /\ s \in In BY <2>1, <3>1, WorldParts
    <3>3. Tidy(u, In \ {s}, C) BY <2>2, <3>1, <3>2, UnhookOK
    <3> QED BY <3>3, HeapParts DEF Tidy, Exact
  <2>4. CASE h.semi[s]
    <3>1. Tells(u, u, s, h.semi) BY <2>3, <2>4 DEF Tells, SameBut
    <3>2. PICK Y : Y = Z \cup {s} OBVIOUS
    <3>3. World(u, Y) /\ Aged(h, u) /\ s \notin Z
      BY <2>1, <2>2, <3>1, <3>2, ClosedWorld
    <3>4. s \in Y /\ Z = Y \ {s} BY <3>2, <3>3
    <3>5. PICK k : k = OnClosedList(u, s) OBVIOUS
    <3>6. World(k, Z) /\ k.life = u.life
      BY <3>3, <3>4, <3>5, OnClosedOK
    <3>7. o.h = k /\ o.f = <<>>
      BY <2>1, <2>2, <2>4, <3>5 DEF CloseRaw, Outcome
    <3>8. Aged(h, k) BY <3>3, <3>6 DEF Aged
    <3> QED BY <3>6, <3>7, <3>8 DEF Leaves, Quiet
  <2>5. CASE ~h.semi[s]
    <3>1. PICK k : k = [u EXCEPT !.told[s] = @ + 1] OBVIOUS
    <3>2. "told" \in Fields BY DEF Fields
    <3>3. k.told = [u.told EXCEPT ![s] = @ + 1] /\ SameBut(u, k, {"told"})
      BY ONLY <2>3, <3>1, <3>2, Zenon DEF SameBut, IsHeap
    <3>4. Tells(u, k, s, h.semi) BY <2>5, <3>3 DEF Tells
    <3>5. World(k, Z \cup {s}) /\ Aged(h, k) /\ s \notin Z
      BY <2>1, <2>2, <3>4, ClosedWorld
    <3>6. o.h = k /\ o.f = <<User, [k |-> "close", s |-> s]>>
      BY <2>1, <2>2, <2>5, <3>1 DEF CloseRaw, Outcome
    <3> QED BY <1>1, <3>5, <3>6 DEF Leaves
  <2> QED BY <2>4, <2>5
<1> QED BY <1>1, <1>2, <1>3

\* us_internal_ssl_close from the shutdown on.
LEMMA SslShutdownOK ==
  ASSUME NEW h, NEW Z, World(h, Z), NEW s, InUse(h.life, s), NEW o \in SslShutdown(h, s)
  PROVE  Leaves(h, Z, o)
<1>1. CASE o = CloseRaw(h, s) BY <1>1, CloseRawOK
<1>2. CASE o = Outcome(h, <<>>)
  BY <1>2, LeavesPlain DEF Outcome, Quiet
<1> QED BY <1>1, <1>2 DEF SslShutdown

\* us_socket_close.
LEMMA CloseSocketOK ==
  ASSUME NEW h, NEW Z, World(h, Z), NEW s, InUse(h.life, s), NEW o \in CloseSocket(h, s)
  PROVE  Leaves(h, Z, o)
<1>1. s \in Sockets BY DEF InUse
<1>2. CASE o = CloseRaw(h, s) BY <1>2, CloseRawOK
<1>3. CASE o \in SslShutdown(h, s) BY <1>3, SslShutdownOK
<1>4. CASE o = Outcome([h EXCEPT !.hs[s] = "failed"], <<User, [k |-> "ssl", s |-> s]>>)
  <2>1. PICK k : k = [h EXCEPT !.hs[s] = "failed"] OBVIOUS
  <2>2. h \in Heaps /\ IsHeap(h) /\ h.hs \in [Sockets -> {"init", "done", "failed"}] /\ "hs" \in Fields
    BY WorldParts, HeapParts DEF Fields
  <2>3. k.hs = [h.hs EXCEPT ![s] = "failed"] /\ SameBut(h, k, {"hs"})
    BY ONLY <2>1, <2>2, Zenon DEF SameBut, IsHeap
  <2>4. k \in Heaps BY <2>2, <2>3, TypesOf, HeapBut DEF Typed
  <2>5. SameBut(h, k, PlainFields) BY <2>3 DEF SameBut, PlainFields
  <2>6. World(k, Z) /\ k.life = h.life BY <2>4, <2>5, WorldPlain
  <2>7. o.h = k /\ o.f = <<User, [k |-> "ssl", s |-> s]>>
    BY <1>4, <2>1 DEF Outcome
  <2>8. Quiet(h.life, o.f) BY <1>1, <2>7 DEF Quiet
  <2> QED BY <2>6, <2>7, <2>8, LeavesPlain
<1> QED BY <1>2, <1>3, <1>4 DEF CloseSocket


\* us_listen_socket_close.
LEMMA CloseListenOK ==
  ASSUME NEW h, NEW Z, World(h, Z), NEW g \in Groups, NEW s, s = h.listen[g], s # Null,
         NEW k, k = CloseListen(h, s)
  PROVE  World(k, Z) /\ Aged(h, k)
<1>1. PICK In, C, P : In = Open(h) /\ C = Shut(h) \ Z /\ P = Waits(h, In)
  OBVIOUS
<1>2. /\ h \in Heaps /\ Exact(h, In, C, P, {}) /\ Z \subseteq Shut(h)
      /\ h.budget \in 0..LowPrioBudget
      /\ ListensOK(h.listen, h.group, h.life)
      /\ ToldOK(h.life, h.semi, h.told, h.opened, h.given)
      /\ LinksOK(h.life, h.adopted, h.prev, h.next, h.prio)
      /\ h.life \in LifeMap /\ h.next \in PtrMap
  BY <1>1, WorldParts DEF Tidy
<1>3. s \in Sockets /\ h.life[s] = "listen" /\ h.group[s] = g
  BY <1>2 DEF ListensOK
<1>4. s \notin In /\ s \notin C /\ s \notin Z
  BY <1>1, <1>2, <1>3 DEF Open, Shut
<1>5. PICK u : u = [h EXCEPT !.listen[g] = Null] OBVIOUS
<1>6. SameBut(h, u, {"listen"}) /\ u.listen = [h.listen EXCEPT ![g] = Null]
  <2>1. IsHeap(h) /\ "listen" \in Fields BY <1>2, HeapParts DEF Fields
  <2> QED BY ONLY <1>5, <2>1, Zenon DEF SameBut, IsHeap
<1>7. u \in Heaps
  <2>1. PICK l : l = h.listen OBVIOUS
  <2>2. l \in [Groups -> Ptr] /\ u.listen = [l EXCEPT ![g] = Null] /\ Null \in Ptr
    BY <1>2, <1>6, <2>1, HeapParts DEF Ptr
  <2>3. u.listen \in [Groups -> Ptr] BY ONLY <2>2
  <2>4. Typed(u, {"listen"}) BY <2>3, TypesOf DEF Typed
  <2> QED BY <1>2, <1>6, <2>4, HeapBut
<1>8. Exact(u, In, C, P, {g})
  <2>1. /\ u.next = h.next /\ u.prev = h.prev /\ u.head = h.head /\ u.lowHead = h.lowHead
        /\ u.prio = h.prio /\ u.closedHead = h.closedHead
        /\ u.group = h.group /\ u.count = h.count /\ u.sweep = h.sweep /\ u.iter = h.iter
        /\ u.gnext = h.gnext /\ u.gprev = h.gprev /\ u.loopHead = h.loopHead
        /\ u.loopIter = h.loopIter /\ u.linked = h.linked /\ u.gone = h.gone
    BY <1>6 DEF SameBut, Fields
  <2>2. Busy(h.linked, h.head, h.listen, h.count, {}) /\ h.listen \in [Groups -> Ptr]
    BY <1>2, HeapParts DEF Exact
  <2>3. Busy(h.linked, h.head, u.listen, h.count, {g})
    BY <1>6, <2>2 DEF Busy
  <2> QED BY <1>2, <1>7, <2>1, <2>3 DEF Exact
<1>9. ~IsEmpty(u, g) => u.linked[g]
  BY <1>6, <1>2 DEF SameBut, Fields, Exact, Busy
<1>10. PICK v : v = MaybeUnlink(u, g) OBVIOUS
<1>11. Exact(v, In, C, P, {}) /\ SameBut(u, v, LoopFields)
  <2>1. PICK E : E = {g} OBVIOUS
  <2>2. PICK F : F = E \ {g} OBVIOUS
  <2>3. F = {} /\ Exact(u, In, C, P, E) BY <1>8, <2>1, <2>2
  <2>4. Exact(v, In, C, P, F) /\ SameBut(u, v, LoopFields)
    BY ONLY g \in Groups, <1>9, <1>10, <2>2, <2>3, ExactMaybeUnlink
  <2> QED BY <2>3, <2>4
<1>12. PICK w : w = [v EXCEPT !.life[s] = "closed"] OBVIOUS
<1>13. SameBut(v, w, {"life"}) /\ w.life = [v.life EXCEPT ![s] = "closed"]
  <2>1. IsHeap(v) /\ "life" \in Fields
    BY <1>11, HeapParts DEF Exact, Fields
  <2> QED BY ONLY <1>12, <2>1, Zenon DEF SameBut, IsHeap
<1>14. SameBut(h, w, {"listen", "life"} \cup LoopFields)
  BY ONLY <1>6, <1>11, <1>13 DEF SameBut
<1>15. w.life = [h.life EXCEPT ![s] = "closed"] /\ w.listen = [h.listen EXCEPT ![g] = Null]
  BY <1>6, <1>11, <1>13 DEF SameBut, LoopFields, LinkFields, Fields
<1>16. w \in Heaps
  BY <1>2, <1>15, TypesOf, <1>11, <1>13, HeapBut DEF LifeMap, Typed, Exact
<1>17. Exact(w, In, C, P, {})
  BY <1>13, <1>11, <1>16, ExactOthers DEF SameBut, OtherFields
<1>18. k = OnClosedList(w, s)
  BY <1>3, <1>5, <1>10, <1>12 DEF CloseListen
<1>19. /\ Exact(k, In, C \cup {s}, P, {}) /\ SameBut(w, k, ClosedFields)
       /\ Onto(w, k, s) /\ w.closedHead \in C \cup {Null}
  BY <1>3, <1>4, <1>17, <1>18, OnClosedExact
<1>20. /\ w.next = h.next /\ w.prio = h.prio /\ w.prev = h.prev /\ w.budget = h.budget
       /\ w.group = h.group /\ w.semi = h.semi /\ w.told = h.told
       /\ w.opened = h.opened /\ w.given = h.given /\ w.adopted = h.adopted
  BY <1>14 DEF SameBut, LoopFields, LinkFields, Fields
<1>21. /\ k.life = w.life /\ k.prio = w.prio /\ k.prev = w.prev /\ k.budget = w.budget
       /\ k.listen = w.listen /\ k.group = w.group /\ k.semi = w.semi /\ k.told = w.told
       /\ k.opened = w.opened /\ k.given = w.given /\ k.adopted = w.adopted
  BY <1>19 DEF SameBut, ClosedFields, Fields
<1>22. k.life = [h.life EXCEPT ![s] = "closed"] BY <1>15, <1>21
<1>23. Open(k) = In /\ Shut(k) \ Z = C \cup {s} /\ Z \subseteq Shut(k)
  BY <1>1, <1>2, <1>3, <1>4, <1>22 DEF Open, Shut, LifeMap
<1>24. Tidy(k, Open(k), Shut(k) \ Z)
  BY <1>20, <1>21, <1>1, <1>19, <1>23 DEF Tidy, Waits
<1>25. Aged(h, k) BY <1>2, <1>3, <1>22 DEF Aged, LifeMap
<1>26. ListensOK(k.listen, k.group, k.life)
  <2>1. k.listen = [h.listen EXCEPT ![g] = Null] /\ k.group = h.group /\ h.listen \in [Groups -> Ptr]
    BY <1>2, <1>15, <1>20, <1>21, HeapParts
  <2>2. \A x \in Groups \ {g} : h.listen[x] # s
    BY <1>2, <1>3, Bounds DEF ListensOK
  <2> QED BY <1>2, <1>3, <1>22, <2>1, <2>2 DEF ListensOK, LifeMap
<1>27. ToldOK(k.life, k.semi, k.told, k.opened, k.given)
  BY <1>2, <1>3, <1>20, <1>21, <1>22 DEF ToldOK, LifeMap
<1>28. LinksOK(k.life, k.adopted, k.prev, k.next, k.prio)
  <2>1. k.next = [h.next EXCEPT ![s] = w.closedHead]
    BY <1>19, <1>20 DEF Onto
  <2>2. Leads(h.life, w.closedHead)
    BY <1>1, <1>19 DEF Leads, InUse, Shut
  <2> QED
    BY <1>2, <1>3, <1>20, <1>21, <1>22, <2>1, <2>2 DEF LinksOK, PtrMap, LifeMap, Leads, InUse
<1> QED
  BY <1>2, <1>20, <1>21, <1>23, <1>24, <1>25, <1>26, <1>27, <1>28 DEF World

-----------------------------------------------------------------------------
(* Opening and adopting.                                                   *)

LEMMA ExactWeaker ==
  ASSUME NEW h, NEW In, NEW C, NEW Pk, NEW E, Exact(h, In, C, Pk, {})
  PROVE  Exact(h, In, C, Pk, E)
  BY DEF Busy, Exact

OpensFields == {"life", "semi", "opened"}

\* s is open now.
Opens(h, k, s) ==
  /\ k.life = [h.life EXCEPT ![s] = "open"] /\ k.prio = h.prio /\ k.gone = h.gone
  /\ k.prio[s] # 1

LEMMA OpenSocketOK ==
  ASSUME NEW h, NEW Z, World(h, Z), NEW s \in Sockets, h.life[s] = "unused",
         NEW g \in Groups, ~h.gone[g], NEW semi \in BOOLEAN, NEW k, k = OpenSocket(h, g, s, semi)
  PROVE  World(k, Z) /\ Aged(h, k) /\ Opens(h, k, s)
<1>1. PICK In, C, P : In = Open(h) /\ C = Shut(h) \ Z /\ P = Waits(h, In)
  OBVIOUS
<1>2. /\ h \in Heaps /\ Exact(h, In, C, P, {}) /\ Z \subseteq Shut(h)
      /\ h.budget \in 0..LowPrioBudget
      /\ ListensOK(h.listen, h.group, h.life)
      /\ ToldOK(h.life, h.semi, h.told, h.opened, h.given)
      /\ LinksOK(h.life, h.adopted, h.prev, h.next, h.prio)
      /\ h.life \in LifeMap /\ h.next \in PtrMap /\ h.semi \in Flags /\ h.opened \in SUBSET Sockets
  BY <1>1, WorldParts, HeapParts DEF Tidy
<1>3. s \notin In /\ s \notin C /\ s \notin P /\ h.prio[s] # 1
  BY <1>1, <1>2 DEF Open, Shut, Waits, LinksOK
<1>4. PICK u : u = [h EXCEPT !.life[s] = "open", !.semi[s] = semi,
                             !.opened = IF semi THEN @ ELSE @ \cup {s}]
  OBVIOUS
<1>5. /\ SameBut(h, u, OpensFields)
      /\ u.life = [h.life EXCEPT ![s] = "open"] /\ u.semi = [h.semi EXCEPT ![s] = semi]
      /\ u.opened = IF semi THEN h.opened ELSE h.opened \cup {s}
  <2>1. IsHeap(h) /\ {"life", "semi", "opened"} \subseteq Fields
    BY <1>2, HeapParts DEF Fields
  <2> QED BY ONLY <1>4, <2>1, Zenon DEF SameBut, IsHeap, OpensFields
<1>6. u \in Heaps
  BY <1>2, <1>5, TypesOf, HeapBut DEF LifeMap, Flags, Typed, OpensFields
<1>7. Exact(u, In, C, P, {g})
  BY <1>5, <1>2, <1>6, ExactOthers, ExactWeaker DEF SameBut, OtherFields, OpensFields
<1>8. /\ u.prio = h.prio /\ u.gone = h.gone /\ u.prev = h.prev /\ u.next = h.next
      /\ u.group = h.group /\ u.listen = h.listen /\ u.told = h.told /\ u.given = h.given
      /\ u.adopted = h.adopted /\ u.budget = h.budget
  BY <1>5 DEF SameBut, OpensFields, Fields
<1>9. Linkable(u, In, C, P, g, s) BY <1>3, <1>8 DEF Linkable
<1>10. k = LinkSocket(u, g, s) BY <1>4 DEF OpenSocket
<1>11. /\ Exact(k, In \cup {s}, C, P, {}) /\ SameBut(u, k, LinkedFields \cup LoopFields)
       /\ Headed(u, k, g, s) /\ Same(Sockets \ (In \cup {s}), k.prev, u.prev)
  BY <1>7, <1>9, <1>10, LinkSocketOK
<1>12. /\ k.prio = u.prio /\ k.gone = u.gone /\ k.listen = u.listen /\ k.told = u.told
       /\ k.given = u.given /\ k.adopted = u.adopted /\ k.budget = u.budget /\ k.life = u.life
       /\ k.semi = u.semi /\ k.opened = u.opened
  BY <1>11 DEF SameBut, LinkedFields, LoopFields, LinkFields, Fields
<1>13. k.life = [h.life EXCEPT ![s] = "open"] BY <1>5, <1>12
<1>14. Open(k) = In \cup {s} /\ Shut(k) = Shut(h)
  BY <1>1, <1>2, <1>13 DEF Open, Shut, LifeMap
<1>15. Tidy(k, Open(k), Shut(k) \ Z)
  <2>1. P = Waits(k, In \cup {s}) BY <1>1, <1>3, <1>8, <1>12 DEF Waits
  <2> QED BY <1>1, <1>11, <1>14, <2>1 DEF Tidy
<1>16. ListensOK(k.listen, k.group, k.life)
  BY <1>2, <1>8, <1>11, HeapParts, <1>12, <1>13 DEF Headed, ListensOK, LifeMap
<1>17. ToldOK(k.life, k.semi, k.told, k.opened, k.given)
  <2>1. h.told[s] = 0 /\ s \notin h.opened /\ s \notin h.given
    BY <1>2 DEF ToldOK
  <2>2. k.semi = [h.semi EXCEPT ![s] = semi] /\ k.told = h.told /\ k.given = h.given
        /\ k.opened = IF semi THEN h.opened ELSE h.opened \cup {s}
    BY <1>5, <1>8, <1>12
  <2>3. k.semi[s] = semi /\ \A x \in Sockets \ {s} : k.semi[x] = h.semi[x]
    BY <1>2, <2>2 DEF Flags
  <2> QED BY <1>2, <1>13, <2>1, <2>2, <2>3 DEF ToldOK, LifeMap
<1>18. LinksOK(k.life, k.adopted, k.prev, k.next, k.prio)
  <2>1. k.next = [h.next EXCEPT ![s] = u.head[g]]
    BY <1>8, <1>11 DEF Headed
  <2>2. \A x \in Sockets : x # s /\ h.life[x] # "open" =>
          k.prev[x] = h.prev[x] /\ k.next[x] = h.next[x] /\ k.life[x] = h.life[x]
    BY <1>1, <1>2, <1>8, <1>11, <1>13, <2>1 DEF Same, Open, LifeMap, PtrMap
  <2>3. ~h.adopted[s] BY <1>2 DEF LinksOK
  <2>4. \A x : InUse(h.life, x) => InUse(k.life, x)
    BY <1>2, <1>13 DEF InUse, LifeMap
  <2>5. k.life[s] = "open" /\ \A x \in Sockets : h.life[x] = "open" => k.life[x] = "open"
    BY <1>2, <1>13 DEF LifeMap
  <2> QED
    BY <1>2, <1>8, <1>12, <2>2, <2>3, <2>4, <2>5 DEF LinksOK, Leads
<1>19. Aged(h, k) BY <1>2, <1>13 DEF Aged, LifeMap
<1> QED
  BY <1>2, <1>3, <1>8, <1>12, <1>13, <1>14, <1>15, <1>16, <1>17, <1>18, <1>19 DEF World, Opens

ListensFields == {"life", "semi", "group", "listen"}
Listening(h, g, s) ==
  [h EXCEPT !.life[s] = "listen", !.semi[s] = TRUE, !.group[s] = g, !.listen[g] = s]

\* us_socket_group_listen.
LEMMA ListenOK ==
  ASSUME NEW h, NEW Z, World(h, Z), NEW s \in Sockets, h.life[s] = "unused",
         NEW g \in Groups, ~h.gone[g], h.listen[g] = Null,
         NEW u, u = Listening(h, g, s),
         NEW k, k = Touched(u, g)
  PROVE  World(k, Z) /\ Aged(h, k)
<1>1. PICK In, C, P : In = Open(h) /\ C = Shut(h) \ Z /\ P = Waits(h, In)
  OBVIOUS
<1>2. /\ h \in Heaps /\ Exact(h, In, C, P, {}) /\ Z \subseteq Shut(h)
      /\ h.budget \in 0..LowPrioBudget
      /\ ListensOK(h.listen, h.group, h.life)
      /\ ToldOK(h.life, h.semi, h.told, h.opened, h.given)
      /\ LinksOK(h.life, h.adopted, h.prev, h.next, h.prio)
      /\ h.life \in LifeMap /\ h.semi \in Flags /\ h.group \in [Sockets -> GroupPtr]
      /\ h.listen \in [Groups -> Ptr]
  BY <1>1, WorldParts, HeapParts DEF Tidy
<1>3. s \notin In /\ s \notin C /\ s \notin P
  BY <1>1, <1>2 DEF Open, Shut, Waits
<1>4. /\ SameBut(h, u, ListensFields)
      /\ u.life = [h.life EXCEPT ![s] = "listen"] /\ u.semi = [h.semi EXCEPT ![s] = TRUE]
      /\ u.group = [h.group EXCEPT ![s] = g] /\ u.listen = [h.listen EXCEPT ![g] = s]
  <2>1. IsHeap(h) /\ {"life", "semi", "group", "listen"} \subseteq Fields
    BY <1>2, HeapParts DEF Fields
  <2> QED
    BY ONLY <2>1, u = Listening(h, g, s), Zenon DEF SameBut, IsHeap, ListensFields, Listening
<1>5. u \in Heaps
  <2>1. u.life \in LifeMap /\ u.semi \in Flags
    BY <1>2, <1>4 DEF LifeMap, Flags
  <2>2. u.group \in [Sockets -> GroupPtr] BY <1>2, <1>4 DEF GroupPtr
  <2>3. u.listen \in [Groups -> Ptr] BY <1>2, <1>4 DEF Ptr
  <2>4. Typed(u, ListensFields)
    BY <2>1, <2>2, <2>3, TypesOf DEF Typed, ListensFields
  <2> QED BY <1>2, <1>4, <2>4, HeapBut
<1>6. /\ u.next = h.next /\ u.prev = h.prev /\ u.head = h.head /\ u.lowHead = h.lowHead
      /\ u.prio = h.prio /\ u.closedHead = h.closedHead
      /\ u.count = h.count /\ u.sweep = h.sweep /\ u.iter = h.iter
      /\ u.gnext = h.gnext /\ u.gprev = h.gprev /\ u.loopHead = h.loopHead
      /\ u.loopIter = h.loopIter /\ u.linked = h.linked /\ u.gone = h.gone
      /\ u.told = h.told /\ u.opened = h.opened /\ u.given = h.given
      /\ u.adopted = h.adopted /\ u.budget = h.budget
  BY <1>4 DEF SameBut, ListensFields, Fields
<1>7. In \subseteq Sockets /\ P \subseteq In BY <1>1 DEF Open, Waits
<1>8. Exact(u, In, C, P, {g})
  <2>1. Same(In, u.group, h.group) /\ Same(P, u.group, h.group)
    BY <1>2, <1>3, <1>4, <1>7 DEF Same
  <2>2. SocketLists(u.next, u.prev, u.head, u.lowHead, u.closedHead, u.prio, u.group, In, C)
    <3>1. /\ SocketLists(h.next, h.prev, h.head, h.lowHead, h.closedHead, h.prio, h.group, In, C)
          /\ Same(In, h.next, h.next) /\ Same(C, h.next, h.next) /\ Same(In, h.prev, h.prev)
          /\ Same(In, h.prio, h.prio)
      BY <1>2 DEF Exact, Same
    <3>2. SocketLists(h.next, h.prev, h.head, h.lowHead, h.closedHead, h.prio, u.group, In, C)
      BY ONLY <2>1, <3>1, ListsSame
    <3> QED BY <1>6, <3>2
  <2>3. Counts(u.count, u.sweep, u.prio, u.group, In, P)
    <3>1. Counts(h.count, h.sweep, h.prio, h.group, In, P)
      BY <1>2 DEF Exact
    <3>2. Counts(h.count, h.sweep, h.prio, u.group, In, P)
      BY ONLY <2>1, <3>1, CountsSame
    <3> QED BY <1>6, <3>2
  <2>4. Cursors(u.iter, u.prio, u.group, In)
    BY <1>2, <1>6, <2>1 DEF Exact, Cursors, Same
  <2>5. Busy(u.linked, u.head, u.listen, u.count, {g})
    BY <1>2, <1>4, <1>6 DEF Exact, Busy
  <2>6. LoopOK(u.gnext, u.gprev, u.loopHead, u.loopIter, u.linked, u.gone)
    BY <1>2, <1>6 DEF Exact
  <2> QED BY <1>5, <2>2, <2>3, <2>4, <2>5, <2>6 DEF Exact
<1>9. ~IsEmpty(u, g) /\ ~u.gone[g]
  BY <1>2, <1>4, <1>6, Bounds DEF IsEmpty
<1>10. Exact(k, In, C, P, {}) /\ SameBut(u, k, LoopFields)
  <2>1. PICK E : E = {g} OBVIOUS
  <2>2. PICK F : F = E \ {g} OBVIOUS
  <2>3. F = {} /\ Exact(u, In, C, P, E) BY <1>8, <2>1, <2>2
  <2>4. Exact(k, In, C, P, F) /\ SameBut(u, k, LoopFields)
    BY ONLY g \in Groups, <1>9, k = Touched(u, g), <2>2, <2>3, ExactTouched
  <2> QED BY <2>3, <2>4
<1>11. /\ k.next = u.next /\ k.prev = u.prev /\ k.prio = u.prio /\ k.life = u.life
       /\ k.semi = u.semi /\ k.group = u.group /\ k.listen = u.listen
       /\ k.told = u.told /\ k.opened = u.opened /\ k.given = u.given
       /\ k.adopted = u.adopted /\ k.budget = u.budget
  BY <1>10 DEF SameBut, LoopFields, LinkFields, Fields
<1>12. k.life = [h.life EXCEPT ![s] = "listen"] BY <1>4, <1>11
<1>13. Open(k) = In /\ Shut(k) = Shut(h)
  BY <1>1, <1>2, <1>12 DEF Open, Shut, LifeMap
<1>14. Tidy(k, Open(k), Shut(k) \ Z)
  BY <1>1, <1>6, <1>10, <1>11, <1>13 DEF Tidy, Waits
<1>15. ListensOK(k.listen, k.group, k.life)
  <2>1. k.group = [h.group EXCEPT ![s] = g] /\ k.listen = [h.listen EXCEPT ![g] = s]
    BY <1>4, <1>11
  <2>2. /\ k.group[s] = g /\ \A x \in Sockets \ {s} : k.group[x] = h.group[x]
        /\ k.listen[g] = s /\ \A x \in Groups \ {g} : k.listen[x] = h.listen[x]
        /\ k.life[s] = "listen" /\ \A x \in Sockets \ {s} : k.life[x] = h.life[x]
    BY <1>2, <1>12, <2>1 DEF LifeMap
  <2>3. \A x \in Sockets \ {s} : h.life[x] = "listen" => h.group[x] # g
    BY <1>2, Bounds DEF ListensOK
  <2> QED BY <1>2, <2>2, <2>3 DEF ListensOK
<1>16. ToldOK(k.life, k.semi, k.told, k.opened, k.given)
  BY <1>2, <1>4, <1>11, <1>6, <1>12 DEF ToldOK, Flags, LifeMap
<1>17. LinksOK(k.life, k.adopted, k.prev, k.next, k.prio)
  BY <1>2, <1>6, <1>11, <1>12 DEF LinksOK, Leads, InUse, LifeMap
<1>18. Aged(h, k) BY <1>2, <1>12 DEF Aged, LifeMap
<1> QED
  BY <1>2, <1>6, <1>11, <1>13, <1>14, <1>15, <1>16, <1>17, <1>18 DEF World

-----------------------------------------------------------------------------
(* Ticks and polls.                                                        *)

\* What is neither opened nor closed.
LEMMA LinksStay ==
  ASSUME NEW h, NEW Z, World(h, Z), NEW In, In = Open(h), NEW prev2, NEW next2, NEW prio2,
         Same(Sockets \ In, prev2, h.prev), Same(Sockets \ In, next2, h.next),
         Same(Sockets \ In, prio2, h.prio)
  PROVE  LinksOK(h.life, h.adopted, prev2, next2, prio2)
<1>1. LinksOK(h.life, h.adopted, h.prev, h.next, h.prio) BY WorldParts
<1>2. Closes(In, h.life, h.life, next2) BY DEF Closes, Same, Open
<1> QED BY <1>1, <1>2, LinksKept

\* us_internal_loop_pre: the low-priority queue gets its turn.
LEMMA BeginTickOK ==
  ASSUME NEW h, NEW Z, World(h, Z), NEW k, k = HandleLowPriority(h)
  PROVE  World(k, Z) /\ k.life = h.life
<1>1. PICK In, C : In = Open(h) /\ C = Shut(h) \ Z OBVIOUS
<1>2. /\ Tidy(h, In, C) /\ Z \subseteq Shut(h)
      /\ ListensOK(h.listen, h.group, h.life)
      /\ ToldOK(h.life, h.semi, h.told, h.opened, h.given)
  BY <1>1, WorldParts
<1>3. \A s \in In : ~IsClosed(h, s) BY <1>1 DEF Open, IsClosed
<1>4. Turned(h, k, In, C) /\ k.budget \in 0..LowPrioBudget
  BY <1>2, <1>3, HandleLowPriorityOK
<1>5. /\ Tidy(k, In, C) /\ SameBut(h, k, UnparkFields) /\ k.group = h.group
      /\ Same(Sockets \ In, k.prev, h.prev) /\ Same(Sockets \ In, k.next, h.next)
      /\ Same(Sockets \ In, k.prio, h.prio)
  BY <1>4 DEF Turned
<1>6. /\ k.life = h.life /\ k.listen = h.listen /\ k.semi = h.semi /\ k.told = h.told
      /\ k.opened = h.opened /\ k.given = h.given /\ k.adopted = h.adopted
  BY <1>5 DEF SameBut, UnparkFields, UnqueuedFields, LinkedFields, LoopFields, LinkFields, Fields
<1>7. Open(k) = In /\ Shut(k) = Shut(h) BY <1>1, <1>6 DEF Open, Shut
<1>8. LinksOK(h.life, h.adopted, k.prev, k.next, k.prio)
  BY ONLY World(h, Z), <1>1, <1>5, LinksStay
<1> QED BY <1>1, <1>2, <1>4, <1>5, <1>6, <1>7, <1>8 DEF World

\* us_internal_dispatch_ready_poll of a handshake that has to wait.
LEMMA ParkWorld ==
  ASSUME NEW h, NEW Z, World(h, Z), NEW s \in Open(h), h.prio[s] # 1, NEW k, k = Park(h, s)
  PROVE  World(k, Z) /\ k.life = h.life /\ k.gone = h.gone
<1>1. PICK In, C, P : In = Open(h) /\ C = Shut(h) \ Z /\ P = Waits(h, In)
  OBVIOUS
<1>2. /\ Exact(h, In, C, P, {}) /\ Z \subseteq Shut(h) /\ h.budget \in 0..LowPrioBudget
      /\ ListensOK(h.listen, h.group, h.life)
      /\ ToldOK(h.life, h.semi, h.told, h.opened, h.given) /\ h.prio \in [Sockets -> 0..2]
  BY <1>1, WorldParts DEF Tidy
<1>3. s \in In /\ s \notin P /\ s \in Sockets BY <1>1 DEF Waits, Open
<1>4. /\ Exact(k, In, C, P \cup {s}, {}) /\ SameBut(h, k, ParkFields)
      /\ k.prio = [h.prio EXCEPT ![s] = 1]
      /\ Same(Sockets \ In, k.prev, h.prev) /\ Same(Sockets \ In, k.next, h.next)
  <2>1. Parkable(h, In, P, s) BY <1>3 DEF Parkable
  <2>2. /\ Exact(k, In, C, P \cup {s}, {}) /\ SameBut(h, k, ParkFields)
        /\ Resets(h, k, s, 1)
        /\ Same(Sockets \ In, k.prev, h.prev) /\ Same(Sockets \ In, k.next, h.next)
    BY <1>2, <2>1, ParkOK
  <2> QED BY <2>2 DEF Resets
<1>5. /\ k.life = h.life /\ k.listen = h.listen /\ k.semi = h.semi /\ k.told = h.told
      /\ k.opened = h.opened /\ k.given = h.given /\ k.adopted = h.adopted /\ k.group = h.group
      /\ k.gone = h.gone /\ k.budget = h.budget
  BY <1>4 DEF SameBut, ParkFields, ParkingFields, UnlinkedFields, LoopFields, LinkFields, Fields
<1>6. Open(k) = In /\ Shut(k) = Shut(h) BY <1>1, <1>5 DEF Open, Shut
<1>7. Tidy(k, In, C)
  <2>1. P \cup {s} = Waits(k, In)
    BY <1>1, <1>2, <1>4, <1>3 DEF Open, Waits
  <2> QED BY <1>4, <2>1 DEF Tidy
<1>8. Same(Sockets \ In, k.prio, h.prio) BY <1>2, <1>3, <1>4 DEF Same
<1>9. LinksOK(h.life, h.adopted, k.prev, k.next, k.prio)
  BY ONLY World(h, Z), <1>1, <1>4, <1>8, LinksStay
<1> QED BY <1>1, <1>2, <1>5, <1>6, <1>7, <1>9 DEF World

Calmed(h, s) == [h EXCEPT !.prio[s] = 0]
Spent(h) == [h EXCEPT !.budget = @ - 1]
Shaken(h, s) == [h EXCEPT !.hs[s] = "done"]

\* A socket that was woken reads: its priority is normal again.
LEMMA CalmedOK ==
  ASSUME NEW h, NEW Z, World(h, Z), NEW s \in Open(h), h.prio[s] = 2, NEW k, k = Calmed(h, s)
  PROVE  World(k, Z) /\ k.life = h.life
<1>1. PICK In, C, P : In = Open(h) /\ C = Shut(h) \ Z /\ P = Waits(h, In)
  OBVIOUS
<1>2. /\ h \in Heaps /\ Exact(h, In, C, P, {}) /\ Z \subseteq Shut(h)
      /\ h.budget \in 0..LowPrioBudget
      /\ ListensOK(h.listen, h.group, h.life)
      /\ ToldOK(h.life, h.semi, h.told, h.opened, h.given)
      /\ LinksOK(h.life, h.adopted, h.prev, h.next, h.prio)
      /\ h.prio \in [Sockets -> 0..2]
  BY <1>1, WorldParts DEF Tidy
<1>3. SameBut(h, k, {"prio"}) /\ k.prio = [h.prio EXCEPT ![s] = 0]
  <2>1. IsHeap(h) /\ "prio" \in Fields BY <1>2, HeapParts DEF Fields
  <2> QED
    BY ONLY <2>1, k = Calmed(h, s), Zenon DEF SameBut, IsHeap, Calmed
<1>4. s \in Sockets /\ h.life[s] = "open" /\ s \in In BY <1>1 DEF Open
<1>5. k.prio \in [Sockets -> 0..2] /\ \A x \in Sockets : k.prio[x] = IF x = s THEN 0 ELSE h.prio[x]
  BY <1>2, <1>3, <1>4
<1>6. \A x \in Sockets : k.prio[x] = 1 <=> h.prio[x] = 1 BY <1>5
<1>7. k \in Heaps BY <1>5, TypesOf, <1>2, <1>3, HeapBut DEF Typed
<1>8. /\ k.life = h.life /\ k.listen = h.listen /\ k.semi = h.semi /\ k.told = h.told
      /\ k.opened = h.opened /\ k.given = h.given /\ k.adopted = h.adopted /\ k.budget = h.budget
      /\ k.next = h.next /\ k.prev = h.prev /\ k.head = h.head /\ k.lowHead = h.lowHead
      /\ k.closedHead = h.closedHead /\ k.group = h.group /\ k.count = h.count
      /\ k.sweep = h.sweep /\ k.iter = h.iter /\ k.gnext = h.gnext /\ k.gprev = h.gprev
      /\ k.loopHead = h.loopHead /\ k.loopIter = h.loopIter /\ k.linked = h.linked
      /\ k.gone = h.gone
  BY <1>3 DEF SameBut, Fields
<1>9. Exact(k, In, C, P, {})
  <2>1. Places(k.prio, h.group) = Places(h.prio, h.group)
    BY <1>6 DEF Places
  <2>2. SocketLists(k.next, k.prev, k.head, k.lowHead, k.closedHead, k.prio, k.group, In, C)
    BY <1>2, <1>8, <2>1 DEF Exact, SocketLists
  <2>3. In \subseteq Sockets BY <1>1 DEF Open
  <2>4. {x \in In : k.prio[x] # 1} = {x \in In : h.prio[x] # 1}
    BY <1>6, <2>3
  <2>5. Counts(k.count, k.sweep, k.prio, k.group, In, P)
    <3>1. Counts(h.count, h.sweep, h.prio, h.group, In, P)
      BY <1>2 DEF Exact
    <3>2. Counts(h.count, h.sweep, k.prio, h.group, In, P)
      BY ONLY <2>4, <3>1 DEF Counts
    <3> QED BY <1>8, <3>2
  <2>6. Cursors(k.iter, k.prio, k.group, In)
    BY <1>2, <1>6, <1>8, <2>3 DEF Exact, Cursors
  <2> QED BY <1>2, <1>7, <1>8, <2>2, <2>5, <2>6 DEF Exact
<1>10. Open(k) = In /\ Shut(k) = Shut(h) BY <1>1, <1>8 DEF Open, Shut
<1>11. Tidy(k, In, C) BY <1>1, <1>6, <1>9 DEF Waits, Open, Tidy
<1>12. LinksOK(k.life, k.adopted, k.prev, k.next, k.prio)
  BY <1>2, <1>6, <1>8 DEF LinksOK
<1> QED BY <1>1, <1>2, <1>8, <1>10, <1>11, <1>12 DEF World

\* A handshake uses the budget of the iteration.
LEMMA SpentOK ==
  ASSUME NEW h, NEW Z, World(h, Z), h.budget # 0, NEW k, k = Spent(h)
  PROVE  World(k, Z) /\ k.life = h.life
<1>1. PICK In, C : In = Open(h) /\ C = Shut(h) \ Z OBVIOUS
<1>2. /\ h \in Heaps /\ Tidy(h, In, C) /\ Z \subseteq Shut(h) /\ h.budget \in 0..LowPrioBudget
      /\ ListensOK(h.listen, h.group, h.life)
      /\ ToldOK(h.life, h.semi, h.told, h.opened, h.given)
      /\ LinksOK(h.life, h.adopted, h.prev, h.next, h.prio)
  BY <1>1, WorldParts
<1>3. SameBut(h, k, {"budget"}) /\ k.budget = h.budget - 1
  <2>1. IsHeap(h) /\ "budget" \in Fields BY <1>2, HeapParts DEF Fields
  <2> QED BY ONLY <2>1, k = Spent(h), Zenon DEF SameBut, IsHeap, Spent
<1>4. k.budget \in 0..LowPrioBudget /\ k.budget \in Int
  BY <1>2, <1>3, Bounds
<1>5. k \in Heaps BY <1>4, TypesOf, <1>2, <1>3, HeapBut DEF Typed
<1>6. Tidy(k, In, C)
  BY <1>3, <1>2, <1>5, TidyOthers DEF SameBut, OtherFields
<1>7. /\ k.life = h.life /\ k.listen = h.listen /\ k.semi = h.semi /\ k.told = h.told
      /\ k.opened = h.opened /\ k.given = h.given /\ k.adopted = h.adopted
      /\ k.next = h.next /\ k.prev = h.prev /\ k.prio = h.prio /\ k.group = h.group
  BY <1>3 DEF SameBut, Fields
<1>8. Open(k) = In /\ Shut(k) = Shut(h) BY <1>1, <1>7 DEF Open, Shut
<1> QED BY <1>1, <1>2, <1>4, <1>6, <1>7, <1>8 DEF World

\* The handshake is done.
LEMMA ShakenOK ==
  ASSUME NEW h, NEW Z, World(h, Z), NEW s \in Sockets, NEW k, k = Shaken(h, s)
  PROVE  World(k, Z) /\ k.life = h.life
<1>1. h \in Heaps /\ IsHeap(h) /\ h.hs \in [Sockets -> {"init", "done", "failed"}] /\ "hs" \in Fields
  BY WorldParts, HeapParts DEF Fields
<1>2. k.hs = [h.hs EXCEPT ![s] = "done"] /\ SameBut(h, k, {"hs"})
  BY ONLY <1>1, k = Shaken(h, s), Zenon DEF SameBut, IsHeap, Shaken
<1>3. k \in Heaps BY <1>1, <1>2, TypesOf, HeapBut DEF Typed
<1>4. SameBut(h, k, PlainFields) BY <1>2 DEF SameBut, PlainFields
<1> QED BY <1>3, <1>4, WorldPlain

\* us_internal_dispatch_ready_poll of a handshake that goes on, or of any other socket.
LEMMA AdmittedOK ==
  ASSUME NEW h, NEW Z, World(h, Z), NEW s \in Open(h), ~Parks(h, s), NEW k \in Admitted(h, s)
  PROVE  World(k, Z) /\ k.life = h.life
<1>1. s \in Sockets BY DEF Open
<1>2. CASE ~LowPrio(h, s) BY <1>2 DEF Admitted
<1>3. CASE LowPrio(h, s) /\ h.prio[s] = 2
  <2>1. PICK a : a = Calmed(h, s) OBVIOUS
  <2>2. World(a, Z) /\ a.life = h.life BY <1>3, <2>1, CalmedOK
  <2>3. k = a \/ k = Shaken(a, s)
    BY <1>3, <2>1 DEF Admitted, Calmed, Shaken
  <2>4. CASE k = Shaken(a, s) BY <1>1, <2>2, <2>4, ShakenOK
  <2> QED BY <2>2, <2>3, <2>4
<1>4. CASE LowPrio(h, s) /\ h.prio[s] # 2
  <2>1. PICK a : a = Spent(h) OBVIOUS
  <2>2. h.budget # 0 BY <1>4 DEF Parks
  <2>3. World(a, Z) /\ a.life = h.life BY <2>1, <2>2, SpentOK
  <2>4. k = a \/ k = Shaken(a, s)
    BY <1>4, <2>1 DEF Admitted, Spent, Shaken
  <2>5. CASE k = Shaken(a, s) BY <1>1, <2>3, <2>5, ShakenOK
  <2> QED BY <2>3, <2>4, <2>5
<1> QED BY <1>2, <1>3, <1>4

\* A connect that opens.
Connected(h, s) == [h EXCEPT !.semi[s] = FALSE, !.timeout[s] = Off, !.opened = @ \cup {s}]
ConnectedFields == {"semi", "timeout", "opened"}

\* us_internal_socket_after_open.
LEMMA ConnectedOK ==
  ASSUME NEW h, NEW Z, World(h, Z), NEW s \in Open(h), NEW k, k = Connected(h, s)
  PROVE  World(k, Z) /\ k.life = h.life
<1>1. PICK In, C : In = Open(h) /\ C = Shut(h) \ Z OBVIOUS
<1>2. /\ h \in Heaps /\ Tidy(h, In, C) /\ Z \subseteq Shut(h) /\ h.budget \in 0..LowPrioBudget
      /\ ListensOK(h.listen, h.group, h.life)
      /\ ToldOK(h.life, h.semi, h.told, h.opened, h.given)
      /\ LinksOK(h.life, h.adopted, h.prev, h.next, h.prio)
      /\ h.semi \in Flags /\ h.opened \in SUBSET Sockets /\ h.timeout \in [Sockets -> 0..Lap]
  BY <1>1, WorldParts, HeapParts
<1>3. /\ SameBut(h, k, ConnectedFields) /\ k.semi = [h.semi EXCEPT ![s] = FALSE]
      /\ k.timeout = [h.timeout EXCEPT ![s] = Off] /\ k.opened = h.opened \cup {s}
  <2>1. IsHeap(h) /\ {"semi", "timeout", "opened"} \subseteq Fields
    BY <1>2, HeapParts DEF Fields
  <2> QED
    BY ONLY <2>1, k = Connected(h, s), Zenon DEF SameBut, IsHeap, Connected, ConnectedFields
<1>4. s \in Sockets /\ h.life[s] = "open" BY DEF Open
<1>5. k \in Heaps
  <2>1. k.semi \in Flags /\ k.opened \in SUBSET Sockets
    BY <1>2, <1>3, <1>4 DEF Flags
  <2>2. k.timeout \in [Sockets -> 0..Lap]
    BY <1>2, <1>3, <1>4, Bounds DEF Off
  <2>3. Typed(k, ConnectedFields)
    BY <2>1, <2>2, TypesOf DEF Typed, ConnectedFields
  <2> QED BY <1>2, <1>3, <2>3, HeapBut
<1>6. Tidy(k, In, C)
  BY <1>3, <1>2, <1>5, TidyOthers DEF SameBut, OtherFields, ConnectedFields
<1>7. /\ k.life = h.life /\ k.listen = h.listen /\ k.told = h.told
      /\ k.given = h.given /\ k.adopted = h.adopted /\ k.budget = h.budget
      /\ k.next = h.next /\ k.prev = h.prev /\ k.prio = h.prio /\ k.group = h.group
  BY <1>3 DEF SameBut, Fields, ConnectedFields
<1>8. Open(k) = In /\ Shut(k) = Shut(h) BY <1>1, <1>7 DEF Open, Shut
<1>9. ToldOK(k.life, k.semi, k.told, k.opened, k.given)
  BY <1>2, <1>3, <1>4, <1>7 DEF Flags, ToldOK
<1> QED BY <1>1, <1>2, <1>6, <1>7, <1>8, <1>9 DEF World

\* What the history and the links do not depend on.
CoreFields == {"iter", "loopIter", "gone"}

LEMMA WorldCore ==
  ASSUME NEW h, NEW Z, World(h, Z), NEW k, SameBut(h, k, CoreFields),
         Exact(k, Open(h), Shut(h) \ Z, Waits(h, Open(h)), {})
  PROVE  World(k, Z) /\ k.life = h.life
<1>1. /\ k.life = h.life /\ k.prio = h.prio /\ k.prev = h.prev /\ k.budget = h.budget
      /\ k.next = h.next /\ k.listen = h.listen /\ k.group = h.group /\ k.semi = h.semi
      /\ k.told = h.told /\ k.opened = h.opened /\ k.given = h.given /\ k.adopted = h.adopted
  BY DEF SameBut, CoreFields, Fields
<1>2. Open(k) = Open(h) /\ Shut(k) = Shut(h) BY <1>1 DEF Open, Shut
<1>3. Tidy(k, Open(k), Shut(k) \ Z) BY <1>1, <1>2 DEF Tidy, Waits
<1> QED BY <1>1, <1>2, <1>3, WorldParts DEF World

Stopped(h, k, g, x) == SameBut(h, k, {"iter"}) /\ k.iter = [h.iter EXCEPT ![g] = x]

\* The cursor of a group: null, or a socket on its list.
CursorAt(h, g, x) == x = Null \/ (x \in Open(h) /\ h.prio[x] # 1 /\ h.group[x] = g)

LEMMA CursorWorld ==
  ASSUME NEW h, NEW Z, World(h, Z), NEW g \in Groups, NEW x, CursorAt(h, g, x),
         NEW k, Stopped(h, k, g, x)
  PROVE  World(k, Z) /\ k.life = h.life
<1>1. PICK In, C, P : In = Open(h) /\ C = Shut(h) \ Z /\ P = Waits(h, In)
  OBVIOUS
<1>2. h \in Heaps /\ Exact(h, In, C, P, {}) /\ h.iter \in [Groups -> Ptr]
  BY <1>1, WorldParts, HeapParts DEF Tidy
<1>3. SameBut(h, k, {"iter"}) /\ k.iter = [h.iter EXCEPT ![g] = x]
  BY DEF Stopped
<1>4. k \in Heaps
  BY <1>2, <1>3, TypesOf, HeapBut DEF CursorAt, Open, Ptr, Typed
<1>5. /\ k.next = h.next /\ k.prev = h.prev /\ k.head = h.head /\ k.lowHead = h.lowHead
      /\ k.closedHead = h.closedHead /\ k.group = h.group /\ k.count = h.count
      /\ k.sweep = h.sweep /\ k.gnext = h.gnext /\ k.gprev = h.gprev
      /\ k.loopHead = h.loopHead /\ k.loopIter = h.loopIter /\ k.linked = h.linked
      /\ k.gone = h.gone /\ k.prio = h.prio /\ k.listen = h.listen
  BY <1>3 DEF SameBut, Fields
<1>6. Cursors(k.iter, h.prio, h.group, In)
  BY <1>1, <1>2, <1>3 DEF Exact, Cursors, CursorAt
<1>7. Exact(k, In, C, P, {}) BY <1>2, <1>4, <1>5, <1>6 DEF Exact
<1>8. SameBut(h, k, CoreFields) BY <1>3 DEF SameBut, CoreFields
<1> QED BY <1>1, <1>7, <1>8, WorldCore

Moved(h, k, x) == SameBut(h, k, {"loopIter"}) /\ k.loopIter = x

LEMMA LoopIterWorld ==
  ASSUME NEW h, NEW Z, World(h, Z), NEW x, x \in OnLoop(h.linked) \cup {Null}, NEW k, Moved(h, k, x)
  PROVE  World(k, Z) /\ k.life = h.life
<1>1. PICK In, C, P : In = Open(h) /\ C = Shut(h) \ Z /\ P = Waits(h, In)
  OBVIOUS
<1>2. h \in Heaps /\ Exact(h, In, C, P, {})
  BY <1>1, WorldParts DEF Tidy
<1>3. SameBut(h, k, {"loopIter"}) /\ k.loopIter = x BY DEF Moved
<1>4. k \in Heaps
  BY <1>3, TypesOf, <1>2, HeapBut DEF OnLoop, GroupPtr, Typed
<1>5. /\ k.next = h.next /\ k.prev = h.prev /\ k.head = h.head /\ k.lowHead = h.lowHead
      /\ k.closedHead = h.closedHead /\ k.group = h.group /\ k.count = h.count
      /\ k.sweep = h.sweep /\ k.gnext = h.gnext /\ k.gprev = h.gprev
      /\ k.loopHead = h.loopHead /\ k.iter = h.iter /\ k.linked = h.linked
      /\ k.gone = h.gone /\ k.prio = h.prio /\ k.listen = h.listen
  BY <1>3 DEF SameBut, Fields
<1>6. LoopOK(h.gnext, h.gprev, h.loopHead, x, h.linked, h.gone)
  BY <1>2 DEF Exact, LoopOK, OnLoop
<1>7. Exact(k, In, C, P, {}) BY <1>2, <1>3, <1>4, <1>5, <1>6 DEF Exact
<1>8. SameBut(h, k, CoreFields) BY <1>3 DEF SameBut, CoreFields
<1> QED BY <1>1, <1>7, <1>8, WorldCore

\* Where the loop's iterator may go: the first group, and the group after one.
LEMMA LoopNodes ==
  ASSUME NEW h, NEW Z, World(h, Z)
  PROVE  /\ h.loopHead \in OnLoop(h.linked) \cup {Null}
         /\ h.loopIter \in OnLoop(h.linked) \cup {Null}
         /\ \A g \in OnLoop(h.linked) : h.gnext[g] \in OnLoop(h.linked) \cup {Null}
<1>1. /\ LoopOK(h.gnext, h.gprev, h.loopHead, h.loopIter, h.linked, h.gone)
      /\ h.loopIter \in GroupPtr
  BY WorldParts, HeapParts DEF Tidy, Exact
<1>2. PICK r, hi : Listed(Groups, {Null}, h.gnext, h.gprev, Root(h.loopHead), OnLoop(h.linked),
                          Rooted, r, hi)
  BY <1>1 DEF LoopOK, LoopList
<1>3. Linked({Null}, h.gnext, h.gprev, Root(h.loopHead), OnLoop(h.linked), Rooted, r)
  BY <1>2 DEF Listed
<1>4. h.loopHead \in OnLoop(h.linked) \cup {Null}
  BY <1>3 DEF Linked, HeadOK, Root
<1>5. \A g \in OnLoop(h.linked) : h.gnext[g] \in OnLoop(h.linked) \cup {Null}
  BY <1>3 DEF Linked, NodeOK
<1>6. h.loopIter \in OnLoop(h.linked) \cup {Null}
  BY <1>1 DEF LoopOK, OnLoop, GroupPtr
<1> QED BY <1>4, <1>5, <1>6

Freed(h, g) == [h EXCEPT !.gone[g] = TRUE]

\* us_socket_group_deinit: an empty group is off the loop already.
LEMMA DeinitOK ==
  ASSUME NEW h, NEW Z, World(h, Z), NEW g \in Groups, IsEmpty(h, g), NEW k, k = Freed(h, g)
  PROVE  World(k, Z) /\ k.life = h.life /\ ~h.linked[g]
<1>1. PICK In, C, P : In = Open(h) /\ C = Shut(h) \ Z /\ P = Waits(h, In)
  OBVIOUS
<1>2. h \in Heaps /\ Exact(h, In, C, P, {}) /\ h.gone \in [Groups -> BOOLEAN]
  BY <1>1, WorldParts, HeapParts DEF Tidy
<1>3. SameBut(h, k, {"gone"}) /\ k.gone = [h.gone EXCEPT ![g] = TRUE]
  <2>1. IsHeap(h) /\ "gone" \in Fields BY <1>2, HeapParts DEF Fields
  <2> QED
    BY ONLY <2>1, k = Freed(h, g), Zenon DEF SameBut, IsHeap, Freed
<1>4. k \in Heaps
  <2>1. PICK f : f = h.gone OBVIOUS
  <2>2. f \in [Groups -> BOOLEAN] /\ k.gone = [f EXCEPT ![g] = TRUE]
    BY <1>2, <1>3, <2>1
  <2>3. k.gone \in [Groups -> BOOLEAN] BY ONLY <2>2
  <2>4. Typed(k, {"gone"}) BY <2>3, TypesOf DEF Typed
  <2> QED BY <1>2, <1>3, <2>4, HeapBut
<1>5. /\ k.next = h.next /\ k.prev = h.prev /\ k.head = h.head /\ k.lowHead = h.lowHead
      /\ k.closedHead = h.closedHead /\ k.group = h.group /\ k.count = h.count
      /\ k.sweep = h.sweep /\ k.gnext = h.gnext /\ k.gprev = h.gprev
      /\ k.loopHead = h.loopHead /\ k.iter = h.iter /\ k.linked = h.linked
      /\ k.loopIter = h.loopIter /\ k.prio = h.prio /\ k.listen = h.listen
  BY <1>3 DEF SameBut, Fields
<1>6. ~h.linked[g] BY <1>2 DEF Exact, Busy, IsEmpty
<1>7. LoopOK(h.gnext, h.gprev, h.loopHead, h.loopIter, h.linked, k.gone)
  BY <1>2, <1>3, <1>6 DEF Exact, LoopOK
<1>8. Exact(k, In, C, P, {}) BY <1>2, <1>4, <1>5, <1>7 DEF Exact
<1>9. SameBut(h, k, CoreFields) BY <1>3 DEF SameBut, CoreFields
<1> QED BY <1>1, <1>6, <1>8, <1>9, WorldCore

Clear(D, f, v) == [s \in Sockets |-> IF s \in D THEN v ELSE f[s]]
FreedFields ==
  {"life", "closedHead", "next", "prev", "group", "hs", "prio", "reads", "timeout", "long"}
FreeingAll(h, D) ==
  [h EXCEPT !.life = Clear(D, @, "freed"), !.closedHead = Null,
            !.next = Clear(D, @, Null), !.prev = Clear(D, @, Null),
            !.group = Clear(D, @, Null), !.hs = Clear(D, @, "init"),
            !.prio = Clear(D, @, 0), !.reads = Clear(D, @, TRUE),
            !.timeout = Clear(D, @, Off), !.long = Clear(D, @, Off)]

\* us_internal_free_closed_sockets, when no on_close is under way.
LEMMA FreeClosedOK ==
  ASSUME NEW h, NEW Z, Z = {}, World(h, Z), NEW k, k = FreeClosed(h)
  PROVE  World(k, Z)
<1>1. PICK In, C, P : In = Open(h) /\ C = Shut(h) /\ P = Waits(h, In)
  OBVIOUS
<1>2. /\ h \in Heaps /\ Exact(h, In, C, P, {})
      /\ h.budget \in 0..LowPrioBudget
      /\ ListensOK(h.listen, h.group, h.life)
      /\ ToldOK(h.life, h.semi, h.told, h.opened, h.given)
      /\ LinksOK(h.life, h.adopted, h.prev, h.next, h.prio)
      /\ h.life \in LifeMap /\ h.prio \in [Sockets -> 0..2]
      /\ h.next \in PtrMap /\ h.prev \in PtrMap
  BY <1>1, WorldParts DEF Tidy
<1>3. /\ h.group \in [Sockets -> GroupPtr] /\ h.hs \in [Sockets -> {"init", "done", "failed"}]
      /\ h.reads \in Flags /\ h.timeout \in [Sockets -> 0..Lap] /\ h.long \in [Sockets -> 0..Lap]
      /\ IsHeap(h)
  BY <1>2, HeapParts
<1>4. SocketLists(h.next, h.prev, h.head, h.lowHead, h.closedHead, h.prio, h.group, In, C)
  BY <1>2 DEF Exact
<1>5. Chain(h.next, h.closedHead) = C
  <2>1. /\ Same(In, h.next, h.next) /\ Same(In, h.prev, h.prev) /\ Same(In, h.prio, h.prio)
        /\ Same(In, h.group, h.group)
    BY DEF Same
  <2>2. PICK nx, pv, prio, group :
          nx = h.next /\ pv = h.prev /\ prio = h.prio /\ group = h.group
    OBVIOUS
  <2>3. /\ SocketLists(nx, pv, h.head, h.lowHead, h.closedHead, prio, group, In, C)
        /\ Same(In, nx, nx) /\ Same(In, pv, pv) /\ Same(In, prio, prio)
        /\ Same(In, group, group) /\ nx \in PtrMap
    BY <1>2, <1>4, <2>1, <2>2
  <2>4. Lists(nx, h.closedHead, C) /\ SocketLists(nx, pv, h.head, h.lowHead, Null, prio, group, In, {})
    BY ONLY <2>3, ListsFreed
  <2> QED BY <2>2, <2>4 DEF Lists
<1>6. k = FreeingAll(h, C) BY <1>5 DEF FreeClosed, FreeingAll, Clear
<1>7. /\ SameBut(h, k, FreedFields)
      /\ k.life = Clear(C, h.life, "freed") /\ k.closedHead = Null
      /\ k.next = Clear(C, h.next, Null) /\ k.prev = Clear(C, h.prev, Null)
      /\ k.group = Clear(C, h.group, Null) /\ k.hs = Clear(C, h.hs, "init")
      /\ k.prio = Clear(C, h.prio, 0) /\ k.reads = Clear(C, h.reads, TRUE)
      /\ k.timeout = Clear(C, h.timeout, Off) /\ k.long = Clear(C, h.long, Off)
  <2>1. /\ IsHeap(h)
        /\ {"life", "closedHead", "next", "prev", "group", "hs", "prio", "reads", "timeout",
            "long"} \subseteq Fields
    BY <1>3 DEF Fields
  <2> QED
    BY ONLY <1>6, <2>1, Zenon DEF SameBut, IsHeap, FreeingAll, FreedFields
<1>8. k \in Heaps
  <2>1. k.life \in LifeMap /\ k.closedHead \in Ptr
    BY <1>2, <1>7 DEF Clear, LifeMap, Ptr
  <2>2. k.next \in PtrMap /\ k.prev \in PtrMap
    BY <1>2, <1>7 DEF Clear, PtrMap, Ptr
  <2>3. k.group \in [Sockets -> GroupPtr]
    BY <1>3, <1>7 DEF Clear, GroupPtr
  <2>4. k.hs \in [Sockets -> {"init", "done", "failed"}]
    BY <1>3, <1>7 DEF Clear
  <2>5. k.prio \in [Sockets -> 0..2] BY <1>2, <1>7 DEF Clear
  <2>6. k.reads \in Flags
    <3>1. PICK f : f = h.reads OBVIOUS
    <3>2. f \in [Sockets -> BOOLEAN] /\ k.reads = [s \in Sockets |-> IF s \in C THEN TRUE ELSE f[s]]
      BY <1>3, <1>7, <3>1 DEF Clear, Flags
    <3>3. k.reads \in [Sockets -> BOOLEAN] BY ONLY <3>2
    <3> QED BY <3>3 DEF Flags
  <2>7. k.timeout \in [Sockets -> 0..Lap] /\ k.long \in [Sockets -> 0..Lap]
    BY <1>3, <1>7, Bounds DEF Clear, Off
  <2>8. Typed(k, FreedFields)
    BY <2>1, <2>2, <2>3, <2>4, <2>5, <2>6, <2>7, TypesOf DEF Typed, FreedFields
  <2> QED BY <1>2, <1>7, <2>8, HeapBut
<1>9. In \subseteq Sockets /\ In \cap C = {} /\ P \subseteq In
  BY <1>1 DEF Open, Shut, Waits
<1>10. /\ Same(In, k.next, h.next) /\ Same(In, k.prev, h.prev) /\ Same(In, k.prio, h.prio)
       /\ Same(In, k.group, h.group) /\ Same(P, k.group, h.group)
  BY <1>7, <1>9 DEF Same, Clear
<1>11. /\ k.head = h.head /\ k.lowHead = h.lowHead /\ k.count = h.count /\ k.sweep = h.sweep
       /\ k.iter = h.iter /\ k.gnext = h.gnext /\ k.gprev = h.gprev /\ k.loopHead = h.loopHead
       /\ k.loopIter = h.loopIter /\ k.linked = h.linked /\ k.gone = h.gone
       /\ k.listen = h.listen /\ k.semi = h.semi /\ k.told = h.told /\ k.opened = h.opened
       /\ k.given = h.given /\ k.adopted = h.adopted /\ k.budget = h.budget
  BY <1>7 DEF SameBut, FreedFields, Fields
<1>12. Exact(k, In, {}, P, {})
  <2>1. SocketLists(k.next, k.prev, k.head, k.lowHead, k.closedHead, k.prio, k.group, In, {})
    <3>1. SocketLists(k.next, k.prev, h.head, h.lowHead, Null, k.prio, k.group, In, {})
      BY ONLY <1>2, <1>4, <1>10, ListsFreed
    <3> QED BY <1>7, <1>11, <3>1
  <2>2. Counts(k.count, k.sweep, k.prio, k.group, In, P)
    <3>1. Counts(h.count, h.sweep, h.prio, h.group, In, P)
      BY <1>2 DEF Exact
    <3>2. {x \in In : k.prio[x] # 1} = {x \in In : h.prio[x] # 1}
      BY <1>10 DEF Same
    <3>3. Counts(h.count, h.sweep, k.prio, k.group, In, P)
      BY ONLY <1>10, <3>1, <3>2, CountsSame
    <3> QED BY <1>11, <3>3
  <2>3. Cursors(k.iter, k.prio, k.group, In)
    BY <1>2, <1>10, <1>11 DEF Exact, Cursors, Same
  <2>4. /\ LoopOK(k.gnext, k.gprev, k.loopHead, k.loopIter, k.linked, k.gone)
        /\ Busy(k.linked, k.head, k.listen, k.count, {})
    BY <1>2, <1>11 DEF Exact
  <2> QED BY <1>8, <2>1, <2>2, <2>3, <2>4 DEF Exact
<1>13. \A s \in Sockets :
         /\ k.life[s] = IF h.life[s] = "closed" THEN "freed" ELSE h.life[s]
         /\ h.life[s] # "closed" => /\ k.prev[s] = h.prev[s] /\ k.prio[s] = h.prio[s]
                                    /\ k.group[s] = h.group[s]
         /\ h.life[s] = "closed" => k.prev[s] = Null /\ k.prio[s] = 0
  BY <1>1, <1>7 DEF Clear, Shut
<1>14. Open(k) = In /\ Shut(k) = {}
  BY <1>1, <1>2, <1>13 DEF Open, Shut, LifeMap
<1>15. Tidy(k, Open(k), Shut(k) \ Z)
  BY <1>1, <1>10, <1>12, <1>14 DEF Waits, Same, Tidy
<1>16. ListensOK(k.listen, k.group, k.life)
  BY <1>2, <1>11, <1>13 DEF ListensOK
<1>17. ToldOK(k.life, k.semi, k.told, k.opened, k.given)
  BY <1>2, <1>13, <1>11 DEF ToldOK, LifeMap
<1>18. LinksOK(k.life, k.adopted, k.prev, k.next, k.prio)
  BY <1>2, <1>11, <1>13 DEF LinksOK
<1> QED BY <1>2, <1>11, <1>14, <1>15, <1>16, <1>17, <1>18 DEF World

Copy(f, s, t) == [f EXCEPT ![t] = f[s]]
Resized(h, s, t) ==
  [h EXCEPT !.next = [Copy(@, s, t) EXCEPT ![s] = h.closedHead],
            !.prev = [Copy(@, s, t) EXCEPT ![s] = t],
            !.life = [Copy(@, s, t) EXCEPT ![s] = "closed"],
            !.group = Copy(@, s, t), !.semi = Copy(@, s, t), !.hs = Copy(@, s, t),
            !.prio = Copy(@, s, t), !.reads = Copy(@, s, t),
            !.adopted[s] = TRUE,
            !.closedHead = s,
            !.opened = IF s \in @ THEN @ \cup {t} ELSE @,
            !.given = @ \cup {s}]
ResizeFields ==
  {"next", "prev", "life", "group", "semi", "hs", "prio", "reads", "adopted", "closedHead",
   "opened", "given"}

\* What us_poll_resize does to the history.
Renamed(h, k, s, t) ==
  /\ k.life = [Copy(h.life, s, t) EXCEPT ![s] = "closed"]
  /\ k.semi = Copy(h.semi, s, t)
  /\ k.adopted = [h.adopted EXCEPT ![s] = TRUE]
  /\ k.opened = IF s \in h.opened THEN h.opened \cup {t} ELSE h.opened
  /\ k.given = h.given \cup {s}

\* ... and to the links.
Relinked(h, k, s, t) ==
  /\ k.next = [Copy(h.next, s, t) EXCEPT ![s] = h.closedHead]
  /\ k.prev = [Copy(h.prev, s, t) EXCEPT ![s] = t]
  /\ k.group = Copy(h.group, s, t) /\ k.prio = Copy(h.prio, s, t) /\ k.closedHead = s

\* us_poll_resize: the socket s at its new address t.
LEMMA ResizedOK ==
  ASSUME NEW h \in Heaps, NEW s \in Sockets, NEW t \in Sockets, NEW k, k = Realloc(h, s, t)
  PROVE  /\ k \in Heaps /\ SameBut(h, k, ResizeFields)
         /\ Renamed(h, k, s, t) /\ Relinked(h, k, s, t)
<1>1. k = Resized(h, s, t) BY DEF Realloc, Resized, Copy
<1>2. /\ h.next \in PtrMap /\ h.prev \in PtrMap /\ h.group \in [Sockets -> GroupPtr]
      /\ h.life \in LifeMap /\ h.semi \in Flags
      /\ h.hs \in [Sockets -> {"init", "done", "failed"}]
      /\ h.prio \in [Sockets -> 0..2] /\ h.reads \in Flags /\ h.adopted \in Flags
      /\ h.closedHead \in Ptr /\ h.opened \in SUBSET Sockets /\ h.given \in SUBSET Sockets
      /\ IsHeap(h)
  BY HeapParts
<1>3. /\ SameBut(h, k, ResizeFields) /\ Renamed(h, k, s, t) /\ Relinked(h, k, s, t)
      /\ k.hs = Copy(h.hs, s, t) /\ k.reads = Copy(h.reads, s, t)
  <2>1. /\ IsHeap(h)
        /\ {"next", "prev", "life", "group", "semi", "hs", "prio", "reads", "adopted",
            "closedHead", "opened", "given"} \subseteq Fields
    BY <1>2 DEF Fields
  <2> QED
    BY ONLY <1>1, <2>1, Zenon DEF SameBut, IsHeap, Resized, ResizeFields, Renamed, Relinked
<1>4. k.next \in PtrMap /\ k.prev \in PtrMap
  BY <1>2, <1>3 DEF Ptr, Relinked, PtrMap, Copy
<1>5. k.life \in LifeMap BY <1>2, <1>3 DEF Renamed, LifeMap, Copy
<1>6. /\ k.group \in [Sockets -> GroupPtr] /\ k.semi \in Flags /\ k.prio \in [Sockets -> 0..2]
      /\ k.hs \in [Sockets -> {"init", "done", "failed"}] /\ k.reads \in Flags
  BY <1>2, <1>3 DEF Renamed, Relinked, Flags, Copy
<1>7. k.adopted \in Flags
  <2>1. PICK f : f = h.adopted OBVIOUS
  <2>2. f \in [Sockets -> BOOLEAN] /\ k.adopted = [f EXCEPT ![s] = TRUE]
    BY <1>2, <1>3, <2>1 DEF Renamed, Flags
  <2>3. k.adopted \in [Sockets -> BOOLEAN] BY ONLY <2>2
  <2> QED BY <2>3 DEF Flags
<1>8. k.opened \in SUBSET Sockets /\ k.given \in SUBSET Sockets /\ k.closedHead \in Ptr
  BY <1>2, <1>3 DEF Renamed, Relinked, Ptr
<1>9. Typed(k, ResizeFields)
  BY <1>4, <1>5, <1>6, <1>7, <1>8, TypesOf DEF Typed, ResizeFields
<1> QED BY <1>3, <1>9, HeapBut

Moving(h, g, t) == [h EXCEPT !.group[t] = g, !.timeout[t] = Off, !.long[t] = Off]
MoveFields == {"group", "timeout", "long"}
Grouped(h, k, g, t) == k.group = [h.group EXCEPT ![t] = g]

LEMMA MovedOK ==
  ASSUME NEW h \in Heaps, NEW g \in Groups, NEW t \in Sockets, NEW k, k = Moving(h, g, t)
  PROVE  k \in Heaps /\ SameBut(h, k, MoveFields) /\ Grouped(h, k, g, t)
<1>1. /\ h.group \in [Sockets -> GroupPtr] /\ h.timeout \in [Sockets -> 0..Lap]
      /\ h.long \in [Sockets -> 0..Lap] /\ IsHeap(h)
  BY HeapParts
<1>2. /\ SameBut(h, k, MoveFields) /\ Grouped(h, k, g, t)
      /\ k.timeout = [h.timeout EXCEPT ![t] = Off] /\ k.long = [h.long EXCEPT ![t] = Off]
  <2>1. IsHeap(h) /\ {"group", "timeout", "long"} \subseteq Fields
    BY <1>1 DEF Fields
  <2> QED
    BY ONLY <2>1, k = Moving(h, g, t), Zenon DEF SameBut, IsHeap, Moving, MoveFields, Grouped
<1>3. k.group \in [Sockets -> GroupPtr]
  BY <1>1, <1>2 DEF Grouped, GroupPtr
<1>4. k.timeout \in [Sockets -> 0..Lap] /\ k.long \in [Sockets -> 0..Lap]
  BY <1>1, <1>2, Bounds DEF Off
<1>5. Typed(k, MoveFields)
  BY <1>3, <1>4, TypesOf DEF Typed, MoveFields
<1> QED BY <1>2, <1>5, HeapBut

\* What is written of sockets on no list.
Aside(h, k, In, C, Pk) ==
  /\ Same(In, k.next, h.next) /\ Same(C, k.next, h.next) /\ Same(In, k.prev, h.prev)
  /\ Same(In, k.prio, h.prio) /\ Same(In, k.group, h.group) /\ Same(Pk, k.group, h.group)

LEMMA ExactAside ==
  ASSUME NEW h, NEW In, NEW C, NEW Pk, NEW E, Exact(h, In, C, Pk, E),
         NEW k \in Heaps, SameBut(h, k, {"next", "prev", "prio", "group"} \cup OtherFields),
         Aside(h, k, In, C, Pk)
  PROVE  Exact(k, In, C, Pk, E)
<1>1. /\ k.head = h.head /\ k.lowHead = h.lowHead /\ k.count = h.count /\ k.sweep = h.sweep
      /\ k.closedHead = h.closedHead
      /\ k.iter = h.iter /\ k.gnext = h.gnext /\ k.gprev = h.gprev /\ k.loopHead = h.loopHead
      /\ k.loopIter = h.loopIter /\ k.linked = h.linked /\ k.gone = h.gone
      /\ k.listen = h.listen
  BY DEF SameBut, OtherFields, Fields
<1>2. /\ SocketLists(h.next, h.prev, h.head, h.lowHead, h.closedHead, h.prio, h.group, In, C)
      /\ Counts(h.count, h.sweep, h.prio, h.group, In, Pk)
      /\ Cursors(h.iter, h.prio, h.group, In)
      /\ LoopOK(h.gnext, h.gprev, h.loopHead, h.loopIter, h.linked, h.gone)
      /\ Busy(h.linked, h.head, h.listen, h.count, E)
  BY ExactParts
<1>3. /\ Same(In, k.next, h.next) /\ Same(C, k.next, h.next) /\ Same(In, k.prev, h.prev)
      /\ Same(In, k.prio, h.prio) /\ Same(In, k.group, h.group) /\ Same(Pk, k.group, h.group)
  BY DEF Aside
<1>4. SocketLists(k.next, k.prev, k.head, k.lowHead, k.closedHead, k.prio, k.group, In, C)
  <2>1. SocketLists(k.next, k.prev, h.head, h.lowHead, h.closedHead, k.prio, k.group, In, C)
    BY ONLY <1>2, <1>3, ListsSame
  <2> QED BY <1>1, <2>1
<1>5. Counts(k.count, k.sweep, k.prio, k.group, In, Pk)
  <2>1. {x \in In : k.prio[x] # 1} = {x \in In : h.prio[x] # 1}
    BY <1>3 DEF Same
  <2>2. Counts(h.count, h.sweep, k.prio, k.group, In, Pk)
    BY ONLY <1>2, <1>3, <2>1, CountsSame
  <2> QED BY <1>1, <2>2
<1>6. Cursors(k.iter, k.prio, k.group, In)
  BY <1>1, <1>2, <1>3 DEF Cursors, Same
<1> QED BY <1>1, <1>2, <1>4, <1>5, <1>6 DEF Exact

LEMMA MovedExact ==
  ASSUME NEW h, NEW In, NEW C, NEW Pk, NEW E, Exact(h, In, C, Pk, E),
         NEW g \in Groups, NEW t \in Sockets, t \notin In, t \notin Pk, NEW k, k = Moving(h, g, t)
  PROVE  Exact(k, In, C, Pk, E) /\ SameBut(h, k, MoveFields) /\ Grouped(h, k, g, t)
<1>1. h \in Heaps /\ In \subseteq Sockets /\ Pk \subseteq Sockets
  BY ExactParts
<1>2. k \in Heaps /\ SameBut(h, k, MoveFields) /\ Grouped(h, k, g, t)
  BY <1>1, MovedOK
<1>3. SameBut(h, k, {"next", "prev", "prio", "group"} \cup OtherFields)
  BY <1>2 DEF SameBut, MoveFields, OtherFields
<1>4. k.next = h.next /\ k.prev = h.prev /\ k.prio = h.prio
  BY <1>2 DEF SameBut, MoveFields, Fields
<1>5. Same(In, k.group, h.group) /\ Same(Pk, k.group, h.group)
  BY <1>1, <1>2, HeapParts DEF Grouped, Same
<1>6. Aside(h, k, In, C, Pk) BY <1>4, <1>5 DEF Aside, Same
<1> QED BY <1>2, <1>3, <1>6, ExactAside

\* Neither the old address nor the new one is on a list.
Apart(In, C, Pk, s, t) ==
  /\ s \in Sockets /\ s \notin In /\ s \notin C /\ s \notin Pk
  /\ t \in Sockets /\ t \notin In /\ t \notin C /\ t \notin Pk /\ t # s

LEMMA ResizedExact ==
  ASSUME NEW h, NEW In, NEW C, NEW Pk, Exact(h, In, C, Pk, {}), NEW s, NEW t,
         Apart(In, C, Pk, s, t), NEW k, k = Realloc(h, s, t)
  PROVE  Exact(k, In, C \cup {s}, Pk, {})
<1>1. /\ h \in Heaps /\ In \subseteq Sockets /\ C \subseteq Sockets /\ Pk \subseteq Sockets
      /\ SocketLists(h.next, h.prev, h.head, h.lowHead, h.closedHead, h.prio, h.group, In, C)
      /\ Counts(h.count, h.sweep, h.prio, h.group, In, Pk)
      /\ Cursors(h.iter, h.prio, h.group, In)
      /\ LoopOK(h.gnext, h.gprev, h.loopHead, h.loopIter, h.linked, h.gone)
      /\ Busy(h.linked, h.head, h.listen, h.count, {})
  BY ExactParts
<1>2. /\ s \in Sockets /\ s \notin In /\ s \notin C /\ s \notin Pk
      /\ t \in Sockets /\ t \notin In /\ t \notin C /\ t \notin Pk /\ t # s
  BY DEF Apart
<1>3. k \in Heaps /\ SameBut(h, k, ResizeFields) /\ Relinked(h, k, s, t)
  BY <1>1, <1>2, ResizedOK
<1>4. /\ h.next \in PtrMap /\ h.prev \in PtrMap /\ h.group \in [Sockets -> GroupPtr]
      /\ h.prio \in [Sockets -> 0..2] /\ h.closedHead \in Ptr
  BY <1>1, HeapParts
<1>5. /\ k.next = [Copy(h.next, s, t) EXCEPT ![s] = h.closedHead]
      /\ k.prev = [Copy(h.prev, s, t) EXCEPT ![s] = t]
      /\ k.group = Copy(h.group, s, t) /\ k.prio = Copy(h.prio, s, t) /\ k.closedHead = s
  BY <1>3 DEF Relinked
<1>6. PICK nx : nx = Copy(h.next, s, t) OBVIOUS
<1>7. /\ nx \in PtrMap /\ Same(In, nx, h.next) /\ Same(C, nx, h.next)
      /\ k.next = [nx EXCEPT ![s] = h.closedHead]
  BY <1>1, <1>2, <1>4, <1>5, <1>6 DEF Same, Copy, PtrMap
<1>8. /\ Same(In, k.prev, h.prev) /\ Same(In, k.prio, h.prio) /\ Same(In, k.group, h.group)
      /\ Same(Pk, k.group, h.group)
  BY <1>2, <1>4, <1>5, <1>1 DEF Copy, PtrMap, Same
<1>9. SocketLists(k.next, k.prev, h.head, h.lowHead, s, k.prio, k.group, In, C \cup {s})
  <2>1. SocketLists(nx, k.prev, h.head, h.lowHead, h.closedHead, k.prio, k.group, In, C)
    BY ONLY <1>1, <1>7, <1>8, ListsSame
  <2>2. CloseWrites(nx, k.prev, h.head, h.lowHead, h.closedHead, k.prio, k.group, In, C, s, k.next)
    BY <1>2, <1>4, <1>7, <2>1 DEF CloseWrites
  <2> QED BY <2>2, ListsClosed
<1>10. /\ k.head = h.head /\ k.lowHead = h.lowHead /\ k.count = h.count /\ k.sweep = h.sweep
       /\ k.iter = h.iter /\ k.gnext = h.gnext /\ k.gprev = h.gprev /\ k.loopHead = h.loopHead
       /\ k.loopIter = h.loopIter /\ k.linked = h.linked /\ k.gone = h.gone
       /\ k.listen = h.listen
  BY <1>3 DEF SameBut, ResizeFields, Fields
<1>11. Counts(k.count, k.sweep, k.prio, k.group, In, Pk)
  <2>1. {x \in In : k.prio[x] # 1} = {x \in In : h.prio[x] # 1}
    BY <1>8 DEF Same
  <2>2. Counts(h.count, h.sweep, k.prio, k.group, In, Pk)
    BY ONLY <1>1, <1>8, <2>1, CountsSame
  <2> QED BY <1>10, <2>2
<1>12. Cursors(k.iter, k.prio, k.group, In)
  BY <1>1, <1>8, <1>10 DEF Cursors, Same
<1> QED BY <1>1, <1>3, <1>5, <1>9, <1>10, <1>11, <1>12 DEF Exact

\* What us_socket_adopt leaves alone when the socket s goes on as t.
Elsewhere(h, k, t) ==
  /\ k.told = h.told /\ k.budget = h.budget /\ k.listen = h.listen
  /\ Same(Sockets \ (Open(h) \cup {t}), k.next, h.next)
  /\ Same(Sockets \ (Open(h) \cup {t}), k.prev, h.prev)
  /\ Same(Sockets \ (Open(h) \cup {t}), k.prio, h.prio)
  /\ Same(Sockets \ (Open(h) \cup {t}), k.group, h.group)

\* The old address leads to the new one, and to the closed list.
Forwards(h, k, s, t) == k.prev[s] = t /\ Leads(h.life, k.next[s])

LEMMA AdoptedWorld ==
  ASSUME NEW h, NEW Z, World(h, Z), NEW s \in Open(h), NEW t \in Sockets, h.life[t] = "unused",
         NEW k, NEW In, In = (Open(h) \ {s}) \cup {t}, NEW C, C = (Shut(h) \ Z) \cup {s},
         Exact(k, In, C, Waits(k, In), {}), Renamed(h, k, s, t), Elsewhere(h, k, t),
         Forwards(h, k, s, t)
  PROVE  World(k, Z) /\ Aged(h, k)
<1>1. /\ Z \subseteq Shut(h) /\ h.budget \in 0..LowPrioBudget
      /\ ListensOK(h.listen, h.group, h.life)
      /\ ToldOK(h.life, h.semi, h.told, h.opened, h.given)
      /\ LinksOK(h.life, h.adopted, h.prev, h.next, h.prio)
      /\ h.life \in LifeMap /\ h.semi \in Flags /\ h.adopted \in Flags
  BY WorldParts, HeapParts
<1>2. s \in Sockets /\ h.life[s] = "open" /\ t # s BY DEF Open
<1>3. /\ k.life = [Copy(h.life, s, t) EXCEPT ![s] = "closed"]
      /\ k.semi = Copy(h.semi, s, t) /\ k.adopted = [h.adopted EXCEPT ![s] = TRUE]
      /\ k.opened = IF s \in h.opened THEN h.opened \cup {t} ELSE h.opened
      /\ k.given = h.given \cup {s}
  BY DEF Renamed
<1>4. /\ k.life[s] = "closed" /\ k.life[t] = "open"
      /\ \A x \in Sockets \ {s, t} : k.life[x] = h.life[x]
  BY <1>1, <1>2, <1>3 DEF Copy, LifeMap
<1>5. Open(k) = In /\ Shut(k) = Shut(h) \cup {s} /\ Shut(k) \ Z = C
  BY <1>1, <1>2, <1>4 DEF Shut, Open
<1>6. Tidy(k, Open(k), Shut(k) \ Z) /\ Z \subseteq Shut(k)
  BY <1>1, <1>5 DEF Tidy
<1>7. /\ k.told = h.told /\ k.budget = h.budget /\ k.listen = h.listen
      /\ \A x \in Sockets : x # t /\ h.life[x] # "open" =>
           /\ k.next[x] = h.next[x] /\ k.prev[x] = h.prev[x]
           /\ k.prio[x] = h.prio[x] /\ k.group[x] = h.group[x]
  BY DEF Elsewhere, Same, Open
<1>8. ListensOK(k.listen, k.group, k.life)
  BY <1>2, <1>4, <1>7, <1>1 DEF ListensOK
<1>9. ToldOK(k.life, k.semi, k.told, k.opened, k.given)
  <2>1. h.told[t] = 0 /\ t \notin h.opened /\ t \notin h.given
    BY <1>1 DEF ToldOK
  <2>2. h.told[s] = 0 /\ s \notin h.given /\ (s \in h.opened <=> ~h.semi[s])
    BY <1>1, <1>2 DEF ToldOK
  <2>3. \A x \in Sockets \ {s, t} :
          /\ k.semi[x] = h.semi[x] /\ (x \in k.opened <=> x \in h.opened)
          /\ (x \in k.given <=> x \in h.given)
    BY <1>1, <1>2, <1>3 DEF Copy, Flags
  <2>4. k.semi[t] = h.semi[s] BY <1>1, <1>2, <1>3 DEF Copy, Flags
  <2>5. (t \in k.opened <=> s \in h.opened) /\ t \notin k.given /\ s \in k.given
    BY <1>2, <1>3, <2>1
  <2> SUFFICES ASSUME NEW x \in Sockets
               PROVE  /\ k.life[x] \in {"unused", "listen"} =>
                           k.told[x] = 0 /\ x \notin k.opened /\ x \notin k.given
                      /\ k.life[x] = "open" =>
                           k.told[x] = 0 /\ x \notin k.given /\ (x \in k.opened <=> ~k.semi[x])
                      /\ k.life[x] \in {"closed", "freed"} =>
                           k.told[x] = IF x \in k.opened \ k.given THEN 1 ELSE 0
    BY DEF ToldOK
  <2>6. CASE x = s BY <1>4, <1>7, <2>2, <2>5, <2>6
  <2>7. CASE x = t BY <1>4, <1>7, <2>1, <2>2, <2>4, <2>5, <2>7
  <2>8. CASE x # s /\ x # t BY <1>1, <1>4, <1>7, <2>3, <2>8 DEF ToldOK
  <2> QED BY <2>6, <2>7, <2>8
<1>10. \A x : InUse(h.life, x) => InUse(k.life, x)
  BY <1>2, <1>4 DEF InUse
<1>11. LinksOK(k.life, k.adopted, k.prev, k.next, k.prio)
  <2>1. ~h.adopted[t] BY <1>1 DEF LinksOK
  <2>2. PICK f : f = h.adopted OBVIOUS
  <2>3. f \in [Sockets -> BOOLEAN] /\ k.adopted = [f EXCEPT ![s] = TRUE]
    BY <1>1, <1>3, <2>2 DEF Flags
  <2>4. \A x \in Sockets \ {s} : k.adopted[x] <=> f[x] BY ONLY <2>3
  <2>5. ~k.adopted[t] /\ \A x \in Sockets \ {s, t} : k.adopted[x] <=> h.adopted[x]
    BY <1>2, <2>1, <2>2, <2>4
  <2>6. InUse(k.life, k.prev[s]) /\ Leads(k.life, k.next[s])
    BY <1>4, <1>10 DEF Forwards, Leads, InUse
  <2> SUFFICES ASSUME NEW x \in Sockets
               PROVE  /\ k.life[x] = "unused" => k.prio[x] # 1
                      /\ k.adopted[x] => k.life[x] \in {"closed", "freed"}
                      /\ k.adopted[x] /\ k.life[x] = "closed" => InUse(k.life, k.prev[x])
                      /\ k.life[x] = "freed" => k.prev[x] = Null
                      /\ k.life[x] = "closed" => Leads(k.life, k.next[x])
    BY DEF LinksOK
  <2>7. CASE x = s BY <1>4, <2>6, <2>7
  <2>8. CASE x = t BY <1>4, <2>5, <2>8
  <2>9. CASE x # s /\ x # t
    BY <1>4, <2>5, <2>9, <1>7, <1>1, <1>10 DEF LinksOK, Leads
  <2> QED BY <2>7, <2>8, <2>9
<1>12. Aged(h, k) BY <1>2, <1>4 DEF Aged
<1> QED BY <1>1, <1>6, <1>7, <1>8, <1>9, <1>11, <1>12 DEF World

\* No socket is opened, closed or renamed.
Unnamed(h, k) ==
  /\ k.life = h.life /\ k.semi = h.semi /\ k.adopted = h.adopted
  /\ k.opened = h.opened /\ k.given = h.given

LEMMA StayedWorld ==
  ASSUME NEW h, NEW Z, World(h, Z), NEW s \in Open(h), NEW k, NEW In, In = Open(h),
         NEW C, C = Shut(h) \ Z, Exact(k, In, C, Waits(k, In), {}), Unnamed(h, k),
         Elsewhere(h, k, s)
  PROVE  World(k, Z) /\ Aged(h, k)
<1>1. /\ Z \subseteq Shut(h) /\ h.budget \in 0..LowPrioBudget
      /\ ListensOK(h.listen, h.group, h.life)
      /\ ToldOK(h.life, h.semi, h.told, h.opened, h.given) /\ h.life \in LifeMap
  BY WorldParts
<1>2. /\ k.life = h.life /\ k.semi = h.semi /\ k.adopted = h.adopted
      /\ k.opened = h.opened /\ k.given = h.given
  BY DEF Unnamed
<1>3. In \cup {s} = In OBVIOUS
<1>4. /\ k.told = h.told /\ k.budget = h.budget /\ k.listen = h.listen
      /\ Same(Sockets \ In, k.next, h.next) /\ Same(Sockets \ In, k.prev, h.prev)
      /\ Same(Sockets \ In, k.prio, h.prio) /\ Same(Sockets \ In, k.group, h.group)
  BY <1>3 DEF Elsewhere
<1>5. Open(k) = In /\ Shut(k) = Shut(h) BY <1>2 DEF Open, Shut
<1>6. Tidy(k, In, C) BY DEF Tidy
<1>7. LinksOK(h.life, h.adopted, k.prev, k.next, k.prio)
  BY ONLY World(h, Z), In = Open(h), <1>4, LinksStay
<1>8. ListensOK(h.listen, k.group, h.life)
  BY <1>4, <1>1 DEF Same, Open, ListensOK
<1>9. Aged(h, k) BY <1>1, <1>2, SameAge
<1> QED BY <1>1, <1>2, <1>4, <1>5, <1>6, <1>7, <1>8, <1>9 DEF World

\* A socket that is off every list is linked to the group g.
LEMMA Relisted ==
  ASSUME NEW h, NEW In, NEW C, NEW Pk, Exact(h, In, C, Pk, {}), NEW g,
         NEW t, Linkable(h, In, C, Pk, g, t), NEW n, n = Moving(h, g, t), NEW k, k = LinkSocket(n, g, t)
  PROVE  /\ Exact(k, In \cup {t}, C, Pk, {})
         /\ SameBut(h, k, MoveFields \cup LinkedFields \cup LoopFields)
         /\ Same(Sockets \ (In \cup {t}), k.next, h.next)
         /\ Same(Sockets \ (In \cup {t}), k.prev, h.prev)
         /\ Same(Sockets \ {t}, k.group, h.group)
<1>1. /\ t \in Sockets /\ t \notin In /\ t \notin C /\ t \notin Pk /\ h.prio[t] # 1
      /\ g \in Groups /\ ~h.gone[g]
  BY DEF Linkable
<1>2. Exact(n, In, C, Pk, {}) /\ SameBut(h, n, MoveFields) /\ Grouped(h, n, g, t)
  BY <1>1, MovedExact
<1>3. n.prio = h.prio /\ n.gone = h.gone /\ n.next = h.next /\ n.prev = h.prev
  BY <1>2 DEF SameBut, MoveFields, Fields
<1>4. Linkable(n, In, C, Pk, g, t) /\ Exact(n, In, C, Pk, {g})
  BY <1>1, <1>2, <1>3, ExactWeaker DEF Linkable
<1>5. /\ Exact(k, In \cup {t}, C, Pk, {})
      /\ SameBut(n, k, LinkedFields \cup LoopFields)
      /\ Headed(n, k, g, t)
      /\ Same(Sockets \ (In \cup {t}), k.prev, n.prev)
  BY ONLY <1>4, k = LinkSocket(n, g, t), LinkSocketOK
<1>6. SameBut(h, k, MoveFields \cup LinkedFields \cup LoopFields)
  BY ONLY <1>2, <1>5 DEF SameBut
<1>7. k.group = [n.group EXCEPT ![t] = g] /\ k.next = [n.next EXCEPT ![t] = n.head[g]]
  BY <1>5 DEF Headed
<1>8. n.next \in PtrMap /\ h.group \in [Sockets -> GroupPtr] /\ n.group = [h.group EXCEPT ![t] = g]
  BY <1>2, HeapParts DEF Exact, Grouped
<1>9. Same(Sockets \ (In \cup {t}), k.next, h.next)
  BY <1>1, <1>3, <1>7, <1>8 DEF Same, PtrMap
<1>10. Same(Sockets \ {t}, k.group, h.group)
  BY <1>1, <1>7, <1>8 DEF Same
<1> QED BY <1>3, <1>5, <1>6, <1>9, <1>10

\* us_socket_adopt of a socket on the list of its group, at the same address ...
LEMMA AdoptHere ==
  ASSUME NEW h, NEW Z, World(h, Z), NEW s \in Open(h), h.prio[s] # 1, NEW g \in Groups,
         ~h.gone[g], NEW k, k = Adopt(h, s, g, s)
  PROVE  World(k, Z) /\ Aged(h, k)
<1>1. PICK In, C, P, I, o, l, n :
        /\ In = Open(h) /\ C = Shut(h) \ Z /\ P = Waits(h, In) /\ I = In \ {s}
        /\ o = h.group[s] /\ l = UnlinkSocket(h, o, s) /\ n = Moving(l, g, s)
  OBVIOUS
<1>2. Exact(h, In, C, P, {}) /\ h.prio \in [Sockets -> 0..2]
  BY <1>1, WorldParts DEF Tidy
<1>3. s \in Sockets /\ s \in In /\ s \notin P /\ s \notin I /\ I \cup {s} = In /\ s \notin C
  BY <1>1 DEF Open, Waits, Shut
<1>4. /\ Exact(l, I, C, P, {}) /\ SameBut(h, l, UnlinkedFields \cup LoopFields)
      /\ Same(Sockets \ I, l.prev, h.prev) /\ Same(Sockets \ I, l.next, h.next)
  BY ONLY <1>1, <1>2, <1>3, h.prio[s] # 1, UnlinkSocketOK
<1>5. l.prio = h.prio /\ l.gone = h.gone /\ l.group = h.group
  BY <1>4 DEF SameBut, UnlinkedFields, LoopFields, LinkFields, Fields
<1>6. Linkable(l, I, C, P, g, s) BY <1>3, <1>5 DEF Linkable
<1>7. k = LinkSocket(n, g, s)
  <2>1. SameBut(l, n, MoveFields)
    BY <1>1, <1>3, <1>4, MovedOK DEF Exact
  <2>2. n.prio = l.prio BY <2>1 DEF SameBut, MoveFields, Fields
  <2>3. n.prio[s] # 1 BY <1>5, <2>2
  <2>4. l = LeaveGroup(h, s, g) BY <1>1 DEF LeaveGroup
  <2> QED BY <1>1, <2>3, <2>4 DEF Adopt, Moving
<1>8. /\ Exact(k, In, C, P, {})
      /\ SameBut(l, k, MoveFields \cup LinkedFields \cup LoopFields)
      /\ Same(Sockets \ In, k.next, l.next) /\ Same(Sockets \ In, k.prev, l.prev)
      /\ Same(Sockets \ {s}, k.group, l.group)
  <2>1. /\ Exact(k, I \cup {s}, C, P, {})
        /\ SameBut(l, k, MoveFields \cup LinkedFields \cup LoopFields)
        /\ Same(Sockets \ (I \cup {s}), k.next, l.next)
        /\ Same(Sockets \ (I \cup {s}), k.prev, l.prev)
        /\ Same(Sockets \ {s}, k.group, l.group)
    BY ONLY <1>1, <1>4, <1>6, <1>7, Relisted
  <2> QED BY ONLY <1>3, <2>1
<1>9. /\ k.prio = l.prio /\ k.life = l.life /\ k.semi = l.semi /\ k.adopted = l.adopted
      /\ k.opened = l.opened /\ k.given = l.given /\ k.told = l.told /\ k.budget = l.budget
      /\ k.listen = l.listen
  BY <1>8 DEF SameBut, MoveFields, LinkedFields, LoopFields, LinkFields, Fields
<1>10. /\ l.life = h.life /\ l.semi = h.semi /\ l.adopted = h.adopted
       /\ l.opened = h.opened /\ l.given = h.given /\ l.told = h.told /\ l.budget = h.budget
       /\ l.listen = h.listen
  BY <1>4 DEF SameBut, UnlinkedFields, LoopFields, LinkFields, Fields
<1>11. Exact(k, In, C, Waits(k, In), {})
  BY <1>1, <1>5, <1>8, <1>9 DEF Waits
<1>12. Unnamed(h, k) BY <1>9, <1>10 DEF Unnamed
<1>13. Elsewhere(h, k, s)
  <2>1. Open(h) \cup {s} = In BY <1>1, <1>3
  <2>2. Same(Sockets \ In, k.next, h.next) /\ Same(Sockets \ In, k.prev, h.prev)
    BY ONLY <1>1, <1>4, <1>8 DEF Same
  <2>3. Same(Sockets \ In, k.prio, h.prio) /\ Same(Sockets \ In, k.group, h.group)
    BY <1>3, <1>5, <1>8, <1>9 DEF Same
  <2> QED BY <1>9, <1>10, <2>1, <2>2, <2>3 DEF Elsewhere
<1> QED
  BY ONLY World(h, Z), s \in Open(h), <1>1, <1>11, <1>12, <1>13, StayedWorld

\* ... and at a new one.
LEMMA AdoptThere ==
  ASSUME NEW h, NEW Z, World(h, Z), NEW s \in Open(h), h.prio[s] # 1, NEW g \in Groups,
         ~h.gone[g], NEW t \in Sockets, h.life[t] = "unused", NEW k, k = Adopt(h, s, g, t)
  PROVE  World(k, Z) /\ Aged(h, k)
<1>1. PICK In, C, P, I, D, J, o, l, m, n :
        /\ In = Open(h) /\ C = Shut(h) \ Z /\ P = Waits(h, In) /\ I = In \ {s}
        /\ D = C \cup {s} /\ J = I \cup {t}
        /\ o = h.group[s] /\ l = UnlinkSocket(h, o, s) /\ m = Realloc(l, s, t) /\ n = Moving(m, g, t)
  OBVIOUS
<1>2. Exact(h, In, C, P, {}) /\ h.prio \in [Sockets -> 0..2]
  BY <1>1, WorldParts DEF Tidy
<1>3. /\ s \in Sockets /\ s \in In /\ s \notin P /\ s \notin I /\ s \notin C /\ s # t
      /\ t \notin In /\ t \notin C /\ t \notin P /\ t \notin I /\ t \notin D /\ C \subseteq Shut(h)
      /\ In \subseteq Sockets
  BY <1>1 DEF Open, Waits, Shut
<1>4. /\ Exact(l, I, C, P, {}) /\ SameBut(h, l, UnlinkedFields \cup LoopFields)
      /\ Same(Sockets \ I, l.prev, h.prev) /\ Same(Sockets \ I, l.next, h.next)
  BY ONLY <1>1, <1>2, <1>3, h.prio[s] # 1, UnlinkSocketOK
<1>5. /\ l.prio = h.prio /\ l.gone = h.gone /\ l.group = h.group
      /\ l.life = h.life /\ l.semi = h.semi /\ l.adopted = h.adopted
      /\ l.opened = h.opened /\ l.given = h.given /\ l.told = h.told /\ l.budget = h.budget
      /\ l.listen = h.listen
  BY <1>4 DEF SameBut, UnlinkedFields, LoopFields, LinkFields, Fields
<1>6. l \in Heaps /\ l.closedHead \in C \cup {Null} /\ l.next \in PtrMap /\ l.prev \in PtrMap
      /\ l.group \in [Sockets -> GroupPtr]
  BY <1>4, HeapParts DEF Exact, SocketLists, Rows, Single
<1>7. Exact(m, I, D, P, {})
  <2>1. Apart(I, C, P, s, t) BY <1>3 DEF Apart
  <2>2. Exact(m, I, C \cup {s}, P, {})
    BY ONLY <1>1, <1>4, <2>1, ResizedExact
  <2> QED BY ONLY <1>1, <2>2
<1>8. SameBut(l, m, ResizeFields) /\ Renamed(l, m, s, t) /\ Relinked(l, m, s, t)
  BY <1>1, <1>3, <1>6, ResizedOK
<1>9. /\ m.gone = l.gone /\ m.told = l.told /\ m.budget = l.budget /\ m.listen = l.listen
  BY <1>8 DEF SameBut, ResizeFields, Fields
<1>10. /\ m.prio[t] = h.prio[s] /\ m.prev[s] = t /\ m.next[s] = l.closedHead
       /\ \A x \in Sockets \ {s, t} :
            /\ m.prio[x] = h.prio[x] /\ m.group[x] = h.group[x]
            /\ m.next[x] = l.next[x] /\ m.prev[x] = l.prev[x]
  <2>1. /\ m.next = [Copy(l.next, s, t) EXCEPT ![s] = l.closedHead]
        /\ m.prev = [Copy(l.prev, s, t) EXCEPT ![s] = t]
        /\ m.group = Copy(l.group, s, t) /\ m.prio = Copy(h.prio, s, t)
    BY <1>5, <1>8 DEF Relinked
  <2>2. /\ m.prio[t] = h.prio[s]
        /\ \A x \in Sockets \ {s, t} : m.prio[x] = h.prio[x] /\ m.group[x] = h.group[x]
    BY <1>2, <1>3, <1>5, <1>6, <2>1 DEF Copy
  <2>3. /\ m.prev[s] = t /\ m.next[s] = l.closedHead
        /\ \A x \in Sockets \ {s, t} : m.next[x] = l.next[x] /\ m.prev[x] = l.prev[x]
    BY <1>3, <1>6, <2>1 DEF Copy, PtrMap
  <2> QED BY <2>2, <2>3
<1>11. Linkable(m, I, D, P, g, t)
  BY <1>3, <1>5, <1>9, <1>10 DEF Linkable
<1>12. k = LinkSocket(n, g, t)
  <2>1. SameBut(m, n, MoveFields) BY <1>1, <1>7, MovedOK DEF Exact
  <2>2. n.prio = m.prio BY <2>1 DEF SameBut, MoveFields, Fields
  <2>3. n.prio[t] # 1 BY <1>10, <2>2
  <2>4. l = LeaveGroup(h, s, g) BY <1>1 DEF LeaveGroup
  <2> QED BY <1>1, <1>3, <2>3, <2>4 DEF Adopt, Moving
<1>13. /\ Exact(k, J, D, P, {})
       /\ SameBut(m, k, MoveFields \cup LinkedFields \cup LoopFields)
       /\ Same(Sockets \ J, k.next, m.next) /\ Same(Sockets \ J, k.prev, m.prev)
       /\ Same(Sockets \ {t}, k.group, m.group)
  <2>1. /\ Exact(k, I \cup {t}, D, P, {})
        /\ SameBut(m, k, MoveFields \cup LinkedFields \cup LoopFields)
        /\ Same(Sockets \ (I \cup {t}), k.next, m.next)
        /\ Same(Sockets \ (I \cup {t}), k.prev, m.prev)
        /\ Same(Sockets \ {t}, k.group, m.group)
    <3>1. n = Moving(m, g, t) BY <1>1
    <3> QED BY ONLY <1>7, <1>11, <1>12, <3>1, Relisted
  <2> QED BY ONLY <1>1, <2>1
<1>14. /\ k.prio = m.prio /\ k.life = m.life /\ k.semi = m.semi /\ k.adopted = m.adopted
       /\ k.opened = m.opened /\ k.given = m.given /\ k.told = m.told /\ k.budget = m.budget
       /\ k.listen = m.listen
  BY <1>13 DEF SameBut, MoveFields, LinkedFields, LoopFields, LinkFields, Fields
<1>15. Exact(k, J, D, Waits(k, J), {})
  <2>1. Waits(k, J) = P BY <1>1, <1>3, <1>10, <1>14 DEF Waits
  <2> QED BY <1>13, <2>1
<1>16. Renamed(h, k, s, t) BY <1>5, <1>8, <1>14 DEF Renamed
<1>17. Elsewhere(h, k, t)
  <2>1. \A x \in Sockets \ (In \cup {t}) :
          /\ k.next[x] = h.next[x] /\ k.prev[x] = h.prev[x]
          /\ k.prio[x] = h.prio[x] /\ k.group[x] = h.group[x]
    <3> SUFFICES ASSUME NEW x \in Sockets \ (In \cup {t})
                 PROVE  /\ k.next[x] = h.next[x] /\ k.prev[x] = h.prev[x]
                        /\ k.prio[x] = h.prio[x] /\ k.group[x] = h.group[x]
      OBVIOUS
    <3>1. x \in Sockets \ J /\ x \in Sockets \ {s, t} /\ x \in Sockets \ I /\ x \in Sockets \ {t}
      BY <1>1, <1>3
    <3>2. k.next[x] = m.next[x] /\ k.prev[x] = m.prev[x] /\ k.group[x] = m.group[x]
      BY <1>13, <3>1 DEF Same
    <3>3. l.next[x] = h.next[x] /\ l.prev[x] = h.prev[x]
      BY <1>4, <3>1 DEF Same
    <3> QED BY <1>10, <1>14, <3>1, <3>2, <3>3
  <2> QED BY <1>1, <1>5, <1>9, <1>14, <2>1 DEF Elsewhere, Same
<1>18. Forwards(h, k, s, t)
  <2>1. k.prev[s] = t /\ k.next[s] = l.closedHead
    BY <1>1, <1>3, <1>10, <1>13 DEF Same
  <2>2. Leads(h.life, l.closedHead)
    BY <1>3, <1>6 DEF Leads, InUse, Shut
  <2> QED BY <2>1, <2>2 DEF Forwards
<1>19. J = (Open(h) \ {s}) \cup {t} /\ D = (Shut(h) \ Z) \cup {s}
  BY <1>1
<1> QED
  BY ONLY World(h, Z), s \in Open(h), t \in Sockets, h.life[t] = "unused", <1>15, <1>16, <1>17,
          <1>18, <1>19, AdoptedWorld

\* A parked socket goes from the count of one group to that of another.
Recount(count, o, g) == IF o = g THEN count ELSE [count EXCEPT ![o] = @ - 1, ![g] = @ + 1]
CountsMoves(count, sweep, prio, group, In, Pk, s, t, o, g, count2, prio2, group2, In2) ==
  /\ count \in [Groups -> Int] /\ Counts(count, sweep, prio, group, In, Pk)
  /\ s \in Pk /\ o \in Groups /\ o = group[s] /\ g \in Groups
  /\ t \in Sockets /\ t \notin Pk \ {s} /\ group2[t] = g
  /\ Same(Pk \ {s}, group2, group)
  /\ {x \in In2 : prio2[x] # 1} = {x \in In : prio[x] # 1}
  /\ count2 = Recount(count, o, g)

CountsUp(count, sweep, prio, group, In, Pk, s, g, count2) ==
  /\ count \in [Groups -> Int] /\ Counts(count, sweep, prio, group, In, Pk)
  /\ s \in Sockets /\ s \notin Pk /\ g \in Groups /\ g = group[s]
  /\ count2 = [count EXCEPT ![g] = @ + 1]

LEMMA CountsPlus ==
  ASSUME NEW count, NEW sweep, NEW prio, NEW group, NEW In, NEW Pk, NEW s, NEW g, NEW count2,
         CountsUp(count, sweep, prio, group, In, Pk, s, g, count2)
  PROVE  /\ Counts(count2, sweep, prio, group, In, Pk \cup {s})
         /\ count2 \in [Groups -> Int]
  BY CountsMore DEF CountsUp

LEMMA CountsMoved ==
  ASSUME NEW count, NEW sweep, NEW prio, NEW group, NEW In, NEW Pk, NEW s, NEW t, NEW o, NEW g,
         NEW count2, NEW prio2, NEW group2, NEW In2,
         CountsMoves(count, sweep, prio, group, In, Pk, s, t, o, g, count2, prio2, group2, In2)
  PROVE  /\ Counts(count2, sweep, prio2, group2, In2, (Pk \ {s}) \cup {t})
         /\ count2 \in [Groups -> Int] /\ NotZero(count, o)
<1>1. PICK c, Q : c = [count EXCEPT ![o] = @ - 1] /\ Q = Pk \ {s}
  OBVIOUS
<1>2. /\ count \in [Groups -> Int] /\ s \in Pk /\ o \in Groups /\ o = group[s] /\ g \in Groups
      /\ t \in Sockets /\ t \notin Q /\ group2[t] = g /\ Same(Q, group2, group)
      /\ {x \in In2 : prio2[x] # 1} = {x \in In : prio[x] # 1}
      /\ count2 = Recount(count, o, g) /\ Counts(count, sweep, prio, group, In, Pk)
  BY <1>1 DEF CountsMoves
<1>3. CountsDown(count, sweep, prio, group, In, Pk, s, o, c)
  BY <1>1, <1>2 DEF CountsDown
<1>4. Counts(c, sweep, prio, group, In, Q) /\ c \in [Groups -> Int] /\ NotZero(count, o)
  BY ONLY <1>3, CountsLess, <1>1
<1>5. Counts(c, sweep, prio2, group2, In2, Q)
  BY ONLY <1>2, <1>4, CountsSame
<1>6. count2 = [c EXCEPT ![g] = @ + 1]
  <2>1. CASE o = g
    <3>1. count2 = count BY <1>2, <2>1 DEF Recount
    <3>2. /\ c = [count EXCEPT ![g] = @ - 1] /\ count \in [Groups -> Int] /\ g \in Groups
          /\ c \in [Groups -> Int]
      BY <1>1, <1>2, <1>4, <2>1
    <3>3. PICK a : a = [c EXCEPT ![g] = @ + 1] OBVIOUS
    <3>4. /\ a \in [Groups -> Int] /\ count \in [Groups -> Int]
          /\ \A x \in Groups : a[x] = count[x]
      BY ONLY <3>2, <3>3
    <3>5. a = count BY ONLY <3>4
    <3> QED BY <3>1, <3>3, <3>5
  <2>2. CASE o # g
    <3>1. count2 = [count EXCEPT ![o] = @ - 1, ![g] = @ + 1]
      BY <1>2, <2>2 DEF Recount
    <3>2. /\ c = [count EXCEPT ![o] = @ - 1] /\ count \in [Groups -> Int] /\ g \in Groups
          /\ o \in Groups /\ c \in [Groups -> Int]
      BY <1>1, <1>2, <1>4
    <3>3. PICK a, b : /\ a = [c EXCEPT ![g] = @ + 1]
                      /\ b = [count EXCEPT ![o] = @ - 1, ![g] = @ + 1]
      OBVIOUS
    <3>4. /\ a \in [Groups -> Int] /\ b \in [Groups -> Int]
          /\ \A x \in Groups : a[x] = b[x]
      BY ONLY <2>2, <3>2, <3>3
    <3>5. a = b BY ONLY <3>4
    <3> QED BY <3>1, <3>3, <3>5
  <2> QED BY <2>1, <2>2
<1>7. /\ Counts(count2, sweep, prio2, group2, In2, Q \cup {t})
      /\ count2 \in [Groups -> Int]
  <2>1. CountsUp(c, sweep, prio2, group2, In2, Q, t, g, count2)
    BY <1>2, <1>4, <1>5, <1>6 DEF CountsUp
  <2> QED BY ONLY <2>1, CountsPlus
<1> QED BY <1>1, <1>4, <1>7

Recounting(h, o, g) == [h EXCEPT !.count[o] = @ - 1, !.count[g] = @ + 1]

\* A parked socket of group o is about to be one of group g.
Leaving(h, Pk, s, o, g) ==
  /\ s \in Pk /\ h.prio[s] = 1 /\ o = h.group[s] /\ o \in Groups /\ g \in Groups /\ ~h.gone[g]
Left(h, k, o, g) ==
  /\ k.count = Recount(h.count, o, g)
  /\ LoopOK(k.gnext, k.gprev, k.loopHead, k.loopIter, k.linked, k.gone)
  /\ Busy(k.linked, h.head, h.listen, k.count, {})

\* us_socket_adopt of a parked socket: the counts of both groups, and their places on the loop.
LEMMA LeaveGroupOK ==
  ASSUME NEW h, NEW In, NEW C, NEW Pk, Exact(h, In, C, Pk, {}), NEW s, NEW o, NEW g,
         Leaving(h, Pk, s, o, g), NEW k, k = LeaveGroup(h, s, g)
  PROVE  /\ k \in Heaps /\ SameBut(h, k, {"count"} \cup LoopFields) /\ Left(h, k, o, g)
<1>1. /\ h \in Heaps /\ Counts(h.count, h.sweep, h.prio, h.group, In, Pk)
      /\ LoopOK(h.gnext, h.gprev, h.loopHead, h.loopIter, h.linked, h.gone)
      /\ Busy(h.linked, h.head, h.listen, h.count, {})
  BY ExactParts
<1>2. s \in Pk /\ h.prio[s] = 1 /\ o = h.group[s] /\ o \in Groups /\ g \in Groups /\ ~h.gone[g]
  BY DEF Leaving
<1>3. h.count \in [Groups -> Int] /\ IsHeap(h) /\ "count" \in Fields
  BY <1>1, HeapParts DEF Fields
<1>4. CASE o = g
  BY <1>2, <1>4, <1>1, <1>3 DEF LeaveGroup, Left, SameBut, Recount
<1>5. CASE o # g
  <2>1. PICK c, u, d : /\ c = Recounting(h, o, g) /\ u = Touched(c, g)
                       /\ d = [h.count EXCEPT ![o] = @ - 1, ![g] = @ + 1]
    OBVIOUS
  <2>2. k = MaybeUnlink(u, o)
    BY <1>2, <1>5, <2>1 DEF LeaveGroup, Recounting
  <2>3. SameBut(h, c, {"count"}) /\ c.count = d
    <3>1. c = [h EXCEPT !.count = d] BY <2>1 DEF Recounting
    <3> QED BY ONLY <1>3, <3>1, Zenon DEF SameBut, IsHeap
  <2>4. /\ d \in [Groups -> Int] /\ d[g] = h.count[g] + 1
        /\ \A x \in Groups \ {o, g} : d[x] = h.count[x]
    BY <1>2, <1>3, <1>5, <2>1
  <2>5. c \in Heaps BY <2>3, <2>4, TypesOf, <1>1, HeapBut DEF Typed
  <2>6. /\ c.gnext = h.gnext /\ c.gprev = h.gprev /\ c.loopHead = h.loopHead
        /\ c.loopIter = h.loopIter /\ c.linked = h.linked /\ c.gone = h.gone
        /\ c.head = h.head /\ c.listen = h.listen
    BY <2>3 DEF SameBut, Fields
  <2>7. /\ u \in Heaps /\ SameBut(c, u, LoopFields)
        /\ LoopOK(u.gnext, u.gprev, u.loopHead, u.loopIter, u.linked, u.gone)
        /\ u.linked[g] /\ \A x \in Groups \ {g} : u.linked[x] = h.linked[x]
    BY <1>1, <1>2, <2>6, <2>1, <2>5, TouchedOK
  <2>8. /\ k \in Heaps /\ SameBut(u, k, LoopFields)
        /\ LoopOK(k.gnext, k.gprev, k.loopHead, k.loopIter, k.linked, k.gone)
        /\ k.linked[o] <=> u.linked[o] /\ ~IsEmpty(u, o)
        /\ \A x \in Groups \ {o} : k.linked[x] = u.linked[x]
    <3>1. /\ o \in Groups /\ u \in Heaps
          /\ LoopOK(u.gnext, u.gprev, u.loopHead, u.loopIter, u.linked, u.gone)
      BY <1>2, <2>7
    <3> QED BY ONLY <2>2, <3>1, MaybeUnlinkOK
  <2>9. SameBut(h, k, {"count"} \cup LoopFields)
    BY ONLY <2>3, <2>7, <2>8 DEF SameBut
  <2>10. /\ u.count = d /\ u.head = h.head /\ u.listen = h.listen /\ k.count = d
    BY <2>7, <2>8, <2>3, <2>6 DEF SameBut, LoopFields, LinkFields, Fields
  <2>11. h.linked[o]
    <3>1. h.count[o] # 0
      <4>1. PICK e : e = [h.count EXCEPT ![o] = @ - 1] OBVIOUS
      <4>2. CountsDown(h.count, h.sweep, h.prio, h.group, In, Pk, s, o, e)
        BY <1>1, <1>2, <1>3, <4>1 DEF CountsDown
      <4>3. NotZero(h.count, o) BY ONLY <4>2, CountsLess
      <4> QED BY <4>3 DEF NotZero
    <3> QED BY <1>1, <1>2, <3>1 DEF Busy
  <2>12. d[g] # 0
    <3>1. h.count[g] \in Nat
      BY <1>1, <1>2, FiniteSockets, FS_CardinalityType DEF Counts
    <3> QED BY <2>4, <3>1
  <2>13. Busy(k.linked, h.head, h.listen, d, {})
    <3> SUFFICES ASSUME NEW x \in Groups
                 PROVE  k.linked[x] <=> ~(h.head[x] = Null /\ h.listen[x] = Null /\ d[x] = 0)
      BY DEF Busy
    <3>1. CASE x = o
      BY <1>2, <1>5, <2>7, <2>8, <2>10, <2>11, <3>1 DEF IsEmpty
    <3>2. CASE x = g BY <1>5, <2>7, <2>8, <2>12, <3>2
    <3>3. CASE x # o /\ x # g BY <2>4, <2>7, <2>8, <3>3, <1>1 DEF Busy
    <3> QED BY <3>1, <3>2, <3>3
  <2>14. Recount(h.count, o, g) = d BY <1>5, <2>1 DEF Recount
  <2> QED BY <2>8, <2>9, <2>10, <2>13, <2>14 DEF Left
<1> QED BY <1>4, <1>5

Requeued(n, t) ==
  [n EXCEPT !.lowHead = IF n.prev[t] = Null THEN t ELSE @,
            !.next = Put(@, n.prev[t], t),
            !.prev = Put(@, n.next[t], t)]
RequeueFields == {"lowHead", "next", "prev"}
Requeues(n, k, t) ==
  /\ k.lowHead = IF n.prev[t] = Null THEN t ELSE n.lowHead
  /\ k.next = Put(n.next, n.prev[t], t) /\ k.prev = Put(n.prev, n.next[t], t)

LEMMA RequeuedOK ==
  ASSUME NEW n \in Heaps, NEW t \in Sockets, NEW k, k = Requeued(n, t)
  PROVE  k \in Heaps /\ SameBut(n, k, RequeueFields) /\ Requeues(n, k, t)
<1>1. n.next \in PtrMap /\ n.prev \in PtrMap /\ n.lowHead \in Ptr /\ IsHeap(n)
  BY HeapParts
<1>2. SameBut(n, k, RequeueFields) /\ Requeues(n, k, t)
  <2>1. IsHeap(n) /\ {"lowHead", "next", "prev"} \subseteq Fields
    BY <1>1 DEF Fields
  <2> QED
    BY ONLY <2>1, k = Requeued(n, t), Zenon DEF SameBut, IsHeap, Requeued, RequeueFields, Requeues
<1>3. k.next \in PtrMap
  <2>1. PICK f, p : f = n.next /\ p = n.prev[t] OBVIOUS
  <2>2. f \in [Sockets -> Ptr] /\ p \in Ptr /\ t \in Ptr
    BY <1>1, <2>1 DEF PtrMap, Ptr
  <2>3. Put(f, p, t) \in [Sockets -> Ptr] BY ONLY <2>2 DEF Put, Ptr
  <2> QED BY <1>2, <2>1, <2>3 DEF Requeues, PtrMap
<1>4. k.prev \in PtrMap
  <2>1. PICK f, p : f = n.prev /\ p = n.next[t] OBVIOUS
  <2>2. f \in [Sockets -> Ptr] /\ p \in Ptr /\ t \in Ptr
    BY <1>1, <2>1 DEF PtrMap, Ptr
  <2>3. Put(f, p, t) \in [Sockets -> Ptr] BY ONLY <2>2 DEF Put, Ptr
  <2> QED BY <1>2, <2>1, <2>3 DEF Requeues, PtrMap
<1>5. k.lowHead \in Ptr BY <1>1, <1>2 DEF Requeues, Ptr
<1>6. Typed(k, RequeueFields)
  BY <1>3, <1>4, <1>5, TypesOf DEF Typed, RequeueFields
<1> QED BY <1>2, <1>6, HeapBut

KeepWrites(nx, pv, head, low, dead, prio, group, In, C, s, g, nx2, pv2, low2, group2) ==
  /\ nx \in PtrMap /\ pv \in PtrMap /\ group \in [Sockets -> GroupPtr]
  /\ SocketLists(nx, pv, head, low, dead, prio, group, In, C)
  /\ s \in In /\ prio[s] = 1 /\ g \in Groups
  /\ low2 = (IF pv[s] = Null THEN s ELSE low)
  /\ nx2 = Put(nx, pv[s], s) /\ pv2 = Put(pv, nx[s], s) /\ group2 = [group EXCEPT ![s] = g]

\* us_socket_adopt of a parked socket that keeps its address.
LEMMA ListsStayed ==
  ASSUME NEW nx, NEW pv, NEW head, NEW low, NEW dead, NEW prio, NEW group, NEW In, NEW C,
         NEW s, NEW g, NEW nx2, NEW pv2, NEW low2, NEW group2,
         KeepWrites(nx, pv, head, low, dead, prio, group, In, C, s, g, nx2, pv2, low2, group2)
  PROVE  /\ SocketLists(nx2, pv2, head, low2, dead, prio, group2, In, C)
         /\ Same(Sockets, nx2, nx) /\ Same(Sockets, pv2, pv) /\ Same(Sockets \ {s}, group2, group)
<1>1. /\ nx \in PtrMap /\ pv \in PtrMap /\ group \in [Sockets -> GroupPtr]
      /\ SocketLists(nx, pv, head, low, dead, prio, group, In, C)
      /\ s \in In /\ prio[s] = 1 /\ g \in Groups
      /\ low2 = (IF pv[s] = Null THEN s ELSE low)
      /\ nx2 = Put(nx, pv[s], s) /\ pv2 = Put(pv, nx[s], s) /\ group2 = [group EXCEPT ![s] = g]
  BY DEF KeepWrites
<1>2. low2 = low /\ nx2 = nx /\ pv2 = pv BY ONLY <1>1, ListsKept
<1>3. /\ \A x \in Sockets \ {s} : group2[x] = group[x]
      /\ s \in Sockets => group2[s] = g
  BY <1>1
<1>4. Places(prio, group2) = Places(prio, group)
  BY <1>1, <1>3 DEF Places
<1>5. \A x \in In : group2[x] \in Groups
  BY <1>1, <1>3 DEF SocketLists, Rows
<1>6. SocketLists(nx2, pv2, head, low2, dead, prio, group2, In, C)
  BY <1>1, <1>2, <1>4, <1>5 DEF SocketLists
<1> QED BY <1>2, <1>3, <1>6 DEF Same

ReplaceWrites(nx, pv, head, low, dead, prio, group, In, C, s, t, g, nx2, pv2, low2, prio2, group2) ==
  /\ nx \in PtrMap /\ pv \in PtrMap /\ dead \in Ptr /\ prio \in [Sockets -> 0..2]
  /\ group \in [Sockets -> GroupPtr]
  /\ SocketLists(nx, pv, head, low, dead, prio, group, In, C)
  /\ s \in In /\ prio[s] = 1 /\ g \in Groups /\ t \in Sockets /\ t \notin In /\ t \notin C
  /\ low2 = (IF pv[s] = Null THEN t ELSE low)
  /\ nx2 = Put([Copy(nx, s, t) EXCEPT ![s] = dead], pv[s], t)
  /\ pv2 = Put([Copy(pv, s, t) EXCEPT ![s] = t], nx[s], t)
  /\ prio2 = Copy(prio, s, t) /\ group2 = [Copy(group, s, t) EXCEPT ![t] = g]

Readdressed(nx2, pv2, dead, prio, s, t, g, prio2, group2) ==
  pv2[s] = t /\ nx2[s] = dead /\ prio2 = [prio EXCEPT ![t] = 1] /\ group2[t] = g

\* ... or gets a new one.
LEMMA ListsRenamed ==
  ASSUME NEW nx, NEW pv, NEW head, NEW low, NEW dead, NEW prio, NEW group, NEW In, NEW C,
         NEW s, NEW t, NEW g, NEW nx2, NEW pv2, NEW low2, NEW prio2, NEW group2,
         ReplaceWrites(nx, pv, head, low, dead, prio, group, In, C, s, t, g,
                       nx2, pv2, low2, prio2, group2)
  PROVE  /\ SocketLists(nx2, pv2, head, low2, s, prio2, group2, (In \ {s}) \cup {t}, C \cup {s})
         /\ Same(Sockets \ (In \cup {t}), pv2, pv) /\ Same(Sockets \ (In \cup {t}), nx2, nx)
         /\ Same(Sockets \ {t}, prio2, prio) /\ Same(Sockets \ {t}, group2, group)
         /\ Readdressed(nx2, pv2, dead, prio, s, t, g, prio2, group2)
<1>1. /\ nx \in PtrMap /\ pv \in PtrMap /\ dead \in Ptr /\ prio \in [Sockets -> 0..2]
      /\ group \in [Sockets -> GroupPtr]
      /\ SocketLists(nx, pv, head, low, dead, prio, group, In, C)
      /\ s \in In /\ prio[s] = 1 /\ g \in Groups /\ t \in Sockets /\ t \notin In /\ t \notin C
      /\ low2 = (IF pv[s] = Null THEN t ELSE low)
      /\ nx2 = Put([Copy(nx, s, t) EXCEPT ![s] = dead], pv[s], t)
      /\ pv2 = Put([Copy(pv, s, t) EXCEPT ![s] = t], nx[s], t)
      /\ prio2 = Copy(prio, s, t) /\ group2 = [Copy(group, s, t) EXCEPT ![t] = g]
  BY DEF ReplaceWrites
<1>2. PICK p, n, nx1, pv1 : /\ p = pv[s] /\ n = nx[s]
                            /\ nx1 = [[nx EXCEPT ![t] = n] EXCEPT ![s] = dead]
                            /\ pv1 = [[pv EXCEPT ![t] = p] EXCEPT ![s] = t]
  OBVIOUS
<1>3. nx2 = Put(nx1, p, t) /\ pv2 = Put(pv1, n, t) /\ prio2 = [prio EXCEPT ![t] = 1]
  BY <1>1, <1>2 DEF Copy
<1>4. /\ group2[t] \in Groups /\ group2[t] = g
      /\ \A x \in Sockets \ {t} : group2[x] = group[x] /\ prio2[x] = prio[x]
  BY <1>1, <1>3 DEF Copy
<1>5. \A x \in In \ {s} : group2[x] = group[x]
  BY <1>1, <1>4 DEF SocketLists, Rows
<1>6. low2 = (IF p = Null THEN t ELSE low) BY <1>1, <1>2
<1>7. /\ SocketLists(nx2, pv2, head, low2, s, prio2, group2, (In \ {s}) \cup {t}, C \cup {s})
      /\ Same(Sockets \ (In \cup {t}), pv2, pv) /\ Same(Sockets \ (In \cup {t}), nx2, nx)
      /\ Refers(nx2, pv2, s, dead, t)
  <2>1. Replacing(nx, pv, head, low, dead, prio, group, In, C, s, t, p, n,
                  low2, nx1, nx2, pv1, pv2, prio2, group2)
    BY <1>1, <1>2, <1>3, <1>4, <1>5, <1>6 DEF Replacing
  <2> QED BY ONLY <2>1, ListsReplaced
<1> QED BY <1>3, <1>4, <1>7 DEF Same, Readdressed, Refers

\* us_socket_adopt of a parked socket, at the same address ...
LEMMA RequeueHere ==
  ASSUME NEW h, NEW Z, World(h, Z), NEW s \in Open(h), h.prio[s] = 1, NEW g \in Groups,
         ~h.gone[g], NEW k, k = Adopt(h, s, g, s)
  PROVE  World(k, Z) /\ Aged(h, k)
<1>1. PICK In, C, P, o, l, n :
        /\ In = Open(h) /\ C = Shut(h) \ Z /\ P = Waits(h, In)
        /\ o = h.group[s] /\ l = LeaveGroup(h, s, g) /\ n = Moving(l, g, s)
  OBVIOUS
<1>2. Exact(h, In, C, P, {}) BY <1>1, WorldParts DEF Tidy
<1>3. s \in Sockets /\ s \in In /\ s \in P /\ In \subseteq Sockets /\ P \subseteq In
  BY <1>1 DEF Open, Waits
<1>4. /\ h \in Heaps
      /\ SocketLists(h.next, h.prev, h.head, h.lowHead, h.closedHead, h.prio, h.group, In, C)
      /\ Counts(h.count, h.sweep, h.prio, h.group, In, P)
      /\ Cursors(h.iter, h.prio, h.group, In) /\ o \in Groups
  BY <1>1, <1>2, <1>3, ExactParts
<1>5. Leaving(h, P, s, o, g) BY <1>1, <1>3, <1>4 DEF Leaving
<1>6. l \in Heaps /\ SameBut(h, l, {"count"} \cup LoopFields) /\ Left(h, l, o, g)
  <2>1. l = LeaveGroup(h, s, g) BY <1>1
  <2> QED BY ONLY <1>2, <1>5, <2>1, LeaveGroupOK
<1>7. n \in Heaps /\ SameBut(l, n, MoveFields) /\ Grouped(l, n, g, s)
  BY <1>1, <1>3, <1>6, MovedOK
<1>8. n.prio = h.prio
  BY <1>6, <1>7 DEF SameBut, LoopFields, LinkFields, Fields, MoveFields
<1>9. k = Requeued(n, s) BY <1>1, <1>8 DEF Adopt, Moving, Requeued
<1>10. k \in Heaps /\ SameBut(n, k, RequeueFields) /\ Requeues(n, k, s)
  BY <1>3, <1>7, <1>9, RequeuedOK
<1>11. SameBut(h, k, {"count"} \cup LoopFields \cup MoveFields \cup RequeueFields)
  BY ONLY <1>6, <1>7, <1>10 DEF SameBut
<1>12. /\ k.life = h.life /\ k.semi = h.semi /\ k.adopted = h.adopted /\ k.opened = h.opened
       /\ k.given = h.given /\ k.told = h.told /\ k.budget = h.budget /\ k.listen = h.listen
       /\ k.prio = h.prio /\ k.head = h.head /\ k.closedHead = h.closedHead
       /\ k.sweep = h.sweep /\ k.iter = h.iter /\ k.gone = h.gone
  BY <1>11 DEF SameBut, LoopFields, LinkFields, MoveFields, RequeueFields, Fields
<1>13. /\ n.next = h.next /\ n.prev = h.prev /\ n.lowHead = h.lowHead
       /\ k.group = n.group /\ l.group = h.group
       /\ k.count = l.count /\ k.gnext = l.gnext /\ k.gprev = l.gprev
       /\ k.loopHead = l.loopHead /\ k.loopIter = l.loopIter /\ k.linked = l.linked
       /\ k.gone = l.gone
  <2>1. /\ l.next = h.next /\ l.prev = h.prev /\ l.lowHead = h.lowHead /\ l.group = h.group
    BY <1>6 DEF SameBut, LoopFields, LinkFields, Fields
  <2>2. /\ n.next = l.next /\ n.prev = l.prev /\ n.lowHead = l.lowHead
        /\ n.count = l.count /\ n.gnext = l.gnext /\ n.gprev = l.gprev
        /\ n.loopHead = l.loopHead /\ n.loopIter = l.loopIter /\ n.linked = l.linked
        /\ n.gone = l.gone
    BY <1>7 DEF SameBut, MoveFields, Fields
  <2>3. /\ k.group = n.group /\ k.count = n.count /\ k.gnext = n.gnext /\ k.gprev = n.gprev
        /\ k.loopHead = n.loopHead /\ k.loopIter = n.loopIter /\ k.linked = n.linked
        /\ k.gone = n.gone
    BY <1>10 DEF SameBut, RequeueFields, Fields
  <2> QED BY <2>1, <2>2, <2>3
<1>14. /\ SocketLists(k.next, k.prev, h.head, k.lowHead, h.closedHead, h.prio, k.group, In, C)
       /\ Same(Sockets, k.next, h.next) /\ Same(Sockets, k.prev, h.prev)
       /\ Same(Sockets \ {s}, k.group, h.group)
  <2>1. KeepWrites(h.next, h.prev, h.head, h.lowHead, h.closedHead, h.prio, h.group, In, C, s, g,
                   k.next, k.prev, k.lowHead, k.group)
    <3>1. /\ h.next \in PtrMap /\ h.prev \in PtrMap /\ h.group \in [Sockets -> GroupPtr]
      BY <1>4, HeapParts
    <3>2. /\ k.lowHead = (IF h.prev[s] = Null THEN s ELSE h.lowHead)
          /\ k.next = Put(h.next, h.prev[s], s) /\ k.prev = Put(h.prev, h.next[s], s)
      BY <1>10, <1>13 DEF Requeues
    <3>3. k.group = [h.group EXCEPT ![s] = g]
      BY <1>7, <1>13 DEF Grouped
    <3> QED BY <1>3, <1>4, <3>1, <3>2, <3>3 DEF KeepWrites
  <2> QED BY ONLY <2>1, ListsStayed
<1>15. Counts(k.count, h.sweep, h.prio, k.group, In, P) 
  <2>1. CountsMoves(h.count, h.sweep, h.prio, h.group, In, P, s, s, o, g,
                    k.count, h.prio, k.group, In)
    <3>1. Same(P \ {s}, k.group, h.group) /\ k.group[s] = g
      BY <1>4, <1>7, <1>13, HeapParts, <1>3, <1>14 DEF Grouped, Same
    <3>2. k.count = Recount(h.count, o, g) BY <1>6, <1>13 DEF Left
    <3>3. h.count \in [Groups -> Int] BY <1>4, HeapParts
    <3> QED BY <1>1, <1>3, <1>4, <3>1, <3>2, <3>3 DEF CountsMoves
  <2>2. Counts(k.count, h.sweep, h.prio, k.group, In, (P \ {s}) \cup {s})
    BY ONLY <2>1, CountsMoved
  <2>3. (P \ {s}) \cup {s} = P BY <1>3
  <2> QED BY ONLY <2>2, <2>3
<1>16. Cursors(h.iter, h.prio, k.group, In)
  BY <1>3, <1>14, <1>4 DEF Same, Cursors
<1>17. Exact(k, In, C, P, {})
  <2>1. /\ LoopOK(l.gnext, l.gprev, l.loopHead, l.loopIter, l.linked, l.gone)
        /\ Busy(l.linked, h.head, h.listen, l.count, {})
    BY <1>6 DEF Left
  <2> QED BY <1>10, <1>12, <1>13, <1>14, <1>15, <1>16, <2>1 DEF Exact
<1>18. Exact(k, In, C, Waits(k, In), {})
  BY <1>1, <1>12, <1>17 DEF Waits
<1>19. Unnamed(h, k) BY <1>12 DEF Unnamed
<1>20. Elsewhere(h, k, s) BY <1>12, <1>14 DEF Elsewhere, Same
<1> QED
  BY ONLY World(h, Z), s \in Open(h), <1>1, <1>18, <1>19, <1>20, StayedWorld

\* ... and at a new one, which takes its place in the queue.
LEMMA RequeueThere ==
  ASSUME NEW h, NEW Z, World(h, Z), NEW s \in Open(h), h.prio[s] = 1, NEW g \in Groups,
         ~h.gone[g], NEW t \in Sockets, h.life[t] = "unused", NEW k, k = Adopt(h, s, g, t)
  PROVE  World(k, Z) /\ Aged(h, k)
<1>1. PICK In, C, P, Q, D, J, o, l, m, n :
        /\ In = Open(h) /\ C = Shut(h) \ Z /\ P = Waits(h, In)
        /\ Q = (P \ {s}) \cup {t} /\ D = C \cup {s} /\ J = (In \ {s}) \cup {t}
        /\ o = h.group[s] /\ l = LeaveGroup(h, s, g) /\ m = Realloc(l, s, t) /\ n = Moving(m, g, t)
  OBVIOUS
<1>2. Exact(h, In, C, P, {}) BY <1>1, WorldParts DEF Tidy
<1>3. /\ s \in Sockets /\ s \in In /\ s \in P /\ In \subseteq Sockets /\ P \subseteq In
      /\ s # t /\ t \notin In /\ t \notin P /\ t \notin C /\ C \subseteq Shut(h)
  BY <1>1 DEF Open, Waits, Shut
<1>4. /\ h \in Heaps
      /\ SocketLists(h.next, h.prev, h.head, h.lowHead, h.closedHead, h.prio, h.group, In, C)
      /\ Counts(h.count, h.sweep, h.prio, h.group, In, P)
      /\ Cursors(h.iter, h.prio, h.group, In) /\ o \in Groups
  BY <1>1, <1>2, <1>3, ExactParts
<1>5. Leaving(h, P, s, o, g) BY <1>1, <1>3, <1>4 DEF Leaving
<1>6. l \in Heaps /\ SameBut(h, l, {"count"} \cup LoopFields) /\ Left(h, l, o, g)
  <2>1. l = LeaveGroup(h, s, g) BY <1>1
  <2> QED BY ONLY <1>2, <1>5, <2>1, LeaveGroupOK
<1>7. /\ m \in Heaps /\ SameBut(l, m, ResizeFields) /\ Renamed(l, m, s, t) /\ Relinked(l, m, s, t)
  BY <1>1, <1>3, <1>6, ResizedOK
<1>8. n \in Heaps /\ SameBut(m, n, MoveFields) /\ Grouped(m, n, g, t)
  BY <1>1, <1>7, MovedOK
<1>9. /\ l.next = h.next /\ l.prev = h.prev /\ l.group = h.group /\ l.prio = h.prio
      /\ l.closedHead = h.closedHead /\ l.lowHead = h.lowHead /\ l.life = h.life
      /\ l.semi = h.semi /\ l.adopted = h.adopted /\ l.opened = h.opened /\ l.given = h.given
      /\ l.told = h.told /\ l.budget = h.budget /\ l.listen = h.listen /\ l.head = h.head
      /\ l.sweep = h.sweep /\ l.iter = h.iter
  BY <1>6 DEF SameBut, LoopFields, LinkFields, Fields
<1>10. /\ m.next = [Copy(h.next, s, t) EXCEPT ![s] = h.closedHead]
       /\ m.prev = [Copy(h.prev, s, t) EXCEPT ![s] = t]
       /\ m.group = Copy(h.group, s, t) /\ m.prio = Copy(h.prio, s, t) /\ m.closedHead = s
  BY <1>7, <1>9 DEF Relinked
<1>11. /\ m.lowHead = l.lowHead /\ m.told = l.told /\ m.budget = l.budget /\ m.listen = l.listen
       /\ m.head = l.head /\ m.sweep = l.sweep /\ m.iter = l.iter /\ m.count = l.count
       /\ m.gnext = l.gnext /\ m.gprev = l.gprev /\ m.loopHead = l.loopHead
       /\ m.loopIter = l.loopIter /\ m.linked = l.linked /\ m.gone = l.gone
  BY <1>7 DEF SameBut, ResizeFields, Fields
<1>12. /\ n.next = m.next /\ n.prev = m.prev /\ n.prio = m.prio /\ n.closedHead = m.closedHead
       /\ n.lowHead = m.lowHead /\ n.told = m.told /\ n.budget = m.budget /\ n.listen = m.listen
       /\ n.head = m.head /\ n.sweep = m.sweep /\ n.iter = m.iter /\ n.count = m.count
       /\ n.gnext = m.gnext /\ n.gprev = m.gprev /\ n.loopHead = m.loopHead
       /\ n.loopIter = m.loopIter /\ n.linked = m.linked /\ n.gone = m.gone
       /\ n.life = m.life /\ n.semi = m.semi /\ n.adopted = m.adopted /\ n.opened = m.opened
       /\ n.given = m.given
  BY <1>8 DEF SameBut, MoveFields, Fields
<1>13. /\ h.next \in PtrMap /\ h.prev \in PtrMap /\ h.group \in [Sockets -> GroupPtr]
       /\ h.prio \in [Sockets -> 0..2] /\ h.closedHead \in Ptr /\ h.count \in [Groups -> Int]
  BY <1>4, HeapParts
<1>14. n.prio[t] = 1 /\ n.prev[t] = h.prev[s] /\ n.next[t] = h.next[s]
  BY <1>3, <1>10, <1>12, <1>13 DEF Copy, PtrMap
<1>15. k = Requeued(n, t)
  <2>1. l = LeaveGroup(h, s, g) /\ n = Moving(m, g, t) /\ m = IF t = s THEN l ELSE Realloc(l, s, t)
    BY <1>1, <1>3
  <2>2. k = IF n.prio[t] = 1 THEN Requeued(n, t) ELSE LinkSocket(n, g, t)
    <3>1. Adopt(h, s, g, t) =
            LET x == Moving(IF t = s THEN LeaveGroup(h, s, g)
                            ELSE Realloc(LeaveGroup(h, s, g), s, t), g, t)
            IN  IF x.prio[t] = 1 THEN Requeued(x, t) ELSE LinkSocket(x, g, t)
      BY ONLY Zenon DEF Adopt, Moving, Requeued
    <3> QED BY ONLY <2>1, <3>1, k = Adopt(h, s, g, t)
  <2> QED BY <1>14, <2>2
<1>16. k \in Heaps /\ SameBut(n, k, RequeueFields) /\ Requeues(n, k, t)
  BY <1>8, <1>15, RequeuedOK
<1>17. /\ k.prio = n.prio /\ k.closedHead = n.closedHead /\ k.group = n.group
       /\ k.told = n.told /\ k.budget = n.budget /\ k.listen = n.listen
       /\ k.head = n.head /\ k.sweep = n.sweep /\ k.iter = n.iter /\ k.count = n.count
       /\ k.gnext = n.gnext /\ k.gprev = n.gprev /\ k.loopHead = n.loopHead
       /\ k.loopIter = n.loopIter /\ k.linked = n.linked /\ k.gone = n.gone
       /\ k.life = n.life /\ k.semi = n.semi /\ k.adopted = n.adopted /\ k.opened = n.opened
       /\ k.given = n.given
  BY <1>16 DEF SameBut, RequeueFields, Fields
<1>18. /\ SocketLists(k.next, k.prev, h.head, k.lowHead, s, k.prio, k.group, J, D)
       /\ Same(Sockets \ (In \cup {t}), k.prev, h.prev)
       /\ Same(Sockets \ (In \cup {t}), k.next, h.next)
       /\ Same(Sockets \ {t}, k.prio, h.prio) /\ Same(Sockets \ {t}, k.group, h.group)
       /\ Readdressed(k.next, k.prev, h.closedHead, h.prio, s, t, g, k.prio, k.group)
  <2>1. ReplaceWrites(h.next, h.prev, h.head, h.lowHead, h.closedHead, h.prio, h.group, In, C,
                      s, t, g, k.next, k.prev, k.lowHead, k.prio, k.group)
    <3>1. /\ k.lowHead = (IF h.prev[s] = Null THEN t ELSE h.lowHead)
          /\ k.next = Put([Copy(h.next, s, t) EXCEPT ![s] = h.closedHead], h.prev[s], t)
          /\ k.prev = Put([Copy(h.prev, s, t) EXCEPT ![s] = t], h.next[s], t)
      BY <1>9, <1>10, <1>11, <1>12, <1>14, <1>16 DEF Requeues
    <3>2. k.prio = Copy(h.prio, s, t) /\ k.group = [Copy(h.group, s, t) EXCEPT ![t] = g]
      BY <1>8, <1>10, <1>12, <1>17 DEF Grouped
    <3> QED BY <1>3, <1>4, <1>13, <3>1, <3>2 DEF ReplaceWrites
  <2>2. /\ SocketLists(k.next, k.prev, h.head, k.lowHead, s, k.prio, k.group,
                       (In \ {s}) \cup {t}, C \cup {s})
        /\ Same(Sockets \ (In \cup {t}), k.prev, h.prev)
        /\ Same(Sockets \ (In \cup {t}), k.next, h.next)
        /\ Same(Sockets \ {t}, k.prio, h.prio) /\ Same(Sockets \ {t}, k.group, h.group)
        /\ Readdressed(k.next, k.prev, h.closedHead, h.prio, s, t, g, k.prio, k.group)
    BY ONLY <2>1, ListsRenamed
  <2> QED BY ONLY <1>1, <2>2
<1>19. /\ k.prev[s] = t /\ k.next[s] = h.closedHead /\ k.prio[t] = 1 /\ k.group[t] = g
       /\ \A x \in Sockets \ {t} : k.prio[x] = h.prio[x] /\ k.group[x] = h.group[x]
  BY <1>13, <1>18 DEF Readdressed, Same
<1>20. {x \in J : k.prio[x] # 1} = {x \in In : h.prio[x] # 1}
  BY <1>1, <1>3, <1>19
<1>21. Counts(k.count, h.sweep, k.prio, k.group, J, Q)
  <2>1. CountsMoves(h.count, h.sweep, h.prio, h.group, In, P, s, t, o, g,
                    k.count, k.prio, k.group, J)
    <3>1. Same(P \ {s}, k.group, h.group) BY <1>3, <1>19 DEF Same
    <3>2. k.count = Recount(h.count, o, g)
      BY <1>6, <1>11, <1>12, <1>17 DEF Left
    <3>3. t \notin P \ {s} BY <1>3
    <3> QED
      BY <1>1, <1>3, <1>4, <1>13, <1>19, <1>20, <3>1, <3>2, <3>3 DEF CountsMoves
  <2>2. Counts(k.count, h.sweep, k.prio, k.group, J, (P \ {s}) \cup {t})
    BY ONLY <2>1, CountsMoved
  <2> QED BY ONLY <1>1, <2>2
<1>22. Cursors(h.iter, k.prio, k.group, J)
  BY <1>1, <1>3, <1>19, <1>4 DEF Cursors
<1>23. Exact(k, J, D, Q, {})
  <2>1. /\ LoopOK(l.gnext, l.gprev, l.loopHead, l.loopIter, l.linked, l.gone)
        /\ Busy(l.linked, h.head, h.listen, l.count, {})
    BY <1>6 DEF Left
  <2> QED
    BY <1>9, <1>10, <1>11, <1>12, <1>16, <1>17, <1>18, <1>21, <1>22, <2>1 DEF Exact
<1>24. Exact(k, J, D, Waits(k, J), {})
  <2>1. Waits(k, J) = Q BY <1>1, <1>3, <1>19 DEF Waits
  <2> QED BY <1>23, <2>1
<1>25. Renamed(h, k, s, t)
  <2>1. /\ m.life = [Copy(l.life, s, t) EXCEPT ![s] = "closed"]
        /\ m.semi = Copy(l.semi, s, t)
        /\ m.adopted = [l.adopted EXCEPT ![s] = TRUE]
        /\ m.opened = IF s \in l.opened THEN l.opened \cup {t} ELSE l.opened
        /\ m.given = l.given \cup {s}
    BY <1>7 DEF Renamed
  <2>2. /\ k.life = m.life /\ k.semi = m.semi /\ k.adopted = m.adopted
        /\ k.opened = m.opened /\ k.given = m.given
    BY <1>12, <1>17
  <2>3. /\ l.life = h.life /\ l.semi = h.semi /\ l.adopted = h.adopted
        /\ l.opened = h.opened /\ l.given = h.given
    BY <1>9
  <2> QED BY ONLY <2>1, <2>2, <2>3, Zenon DEF Renamed
<1>26. Elsewhere(h, k, t)
  <2>1. k.told = h.told /\ k.budget = h.budget /\ k.listen = h.listen
    BY <1>9, <1>11, <1>12, <1>17
  <2>2. Same(Sockets \ (In \cup {t}), k.prio, h.prio) /\ Same(Sockets \ (In \cup {t}), k.group, h.group)
    BY <1>19 DEF Same
  <2> QED BY <1>1, <1>18, <2>1, <2>2 DEF Elsewhere
<1>27. Forwards(h, k, s, t)
  <2>1. h.closedHead \in C \cup {Null}
    BY <1>4 DEF SocketLists, Rows, Single
  <2>2. Leads(h.life, h.closedHead)
    BY <1>3, <2>1 DEF Leads, InUse, Shut
  <2> QED BY <1>19, <2>2 DEF Forwards
<1>28. J = (Open(h) \ {s}) \cup {t} /\ D = (Shut(h) \ Z) \cup {s}
  BY <1>1
<1> QED
  BY ONLY World(h, Z), s \in Open(h), t \in Sockets, h.life[t] = "unused", <1>24, <1>25, <1>26,
          <1>27, <1>28, AdoptedWorld

\* us_socket_adopt.
LEMMA AdoptOK ==
  ASSUME NEW h, NEW Z, World(h, Z), NEW s \in Open(h), NEW g \in Groups, ~h.gone[g],
         NEW t \in Sockets, t = s \/ h.life[t] = "unused", NEW k, k = Adopt(h, s, g, t)
  PROVE  World(k, Z) /\ Aged(h, k)
<1>1. CASE t = s
  <2>1. k = Adopt(h, s, g, s) BY <1>1
  <2>2. CASE h.prio[s] = 1
    BY ONLY World(h, Z), s \in Open(h), <2>2, g \in Groups, ~h.gone[g], <2>1, RequeueHere
  <2>3. CASE h.prio[s] # 1
    BY ONLY World(h, Z), s \in Open(h), <2>3, g \in Groups, ~h.gone[g], <2>1, AdoptHere
  <2> QED BY <2>2, <2>3
<1>2. CASE h.life[t] = "unused"
  <2>1. CASE h.prio[s] = 1
    BY ONLY World(h, Z), s \in Open(h), <1>2, <2>1, g \in Groups, ~h.gone[g], t \in Sockets,
            k = Adopt(h, s, g, t), RequeueThere
  <2>2. CASE h.prio[s] # 1
    BY ONLY World(h, Z), s \in Open(h), <1>2, <2>2, g \in Groups, ~h.gone[g], t \in Sockets,
            k = Adopt(h, s, g, t), AdoptThere
  <2> QED BY <2>1, <2>2
<1> QED BY <1>1, <1>2

-----------------------------------------------------------------------------
(* The C stack: its frames, and what they may still dereference.           *)

Stages == {"write", "read", "fin", "end", "close"}
UserFrames == [k : {"user"}]
TickFrames == [k : {"tick"}, live : BOOLEAN]
PollFrames == [k : {"poll"}, s : Sockets, todo : Seq(Stages), hop : BOOLEAN]
AcceptFrames == [k : {"accept"}, ls : Sockets, s : Ptr]
SocketFrames == [k : {"close", "ssl", "semi"}, s : Sockets]
AllFrames ==
  [k : {"all"}, g : Groups, phase : {"walk", "force", "queue"}, cur : Ptr, ticked : BOOLEAN]
SweepFrames ==
  [k : {"sweep"}, at : {"group", "short", "long"}, g : GroupPtr, s : Ptr, ticked : BOOLEAN]
FrameSet ==
  UserFrames \cup TickFrames \cup PollFrames \cup AcceptFrames \cup SocketFrames
    \cup AllFrames \cup SweepFrames

\* The sockets that the frame f will look at are not freed.
FrameOK(life, f) ==
  /\ f.k \in {"poll", "close", "ssl", "semi"} => InUse(life, f.s)
  /\ f.k = "accept" => life[f.ls] \in {"listen", "closed"} /\ Leads(life, f.s)
  /\ f.k = "all" => Leads(life, f.cur)
  /\ f.k = "sweep" /\ f.at # "group" => f.g \in Groups /\ InUse(life, f.s)

\* Z are the sockets being closed, each by one frame; a tick is nested in a tick.
StackOK(life, Z, st) ==
  /\ st \in Seq(FrameSet)
  /\ \A i \in 1..Len(st) : FrameOK(life, st[i])
  /\ \A i \in 1..Len(st) : st[i].k = "close" => st[i].s \in Z
  /\ \A z \in Z : \E i \in 1..Len(st) : st[i].k = "close" /\ st[i].s = z
  /\ \A i, j \in 1..Len(st) :
       st[i].k = "close" /\ st[j].k = "close" /\ st[i].s = st[j].s => i = j
  /\ \A i \in 1..Len(st) : st[i].k = "tick" => st[Len(st)].k = "tick"

Calm(life, f) ==
  f \in FrameSet /\ FrameOK(life, f) /\ f.k # "close" /\ f.k # "tick"

LEMMA FrameKinds ==
  ASSUME NEW f \in FrameSet
  PROVE  /\ f.k \in {"user", "tick", "poll", "accept", "close", "ssl", "semi", "all", "sweep"}
         /\ f.k = "user" => f = User
         /\ f.k = "tick" => f \in TickFrames
         /\ f.k = "poll" => f \in PollFrames
         /\ f.k = "accept" => f \in AcceptFrames
         /\ f.k \in {"close", "ssl", "semi"} => f \in SocketFrames
         /\ f.k = "all" => f \in AllFrames
         /\ f.k = "sweep" => f \in SweepFrames
<1>1. CASE f \in UserFrames BY <1>1 DEF UserFrames, User
<1>2. CASE f \in TickFrames BY <1>2 DEF TickFrames
<1>3. CASE f \in PollFrames BY <1>3 DEF PollFrames
<1>4. CASE f \in AcceptFrames BY <1>4 DEF AcceptFrames
<1>5. CASE f \in SocketFrames BY <1>5 DEF SocketFrames
<1>6. CASE f \in AllFrames BY <1>6 DEF AllFrames
<1>7. CASE f \in SweepFrames BY <1>7 DEF SweepFrames
<1> QED BY <1>1, <1>2, <1>3, <1>4, <1>5, <1>6, <1>7 DEF FrameSet

\* A frame stays good while sockets are opened, closed and adopted.
LEMMA FrameAged ==
  ASSUME NEW h, NEW k, Aged(h, k), NEW f \in FrameSet, FrameOK(h.life, f)
  PROVE  FrameOK(k.life, f)
<1>1. \A x : InUse(h.life, x) => InUse(k.life, x) BY DEF Aged, InUse
<1>2. \A x : Leads(h.life, x) => Leads(k.life, x) BY <1>1 DEF Leads
<1>3. ASSUME f.k = "accept"
      PROVE  k.life[f.ls] \in {"listen", "closed"} /\ Leads(k.life, f.s)
  BY <1>3, FrameKinds, <1>2 DEF AcceptFrames, FrameOK, Aged
<1> QED BY <1>1, <1>2, <1>3 DEF FrameOK

LEMMA StackAged ==
  ASSUME NEW h, NEW k, Aged(h, k), NEW Z, NEW st, StackOK(h.life, Z, st)
  PROVE  StackOK(k.life, Z, st)
  BY FrameAged DEF StackOK

LEMMA Cons ==
  ASSUME NEW S, NEW st \in Seq(S), NEW f \in S, NEW c, c = <<f>> \o st
  PROVE  /\ c \in Seq(S) /\ Len(c) = Len(st) + 1 /\ c[1] = f /\ Len(st) \in Nat
         /\ \A i \in 1..Len(st) : c[i+1] = st[i]
         /\ \A i \in 1..Len(c) : i = 1 \/ (i - 1 \in 1..Len(st) /\ c[i] = st[i-1])
         /\ c # <<>> /\ Head(c) = f /\ Tail(c) = st
  OBVIOUS

LEMMA Decons ==
  ASSUME NEW S, NEW c \in Seq(S), c # <<>>, NEW st, st = Tail(c), NEW f, f = Head(c)
  PROVE  /\ st \in Seq(S) /\ Len(c) = Len(st) + 1 /\ c[1] = f /\ Len(st) \in Nat /\ f \in S
         /\ \A i \in 1..Len(st) : i + 1 \in 1..Len(c) /\ st[i] = c[i+1]
         /\ 1 \in 1..Len(c) /\ Len(c) \in 1..Len(c)
  OBVIOUS

\* A call that is neither a tick nor waits for an on_close.
LEMMA PushOK ==
  ASSUME NEW life, NEW Z, NEW st, StackOK(life, Z, st), NEW f, Calm(life, f),
         NEW c, c = <<f>> \o st
  PROVE  StackOK(life, Z, c)
<1>1. /\ st \in Seq(FrameSet) /\ f \in FrameSet /\ FrameOK(life, f)
      /\ f.k # "close" /\ f.k # "tick"
  BY DEF StackOK, Calm
<1>2. /\ c \in Seq(FrameSet) /\ Len(c) = Len(st) + 1 /\ c[1] = f /\ Len(st) \in Nat
      /\ \A i \in 1..Len(st) : c[i+1] = st[i]
      /\ \A i \in 1..Len(c) : i = 1 \/ (i - 1 \in 1..Len(st) /\ c[i] = st[i-1])
  BY <1>1, Cons
<1>3. \A i \in 1..Len(c) : FrameOK(life, c[i])
  BY <1>1, <1>2 DEF StackOK
<1>4. \A i \in 1..Len(c) : c[i].k = "close" => c[i].s \in Z
  BY <1>1, <1>2 DEF StackOK
<1>5. \A z \in Z : \E i \in 1..Len(c) : c[i].k = "close" /\ c[i].s = z
  <2> SUFFICES ASSUME NEW z \in Z PROVE \E i \in 1..Len(c) : c[i].k = "close" /\ c[i].s = z
    OBVIOUS
  <2>1. PICK i \in 1..Len(st) : st[i].k = "close" /\ st[i].s = z
    BY DEF StackOK
  <2>2. i + 1 \in 1..Len(c) /\ c[i+1] = st[i] BY <1>2
  <2> QED BY <2>1, <2>2
<1>6. ASSUME NEW i \in 1..Len(c), NEW j \in 1..Len(c),
             c[i].k = "close", c[j].k = "close", c[i].s = c[j].s
      PROVE  i = j
  <2>1. /\ i - 1 \in 1..Len(st) /\ c[i] = st[i-1] /\ j - 1 \in 1..Len(st) /\ c[j] = st[j-1]
    BY <1>1, <1>2, <1>6
  <2>2. i - 1 = j - 1 BY <1>6, <2>1 DEF StackOK
  <2> QED BY <1>2, <2>1, <2>2
<1>7. ASSUME NEW i \in 1..Len(c), c[i].k = "tick"
      PROVE  c[Len(c)].k = "tick"
  <2>1. i - 1 \in 1..Len(st) /\ st[i-1].k = "tick" BY <1>1, <1>2, <1>7
  <2>2. st[Len(st)].k = "tick" /\ Len(st) \in 1..Len(st)
    BY <1>2, <2>1 DEF StackOK
  <2>3. c[Len(st) + 1] = st[Len(st)] BY <1>2, <2>2
  <2> QED BY <1>2, <2>2, <2>3
<1> QED BY <1>2, <1>3, <1>4, <1>5, <1>6, <1>7 DEF StackOK

\* A call that waits for the on_close of the socket s.
LEMMA PushCloseOK ==
  ASSUME NEW life, NEW Z, NEW st, StackOK(life, Z, st), NEW s \in Sockets, InUse(life, s), s \notin Z,
         NEW f, f = [k |-> "close", s |-> s], NEW c, c = <<f>> \o st
  PROVE  StackOK(life, Z \cup {s}, c)
<1>1. /\ st \in Seq(FrameSet) /\ f \in FrameSet /\ FrameOK(life, f) /\ f.k = "close" /\ f.s = s
  BY DEF StackOK, FrameOK, FrameSet, SocketFrames
<1>2. /\ c \in Seq(FrameSet) /\ Len(c) = Len(st) + 1 /\ c[1] = f /\ Len(st) \in Nat
      /\ \A i \in 1..Len(st) : c[i+1] = st[i]
      /\ \A i \in 1..Len(c) : i = 1 \/ (i - 1 \in 1..Len(st) /\ c[i] = st[i-1])
  BY <1>1, Cons
<1>3. \A i \in 1..Len(c) : FrameOK(life, c[i])
  BY <1>1, <1>2 DEF StackOK
<1>4. \A i \in 1..Len(c) : c[i].k = "close" => c[i].s \in Z \cup {s}
  BY <1>1, <1>2 DEF StackOK
<1>5. \A z \in Z \cup {s} : \E i \in 1..Len(c) : c[i].k = "close" /\ c[i].s = z
  <2> SUFFICES ASSUME NEW z \in Z \cup {s}
               PROVE  \E i \in 1..Len(c) : c[i].k = "close" /\ c[i].s = z
    OBVIOUS
  <2>1. CASE z = s BY <1>2, <1>1, <2>1
  <2>2. CASE z \in Z
    <3>1. PICK i \in 1..Len(st) : st[i].k = "close" /\ st[i].s = z
      BY <2>2 DEF StackOK
    <3>2. i + 1 \in 1..Len(c) /\ c[i+1] = st[i] BY <1>2
    <3> QED BY <3>1, <3>2
  <2> QED BY <2>1, <2>2
<1>6. ASSUME NEW i \in 1..Len(c), NEW j \in 1..Len(c),
             c[i].k = "close", c[j].k = "close", c[i].s = c[j].s
      PROVE  i = j
  <2>1. \A x \in 1..Len(c) : x # 1 /\ c[x].k = "close" => c[x].s \in Z
    BY <1>2 DEF StackOK
  <2>2. CASE i = 1 \/ j = 1 BY <1>1, <1>2, <1>6, <2>1, <2>2
  <2>3. CASE i # 1 /\ j # 1
    <3>1. /\ i - 1 \in 1..Len(st) /\ c[i] = st[i-1] /\ j - 1 \in 1..Len(st) /\ c[j] = st[j-1]
      BY <1>2, <2>3
    <3>2. i - 1 = j - 1 BY <1>6, <3>1 DEF StackOK
    <3> QED BY <1>2, <3>1, <3>2
  <2> QED BY <2>2, <2>3
<1>7. ASSUME NEW i \in 1..Len(c), c[i].k = "tick"
      PROVE  c[Len(c)].k = "tick"
  <2>1. i - 1 \in 1..Len(st) /\ st[i-1].k = "tick" BY <1>1, <1>2, <1>7
  <2>2. st[Len(st)].k = "tick" /\ Len(st) \in 1..Len(st)
    BY <1>2, <2>1 DEF StackOK
  <2>3. c[Len(st) + 1] = st[Len(st)] BY <1>2, <2>2
  <2> QED BY <1>2, <2>2, <2>3
<1> QED BY <1>2, <1>3, <1>4, <1>5, <1>6, <1>7 DEF StackOK

\* A tick, the first or under another.
LEMMA PushTickOK ==
  ASSUME NEW life, NEW Z, NEW st, StackOK(life, Z, st),
         st = <<>> \/ \E i \in 1..Len(st) : st[i].k = "tick",
         NEW f \in TickFrames, NEW c, c = <<f>> \o st
  PROVE  StackOK(life, Z, c)
<1>1. /\ st \in Seq(FrameSet) /\ f \in FrameSet /\ FrameOK(life, f) /\ f.k = "tick"
  BY DEF StackOK, FrameOK, FrameSet, TickFrames
<1>2. /\ c \in Seq(FrameSet) /\ Len(c) = Len(st) + 1 /\ c[1] = f /\ Len(st) \in Nat
      /\ \A i \in 1..Len(st) : c[i+1] = st[i]
      /\ \A i \in 1..Len(c) : i = 1 \/ (i - 1 \in 1..Len(st) /\ c[i] = st[i-1])
  BY <1>1, Cons
<1>3. \A i \in 1..Len(c) : FrameOK(life, c[i])
  BY <1>1, <1>2 DEF StackOK
<1>4. \A i \in 1..Len(c) : c[i].k = "close" => c[i].s \in Z
  BY <1>1, <1>2 DEF StackOK
<1>5. \A z \in Z : \E i \in 1..Len(c) : c[i].k = "close" /\ c[i].s = z
  <2> SUFFICES ASSUME NEW z \in Z PROVE \E i \in 1..Len(c) : c[i].k = "close" /\ c[i].s = z
    OBVIOUS
  <2>1. PICK i \in 1..Len(st) : st[i].k = "close" /\ st[i].s = z
    BY DEF StackOK
  <2>2. i + 1 \in 1..Len(c) /\ c[i+1] = st[i] BY <1>2
  <2> QED BY <2>1, <2>2
<1>6. ASSUME NEW i \in 1..Len(c), NEW j \in 1..Len(c),
             c[i].k = "close", c[j].k = "close", c[i].s = c[j].s
      PROVE  i = j
  <2>1. /\ i - 1 \in 1..Len(st) /\ c[i] = st[i-1] /\ j - 1 \in 1..Len(st) /\ c[j] = st[j-1]
    BY <1>1, <1>2, <1>6
  <2>2. i - 1 = j - 1 BY <1>6, <2>1 DEF StackOK
  <2> QED BY <1>2, <2>1, <2>2
<1>7. c[Len(c)].k = "tick"
  <2>1. CASE st = <<>> BY <1>1, <1>2, <2>1
  <2>2. CASE st # <<>> BY <1>2, <2>2 DEF StackOK
  <2> QED BY <2>1, <2>2
<1> QED BY <1>2, <1>3, <1>4, <1>5, <1>6, <1>7 DEF StackOK

\* A function returns that waited for no on_close.
LEMMA PopOK ==
  ASSUME NEW life, NEW Z, NEW c, StackOK(life, Z, c), c # <<>>, NEW f, f = Head(c), f.k # "close",
         NEW st, st = Tail(c)
  PROVE  StackOK(life, Z, st) /\ f \in FrameSet /\ FrameOK(life, f)
<1>1. c \in Seq(FrameSet) BY DEF StackOK
<1>2. /\ st \in Seq(FrameSet) /\ Len(c) = Len(st) + 1 /\ c[1] = f /\ Len(st) \in Nat /\ f \in FrameSet
      /\ \A i \in 1..Len(st) : i + 1 \in 1..Len(c) /\ st[i] = c[i+1]
      /\ 1 \in 1..Len(c) /\ Len(c) \in 1..Len(c)
  BY <1>1, Decons
<1>3. FrameOK(life, f) /\ \A i \in 1..Len(st) : FrameOK(life, st[i])
  BY <1>2 DEF StackOK
<1>4. \A i \in 1..Len(st) : st[i].k = "close" => st[i].s \in Z
  BY <1>2 DEF StackOK
<1>5. \A z \in Z : \E i \in 1..Len(st) : st[i].k = "close" /\ st[i].s = z
  <2> SUFFICES ASSUME NEW z \in Z PROVE \E i \in 1..Len(st) : st[i].k = "close" /\ st[i].s = z
    OBVIOUS
  <2>1. PICK i \in 1..Len(c) : c[i].k = "close" /\ c[i].s = z
    BY DEF StackOK
  <2>2. i # 1 BY <1>2, <2>1
  <2>3. i - 1 \in 1..Len(st) /\ st[i-1] = c[(i-1)+1] /\ (i-1)+1 = i
    BY <1>2, <2>2
  <2> QED BY <2>1, <2>3
<1>6. ASSUME NEW i \in 1..Len(st), NEW j \in 1..Len(st),
             st[i].k = "close", st[j].k = "close", st[i].s = st[j].s
      PROVE  i = j
  BY <1>2, <1>6 DEF StackOK
<1>7. ASSUME NEW i \in 1..Len(st), st[i].k = "tick"
      PROVE  st[Len(st)].k = "tick"
  <2>1. c[Len(c)].k = "tick" BY <1>2, <1>7 DEF StackOK
  <2>2. Len(st) \in 1..Len(st) BY <1>2
  <2>3. st[Len(st)] = c[Len(st) + 1] BY <1>2, <2>2
  <2> QED BY <1>2, <2>1, <2>3
<1> QED BY <1>2, <1>3, <1>4, <1>5, <1>6, <1>7 DEF StackOK

\* The on_close of a socket returns.
LEMMA PopCloseOK ==
  ASSUME NEW life, NEW Z, NEW c, StackOK(life, Z, c), c # <<>>, NEW f, f = Head(c), f.k = "close",
         NEW st, st = Tail(c), NEW s, s = f.s
  PROVE  StackOK(life, Z \ {s}, st) /\ s \in Z
<1>1. c \in Seq(FrameSet) BY DEF StackOK
<1>2. /\ st \in Seq(FrameSet) /\ Len(c) = Len(st) + 1 /\ c[1] = f /\ Len(st) \in Nat /\ f \in FrameSet
      /\ \A i \in 1..Len(st) : i + 1 \in 1..Len(c) /\ st[i] = c[i+1]
      /\ 1 \in 1..Len(c) /\ Len(c) \in 1..Len(c)
  BY <1>1, Decons
<1>3. \A i \in 1..Len(st) : FrameOK(life, st[i]) BY <1>2 DEF StackOK
<1>4. \A i \in 1..Len(st) : st[i].k = "close" => st[i].s \in Z \ {s}
  <2> SUFFICES ASSUME NEW i \in 1..Len(st), st[i].k = "close" PROVE st[i].s \in Z \ {s}
    OBVIOUS
  <2>1. i + 1 \in 1..Len(c) /\ st[i] = c[i+1] /\ i + 1 # 1 BY <1>2
  <2>2. c[i+1].s \in Z BY <2>1 DEF StackOK
  <2>3. c[i+1].s # s BY <1>2, <2>1 DEF StackOK
  <2> QED BY <2>1, <2>2, <2>3
<1>5. \A z \in Z \ {s} : \E i \in 1..Len(st) : st[i].k = "close" /\ st[i].s = z
  <2> SUFFICES ASSUME NEW z \in Z \ {s}
               PROVE  \E i \in 1..Len(st) : st[i].k = "close" /\ st[i].s = z
    OBVIOUS
  <2>1. PICK i \in 1..Len(c) : c[i].k = "close" /\ c[i].s = z
    BY DEF StackOK
  <2>2. i # 1 BY <1>2, <2>1
  <2>3. i - 1 \in 1..Len(st) /\ st[i-1] = c[(i-1)+1] /\ (i-1)+1 = i
    BY <1>2, <2>2
  <2> QED BY <2>1, <2>3
<1>6. ASSUME NEW i \in 1..Len(st), NEW j \in 1..Len(st),
             st[i].k = "close", st[j].k = "close", st[i].s = st[j].s
      PROVE  i = j
  BY <1>2, <1>6 DEF StackOK
<1>7. ASSUME NEW i \in 1..Len(st), st[i].k = "tick"
      PROVE  st[Len(st)].k = "tick"
  <2>1. c[Len(c)].k = "tick" BY <1>2, <1>7 DEF StackOK
  <2>2. Len(st) \in 1..Len(st) BY <1>2
  <2>3. st[Len(st)] = c[Len(st) + 1] BY <1>2, <2>2
  <2> QED BY <1>2, <2>1, <2>3
<1>8. s \in Z BY <1>2 DEF StackOK
<1> QED BY <1>2, <1>3, <1>4, <1>5, <1>6, <1>7, <1>8 DEF StackOK

\* What a tick does to the frames it is nested under.
LEMMA UnderFrame ==
  ASSUME NEW life, NEW f \in FrameSet, FrameOK(life, f), NEW u, u = Under(f)
  PROVE  u \in FrameSet /\ FrameOK(life, u) /\ u.k = f.k /\ (f.k = "close" => u.s = f.s)
<1>1. CASE f.k = "tick"
  <2>1. f \in TickFrames BY <1>1, FrameKinds
  <2>2. u = [f EXCEPT !.live = FALSE] BY <1>1 DEF Under
  <2>3. u \in TickFrames /\ u.k = "tick" BY <2>1, <2>2 DEF TickFrames
  <2> QED BY <1>1, <2>3 DEF FrameSet, FrameOK
<1>2. CASE f.k = "all"
  <2>1. f \in AllFrames BY <1>2, FrameKinds
  <2>2. u = [f EXCEPT !.ticked = TRUE] BY <1>2 DEF Under
  <2>3. u \in AllFrames /\ u.k = "all" /\ u.cur = f.cur
    BY <2>1, <2>2 DEF AllFrames
  <2> QED BY <1>2, <2>3 DEF FrameSet, FrameOK
<1>3. CASE f.k = "sweep"
  <2>1. f \in SweepFrames BY <1>3, FrameKinds
  <2>2. u = [f EXCEPT !.ticked = TRUE] BY <1>3 DEF Under
  <2>3. u \in SweepFrames /\ u.k = "sweep" /\ u.at = f.at /\ u.g = f.g /\ u.s = f.s
    BY <2>1, <2>2 DEF SweepFrames
  <2> QED BY <1>3, <2>3 DEF FrameSet, FrameOK
<1>4. CASE f.k \notin {"tick", "all", "sweep"} BY <1>4 DEF Under
<1> QED BY <1>1, <1>2, <1>3, <1>4

LEMMA UnderOK ==
  ASSUME NEW life, NEW Z, NEW st, StackOK(life, Z, st),
         NEW u, u = [i \in DOMAIN st |-> Under(st[i])]
  PROVE  /\ StackOK(life, Z, u)
         /\ st = <<>> => u = <<>>
         /\ (\E i \in 1..Len(st) : st[i].k = "tick") => \E i \in 1..Len(u) : u[i].k = "tick"
<1>1. st \in Seq(FrameSet) /\ Len(st) \in Nat /\ DOMAIN st = 1..Len(st)
  BY DEF StackOK
<1>2. \A i \in 1..Len(st) : u[i] = Under(st[i]) BY <1>1
<1>3. \A i \in 1..Len(st) : /\ u[i] \in FrameSet /\ FrameOK(life, u[i]) /\ u[i].k = st[i].k
                            /\ st[i].k = "close" => u[i].s = st[i].s
  <2> SUFFICES ASSUME NEW i \in 1..Len(st)
               PROVE  /\ u[i] \in FrameSet /\ FrameOK(life, u[i]) /\ u[i].k = st[i].k
                      /\ st[i].k = "close" => u[i].s = st[i].s
    OBVIOUS
  <2>1. PICK f, v : f = st[i] /\ v = u[i] OBVIOUS
  <2>2. f \in FrameSet /\ FrameOK(life, f) /\ v = Under(f)
    BY <1>1, <1>2, <2>1 DEF StackOK
  <2>3. v \in FrameSet /\ FrameOK(life, v) /\ v.k = f.k /\ (f.k = "close" => v.s = f.s)
    BY <2>2, UnderFrame
  <2> QED BY <2>1, <2>3
<1>4. u \in Seq(FrameSet) /\ Len(u) = Len(st)
  <2>1. u = [i \in 1..Len(st) |-> Under(st[i])] /\ \A i \in 1..Len(st) : Under(st[i]) \in FrameSet
    BY <1>1, <1>2, <1>3
  <2> QED BY ONLY <1>1, <2>1
<1>s. /\ \A i \in 1..Len(st) : st[i].k = "close" => st[i].s \in Z
      /\ \A i, j \in 1..Len(st) :
           st[i].k = "close" /\ st[j].k = "close" /\ st[i].s = st[j].s => i = j
  BY DEF StackOK
<1>5. \A i \in 1..Len(u) : u[i].k = "close" => u[i].s \in Z
  <2> SUFFICES ASSUME NEW i \in 1..Len(u), u[i].k = "close" PROVE u[i].s \in Z
    OBVIOUS
  <2>1. i \in 1..Len(st) BY <1>4
  <2>2. st[i].k = "close" /\ u[i].s = st[i].s BY <1>3, <2>1
  <2> QED BY ONLY <1>s, <2>1, <2>2
<1>6. \A z \in Z : \E i \in 1..Len(u) : u[i].k = "close" /\ u[i].s = z
  <2> SUFFICES ASSUME NEW z \in Z PROVE \E i \in 1..Len(u) : u[i].k = "close" /\ u[i].s = z
    OBVIOUS
  <2>1. PICK i \in 1..Len(st) : st[i].k = "close" /\ st[i].s = z
    BY DEF StackOK
  <2> QED BY <1>3, <1>4, <2>1
<1>7. ASSUME NEW i \in 1..Len(u), NEW j \in 1..Len(u),
             u[i].k = "close", u[j].k = "close", u[i].s = u[j].s
      PROVE  i = j
  <2>1. i \in 1..Len(st) /\ j \in 1..Len(st) BY <1>4
  <2>2. /\ st[i].k = "close" /\ u[i].s = st[i].s
        /\ st[j].k = "close" /\ u[j].s = st[j].s
    BY <1>3, <1>7, <2>1
  <2> QED BY ONLY <1>s, <1>7, <2>1, <2>2
<1>8. ASSUME NEW i \in 1..Len(u), u[i].k = "tick"
      PROVE  u[Len(u)].k = "tick"
  BY <1>1, <1>3, <1>4, <1>8 DEF StackOK
<1>9. StackOK(life, Z, u)
  BY <1>3, <1>4, <1>5, <1>6, <1>7, <1>8 DEF StackOK
<1>10. st = <<>> => u = <<>> BY <1>4
<1> QED BY <1>3, <1>4, <1>9, <1>10

\* Only the outermost tick is alone on the stack.
LEMMA OutermostTick ==
  ASSUME NEW life, NEW Z, NEW st, StackOK(life, Z, st), st # <<>>, Head(st).k = "tick",
         NEW F, F = {i \in 1..Len(st) : st[i].k = "tick"}, Cardinality(F) <= 1
  PROVE  Z = {} /\ Len(st) = 1
<1>1. st \in Seq(FrameSet) /\ Len(st) \in Nat /\ Len(st) # 0 /\ st[1].k = "tick"
  BY DEF StackOK
<1>2. Len(st) \in F /\ 1 \in F BY <1>1 DEF StackOK
<1>3. IsFiniteSet(F)
  <2>1. IsFiniteSet(1..Len(st)) BY <1>1, FS_Interval
  <2> QED BY <2>1, FS_Subset
<1>4. Len(st) = 1
  <2> SUFFICES ASSUME Len(st) # 1 PROVE FALSE OBVIOUS
  <2>1. PICK G, H : G = F \ {1} /\ H = G \ {Len(st)} OBVIOUS
  <2>2. Cardinality(G) = Cardinality(F) - 1
    BY <1>2, <1>3, <2>1, CardMinus
  <2>3. IsFiniteSet(G) /\ Len(st) \in G BY <1>2, <1>3, <2>1, FS_Subset
  <2>4. Cardinality(H) = Cardinality(G) - 1 /\ Cardinality(G) \in Nat
    BY <2>1, <2>3, CardMinus
  <2>5. IsFiniteSet(H) BY <2>1, <2>3, FS_Subset
  <2>6. Cardinality(H) \in Nat BY <2>5, FS_CardinalityType
  <2>7. Cardinality(F) \in Nat BY <1>3, FS_CardinalityType
  <2> QED BY <2>2, <2>4, <2>6, <2>7
<1>5. \A z \in Z : \E i \in 1..Len(st) : st[i].k = "close"
  BY DEF StackOK
<1> QED BY <1>1, <1>4, <1>5

-----------------------------------------------------------------------------
(* What a step leaves.                                                     *)

\* The heap and the stack between two steps.
Settled(h, st) == \E Z : World(h, Z) /\ StackOK(h.life, Z, st)

\* The frames f go on top of the stack.
LEMMA DoOne ==
  ASSUME NEW h, NEW Z, World(h, Z), NEW st, StackOK(h.life, Z, st), NEW k, World(k, Z), Aged(h, k),
         NEW f, Calm(k.life, f)
  PROVE  Settled(k, <<f>> \o st)
<1>1. StackOK(k.life, Z, st)
  BY ONLY Aged(h, k), StackOK(h.life, Z, st), StackAged
<1>2. PICK c : c = <<f>> \o st OBVIOUS
<1>3. StackOK(k.life, Z, c)
  BY ONLY <1>1, <1>2, Calm(k.life, f), PushOK
<1> QED BY <1>2, <1>3 DEF Settled

LEMMA DoNone ==
  ASSUME NEW h, NEW Z, World(h, Z), NEW st, StackOK(h.life, Z, st), NEW k, World(k, Z), Aged(h, k)
  PROVE  Settled(k, st)
<1>1. StackOK(k.life, Z, st)
  BY ONLY Aged(h, k), StackOK(h.life, Z, st), StackAged
<1> QED BY <1>1 DEF Settled

LEMMA DoTwo ==
  ASSUME NEW h, NEW Z, World(h, Z), NEW st, StackOK(h.life, Z, st), NEW k, World(k, Z), Aged(h, k),
         NEW f, Calm(k.life, f), NEW f2, Calm(k.life, f2)
  PROVE  Settled(k, <<f, f2>> \o st)
<1>1. StackOK(k.life, Z, st)
  BY ONLY Aged(h, k), StackOK(h.life, Z, st), StackAged
<1>2. PICK b, c : b = <<f2>> \o st /\ c = <<f>> \o b OBVIOUS
<1>3. StackOK(k.life, Z, b)
  BY ONLY <1>1, <1>2, Calm(k.life, f2), PushOK
<1>4. StackOK(k.life, Z, c)
  BY ONLY <1>2, <1>3, Calm(k.life, f), PushOK
<1>5. <<f, f2>> \o st = c
  <2>1. st \in Seq(FrameSet) BY DEF StackOK
  <2> QED BY ONLY <1>2, <2>1
<1> QED BY <1>4, <1>5 DEF Settled

LEMMA CalmUser ==
  ASSUME NEW life
  PROVE  Calm(life, User)
  BY DEF Calm, FrameOK, FrameSet, UserFrames, User

\* A call that may close a socket.
LEMMA DoOK ==
  ASSUME NEW h, NEW Z, World(h, Z), NEW st, StackOK(h.life, Z, st), NEW o, Leaves(h, Z, o)
  PROVE  Settled(o.h, o.f \o st)
<1>1. PICK k, f : k = o.h /\ f = o.f OBVIOUS
<1>2. /\ Aged(h, k)
      /\ \/ World(k, Z) /\ Quiet(k.life, f)
         \/ \E s \in Sockets \ Z : World(k, Z \cup {s}) /\ f = <<User, [k |-> "close", s |-> s]>>
  BY <1>1 DEF Leaves
<1>3. st \in Seq(FrameSet) BY DEF StackOK
<1>4. CASE World(k, Z) /\ f = <<>>
  <2>1. Settled(k, st)
    BY ONLY <1>2, <1>4, World(h, Z), StackOK(h.life, Z, st), DoNone
  <2>2. f \o st = st BY ONLY <1>3, <1>4
  <2> QED BY <1>1, <2>1, <2>2
<1>5. CASE World(k, Z) /\ f = <<User>>
  <2>1. Calm(k.life, User) BY CalmUser
  <2>2. Settled(k, <<User>> \o st)
    BY ONLY <1>2, <1>5, <2>1, World(h, Z), StackOK(h.life, Z, st), DoOne
  <2> QED BY <1>1, <1>5, <2>2
<1>6. ASSUME World(k, Z), NEW s \in Sockets, InUse(k.life, s), f = <<User, [k |-> "ssl", s |-> s]>>
      PROVE  Settled(k, f \o st)
  <2>1. PICK e : e = [k |-> "ssl", s |-> s] OBVIOUS
  <2>2. Calm(k.life, e)
    BY <1>6, <2>1 DEF Calm, FrameOK, FrameSet, SocketFrames
  <2>3. Calm(k.life, User) BY CalmUser
  <2>4. Settled(k, <<User, e>> \o st)
    BY ONLY <1>2, <1>6, <2>2, <2>3, World(h, Z), StackOK(h.life, Z, st), DoTwo
  <2> QED BY <1>6, <2>1, <2>4
<1>7. ASSUME NEW s \in Sockets \ Z, World(k, Z \cup {s}), f = <<User, [k |-> "close", s |-> s]>>
      PROVE  Settled(k, f \o st)
  <2>1. PICK e, b, c : e = [k |-> "close", s |-> s] /\ b = <<e>> \o st /\ c = <<User>> \o b
    OBVIOUS
  <2>2. StackOK(k.life, Z, st)
    BY ONLY <1>2, StackOK(h.life, Z, st), StackAged
  <2>3. InUse(k.life, s) BY <1>7 DEF World, Shut, InUse
  <2>4. s \in Sockets /\ s \notin Z OBVIOUS
  <2>5. PICK Y : Y = Z \cup {s} OBVIOUS
  <2>6. StackOK(k.life, Y, b)
    BY ONLY <2>1, <2>2, <2>3, <2>4, <2>5, PushCloseOK
  <2>7. Calm(k.life, User) BY CalmUser
  <2>8. StackOK(k.life, Y, c) BY ONLY <2>1, <2>6, <2>7, PushOK
  <2>9. f \o st = c
    <3>1. f = <<User, e>> BY <1>7, <2>1
    <3> QED BY ONLY <1>3, <2>1, <3>1
  <2> QED BY <1>7, <2>5, <2>8, <2>9 DEF Settled
<1> QED BY <1>1, <1>2, <1>4, <1>5, <1>6, <1>7 DEF Quiet

-----------------------------------------------------------------------------
(* The sweep.                                                              *)

\* The sockets on the list of the group g.
OnList(h, g) == {x \in Open(h) : h.prio[x] # 1 /\ h.group[x] = g}

\* The list, its head and its iterator lead to no other socket.
LEMMA Walks ==
  ASSUME NEW h, NEW Z, World(h, Z), NEW g \in Groups
  PROVE  /\ h.head[g] \in OnList(h, g) \cup {Null} /\ h.iter[g] \in OnList(h, g) \cup {Null}
         /\ \A x \in OnList(h, g) : h.next[x] \in OnList(h, g) \cup {Null}
         /\ Null \notin Sockets /\ h.next \in PtrMap /\ OnList(h, g) \subseteq Sockets
<1>1. PICK In, C, P, hd, W :
        /\ In = Open(h) /\ C = Shut(h) \ Z /\ P = Waits(h, In)
        /\ hd = Heads(h.head, h.lowHead) /\ W = Places(h.prio, h.group)
  OBVIOUS
<1>2. Exact(h, In, C, P, {}) /\ h \in Heaps
  BY <1>1, WorldParts DEF Tidy
<1>3. /\ SocketLists(h.next, h.prev, h.head, h.lowHead, h.closedHead, h.prio, h.group, In, C)
      /\ Cursors(h.iter, h.prio, h.group, In) /\ In \subseteq Sockets
      /\ Null \notin Sockets /\ Null \notin Groups /\ h.next \in PtrMap
  BY <1>2, ExactParts, HeapParts
<1>4. Rows(h.next, h.prev, hd, W, h.closedHead, In, C)
  BY <1>1, <1>3 DEF SocketLists
<1>5. \A x \in In : W[x] = g <=> h.prio[x] # 1 /\ h.group[x] = g
  BY <1>1, <1>3 DEF Places
<1>6. PICK S : S = {x \in In : W[x] = g} OBVIOUS
<1>7. S = OnList(h, g) BY <1>1, <1>5, <1>6 DEF OnList
<1>8. h.head[g] \in S \cup {Null}
  BY <1>1, <1>3, <1>4, <1>6, HeadOfList DEF Heads, GroupPtr
<1>9. h.iter[g] \in S \cup {Null} BY <1>3, <1>5, <1>6 DEF Cursors
<1>10. ASSUME NEW x \in S
       PROVE  h.next[x] \in S \cup {Null}
  BY <1>4, <1>6, Neighbours
<1>11. S \subseteq Sockets BY <1>3, <1>6
<1> QED BY <1>3, <1>7, <1>8, <1>9, <1>10, <1>11

\* The sockets that are due from p on are sockets on the list.
LEMMA FirstDueOnList ==
  ASSUME NEW h, NEW Z, World(h, Z), NEW g \in Groups, NEW p, p \in OnList(h, g) \cup {Null}
  PROVE  FirstDue(h, g, p) \subseteq OnList(h, g)
<1>1. PICK S, nx : /\ S = OnList(h, g)
                   /\ nx = [s \in Sockets |-> IF Due(h, g, s) THEN Null ELSE h.next[s]]
  OBVIOUS
<1>2. /\ \A x \in S : h.next[x] \in S \cup {Null}
      /\ S \subseteq Sockets
  BY <1>1, Walks
<1>3. DOMAIN nx = Sockets /\ \A x \in S : nx[x] \in S \cup {Null}
  BY <1>1, <1>2
<1>4. S \in SUBSET DOMAIN nx /\ p \in S \cup {Null}
  BY <1>1, <1>2, <1>3
<1>5. Chain(nx, p) \subseteq S BY ONLY <1>3, <1>4, ChainWithin
<1>6. FirstDue(h, g, p) = {s \in Chain(nx, p) : Due(h, g, s)}
  BY <1>1 DEF FirstDue
<1> QED BY <1>1, <1>5, <1>6


SweepCalm(life, f) == Calm(life, f) /\ f.k = "sweep"

\* What a turn of the sweep leaves: at most one callback above the sweep, or nothing.
Swept(life, f) ==
  \/ f = <<>>
  \/ \E e : SweepCalm(life, e) /\ (f = <<e>> \/ f = <<User, e>>)

LEMMA SweepFrame ==
  ASSUME NEW life, NEW g \in Groups, NEW s, InUse(life, s), NEW at \in {"short", "long"},
         NEW ticked \in BOOLEAN,
         NEW f, f = [k |-> "sweep", at |-> at, g |-> g, s |-> s, ticked |-> ticked]
  PROVE  SweepCalm(life, f)
<1>1. f \in SweepFrames BY DEF SweepFrames, GroupPtr, Ptr, InUse
<1> QED BY <1>1 DEF SweepCalm, Calm, FrameOK, FrameSet

LEMMA GroupFrame ==
  ASSUME NEW life
  PROVE  SweepCalm(life, NextGroup)
<1>1. NextGroup \in SweepFrames
  BY DEF NextGroup, SweepFrames, GroupPtr, Ptr
<1>2. NextGroup.k = "sweep" /\ NextGroup.at = "group" BY DEF NextGroup
<1> QED BY <1>1, <1>2 DEF SweepCalm, Calm, FrameOK, FrameSet

-----------------------------------------------------------------------------
(* The writes of a step of the sweep, one by one.                          *)

StopAt(h, g, x) == [h EXCEPT !.iter[g] = x]
GoTo(h, x) == [h EXCEPT !.loopIter = x]
ClearShort(h, s) == [h EXCEPT !.timeout[s] = Off]
ClearLong(h, s) == [h EXCEPT !.long[s] = Off]
Ticking(h, g) == [h EXCEPT !.tick[g] = @ + 1]

LEMMA StopAtOK ==
  ASSUME NEW h, NEW Z, World(h, Z), NEW g \in Groups, NEW x, CursorAt(h, g, x),
         NEW k, k = StopAt(h, g, x)
  PROVE  World(k, Z) /\ k.life = h.life /\ Stopped(h, k, g, x)
<1>1. IsHeap(h) BY WorldParts, HeapParts
<1>2. {"iter"} \subseteq Fields BY DEF Fields
<1>3. Stopped(h, k, g, x)
  BY ONLY <1>1, <1>2, k = StopAt(h, g, x), Zenon DEF SameBut, IsHeap, StopAt, Stopped
<1> QED
  BY ONLY World(h, Z), g \in Groups, CursorAt(h, g, x), <1>3, CursorWorld

LEMMA GoToOK ==
  ASSUME NEW h, NEW Z, World(h, Z), NEW x, x \in OnLoop(h.linked) \cup {Null}, NEW k, k = GoTo(h, x)
  PROVE  World(k, Z) /\ k.life = h.life
<1>1. IsHeap(h) BY WorldParts, HeapParts
<1>2. {"loopIter"} \subseteq Fields BY DEF Fields
<1>3. Moved(h, k, x)
  BY ONLY <1>1, <1>2, k = GoTo(h, x), Zenon DEF SameBut, IsHeap, GoTo, Moved
<1> QED
  BY ONLY World(h, Z), x \in OnLoop(h.linked) \cup {Null}, <1>3, LoopIterWorld

\* A write to a component that no list or counter rests on.
LEMMA PlainOK ==
  ASSUME NEW h, NEW Z, World(h, Z), NEW k, NEW F, F \subseteq PlainFields, SameBut(h, k, F),
         Typed(k, F)
  PROVE  World(k, Z) /\ k.life = h.life
<1>1. h \in Heaps BY WorldParts
<1>2. k \in Heaps BY <1>1, HeapBut
<1>3. SameBut(h, k, PlainFields) BY DEF SameBut
<1> QED BY ONLY World(h, Z), <1>2, <1>3, WorldPlain

LEMMA ClearShortOK ==
  ASSUME NEW h, NEW Z, World(h, Z), NEW s, NEW k, k = ClearShort(h, s)
  PROVE  World(k, Z) /\ k.life = h.life
<1>1. IsHeap(h) /\ h.timeout \in [Sockets -> 0..Lap]
  BY WorldParts, HeapParts
<1>2. {"timeout"} \subseteq Fields BY DEF Fields
<1>3. SameBut(h, k, {"timeout"}) /\ k.timeout = [h.timeout EXCEPT ![s] = Off]
  BY ONLY <1>1, <1>2, k = ClearShort(h, s), Zenon DEF SameBut, IsHeap, ClearShort
<1>4. k.timeout \in [Sockets -> 0..Lap]
  <2>1. Off \in 0..Lap BY Bounds DEF Off
  <2> QED BY ONLY <1>1, <1>3, <2>1
<1>5. Typed(k, {"timeout"}) BY <1>4, TypesOf DEF Typed
<1>6. {"timeout"} \subseteq PlainFields BY DEF PlainFields
<1> QED BY ONLY World(h, Z), <1>3, <1>5, <1>6, PlainOK

LEMMA ClearLongOK ==
  ASSUME NEW h, NEW Z, World(h, Z), NEW s, NEW k, k = ClearLong(h, s)
  PROVE  World(k, Z) /\ k.life = h.life
<1>1. IsHeap(h) /\ h.long \in [Sockets -> 0..Lap]
  BY WorldParts, HeapParts
<1>2. {"long"} \subseteq Fields BY DEF Fields
<1>3. SameBut(h, k, {"long"}) /\ k.long = [h.long EXCEPT ![s] = Off]
  BY ONLY <1>1, <1>2, k = ClearLong(h, s), Zenon DEF SameBut, IsHeap, ClearLong
<1>4. k.long \in [Sockets -> 0..Lap]
  <2>1. Off \in 0..Lap BY Bounds DEF Off
  <2> QED BY ONLY <1>1, <1>3, <2>1
<1>5. Typed(k, {"long"}) BY <1>4, TypesOf DEF Typed
<1>6. {"long"} \subseteq PlainFields BY DEF PlainFields
<1> QED BY ONLY World(h, Z), <1>3, <1>5, <1>6, PlainOK

LEMMA TickingOK ==
  ASSUME NEW h, NEW Z, World(h, Z), NEW g \in Groups, NEW k, k = Ticking(h, g)
  PROVE  World(k, Z) /\ k.life = h.life /\ k.linked = h.linked
<1>1. IsHeap(h) /\ h.tick \in [Groups -> Nat] BY WorldParts, HeapParts
<1>2. {"tick"} \subseteq Fields BY DEF Fields
<1>3. SameBut(h, k, {"tick"}) /\ k.tick = [h.tick EXCEPT ![g] = @ + 1]
  BY ONLY <1>1, <1>2, k = Ticking(h, g), Zenon DEF SameBut, IsHeap, Ticking
<1>4. k.tick \in [Groups -> Nat] BY <1>1, <1>3
<1>5. Typed(k, {"tick"}) BY <1>4, TypesOf DEF Typed
<1>6. {"tick"} \subseteq PlainFields BY DEF PlainFields
<1>7. k.linked = h.linked BY <1>3 DEF SameBut, Fields
<1> QED BY ONLY World(h, Z), <1>3, <1>5, <1>6, <1>7, PlainOK

\* What a turn of the sweep leaves of the heap h, whose lists stay as they are.
SweptOK(h, Z, o) == World(o.h, Z) /\ o.h.life = h.life /\ Swept(h.life, o.f)

\* The loop of us_internal_timer_sweep over the sockets of g.
LEMMA SeekOK ==
  ASSUME NEW h, NEW Z, World(h, Z), NEW g, g \in OnLoop(h.linked),
         NEW p, p \in OnList(h, g) \cup {Null}, NEW ticked \in BOOLEAN,
         NEW o, o = Seek(h, g, p, ticked)
  PROVE  SweptOK(h, Z, o)
<1>1. g \in Groups BY DEF OnLoop
<1>2. CASE FirstDue(h, g, p) = {}
  <2>1. PICK i, k, x : i = StopAt(h, g, Null) /\ x = h.gnext[g] /\ k = GoTo(i, x)
    OBVIOUS
  <2>2. CursorAt(h, g, Null) BY DEF CursorAt
  <2>3. World(i, Z) /\ i.life = h.life /\ Stopped(h, i, g, Null)
    BY ONLY World(h, Z), <1>1, <2>1, <2>2, StopAtOK
  <2>4. i.linked = h.linked BY <2>3 DEF Stopped, SameBut, Fields
  <2>5. x \in OnLoop(i.linked) \cup {Null} BY <2>1, <2>4, LoopNodes
  <2>6. World(k, Z) /\ k.life = i.life
    BY ONLY <2>1, <2>3, <2>5, GoToOK
  <2>7. o = Outcome([h EXCEPT !.iter[g] = Null, !.loopIter = h.gnext[g]], <<NextGroup>>)
    BY ONLY <1>2, o = Seek(h, g, p, ticked), Zenon DEF Seek
  <2>8. [h EXCEPT !.iter[g] = Null, !.loopIter = h.gnext[g]] = k
    BY ONLY <2>1, Zenon DEF StopAt, GoTo
  <2>9. o.h = k /\ o.f = <<NextGroup>> BY ONLY <2>7, <2>8 DEF Outcome
  <2>10. SweepCalm(h.life, NextGroup) BY GroupFrame
  <2>11. Swept(h.life, o.f) BY ONLY <2>9, <2>10 DEF Swept
  <2> QED BY <2>3, <2>6, <2>9, <2>11 DEF SweptOK
<1>3. CASE FirstDue(h, g, p) # {}
  <2>1. PICK s, f, i, k : /\ s = CHOOSE x \in FirstDue(h, g, p) : TRUE
                          /\ f = [k |-> "sweep", at |-> "short", g |-> g, s |-> s, ticked |-> ticked]
                          /\ i = StopAt(h, g, s) /\ k = ClearShort(i, s)
    OBVIOUS
  <2>2. FirstDue(h, g, p) \subseteq OnList(h, g)
    BY ONLY World(h, Z), <1>1, p \in OnList(h, g) \cup {Null}, FirstDueOnList
  <2>3. s \in FirstDue(h, g, p) BY ONLY <1>3, <2>1
  <2>4. CursorAt(h, g, s) /\ InUse(h.life, s)
    BY <2>2, <2>3 DEF OnList, CursorAt, Open, InUse
  <2>5. World(i, Z) /\ i.life = h.life
    BY ONLY World(h, Z), <1>1, <2>1, <2>4, StopAtOK
  <2>6. World(k, Z) /\ k.life = i.life
    BY ONLY <2>1, <2>5, ClearShortOK
  <2>7. SweepCalm(h.life, f)
    <3>1. "short" \in {"short", "long"} OBVIOUS
    <3> QED
      BY ONLY <1>1, <2>1, <2>4, <3>1, ticked \in BOOLEAN, SweepFrame
  <2>8. o = IF h.timeout[s] = ShortTick(h, g)
            THEN Outcome([i EXCEPT !.timeout[s] = Off], <<User, f>>)
            ELSE Outcome(i, <<f>>)
    <3>1. Seek(h, g, p, ticked) =
            IF FirstDue(h, g, p) = {}
            THEN Outcome([h EXCEPT !.iter[g] = Null, !.loopIter = h.gnext[g]], <<NextGroup>>)
            ELSE LET z == CHOOSE x \in FirstDue(h, g, p) : TRUE
                     e == [k |-> "sweep", at |-> "short", g |-> g, s |-> z, ticked |-> ticked]
                     j == StopAt(h, g, z)
                 IN  IF h.timeout[z] = ShortTick(h, g)
                     THEN Outcome([j EXCEPT !.timeout[z] = Off], <<User, e>>)
                     ELSE Outcome(j, <<e>>)
      BY ONLY Zenon DEF Seek, StopAt
    <3> QED BY ONLY <1>3, <2>1, <3>1, o = Seek(h, g, p, ticked)
  <2>9. [i EXCEPT !.timeout[s] = Off] = k
    BY ONLY <2>1, Zenon DEF ClearShort
  <2>10. (o.h = k /\ o.f = <<User, f>>) \/ (o.h = i /\ o.f = <<f>>)
    BY ONLY <2>8, <2>9 DEF Outcome
  <2>11. Swept(h.life, o.f) BY ONLY <2>7, <2>10 DEF Swept
  <2> QED BY <2>5, <2>6, <2>10, <2>11 DEF SweptOK
<1> QED BY <1>2, <1>3

\* A turn of the sweep that begins the next group.
LEMMA SweepGroupOK ==
  ASSUME NEW Z, World(heap, Z), NEW o, o = SweepGroup
  PROVE  SweptOK(heap, Z, o)
<1>1. PICK i, h : i = heap.loopIter /\ h = Ticking(heap, i) OBVIOUS
<1>2. i \in OnLoop(heap.linked) \cup {Null} BY <1>1, LoopNodes
<1>3. o = IF i = Null THEN Outcome(heap, <<>>) ELSE Seek(h, i, h.head[i], FALSE)
  <2>1. SweepGroup = IF heap.loopIter = Null THEN Outcome(heap, <<>>)
                     ELSE Seek(Ticking(heap, heap.loopIter), heap.loopIter,
                               Ticking(heap, heap.loopIter).head[heap.loopIter], FALSE)
    BY ONLY Zenon DEF SweepGroup, Ticking
  <2> QED BY ONLY <1>1, <2>1, o = SweepGroup
<1>4. CASE i = Null BY <1>3, <1>4 DEF Outcome, Swept, SweptOK
<1>5. CASE i # Null
  <2>1. i \in OnLoop(heap.linked) /\ i \in Groups
    BY <1>2, <1>5 DEF OnLoop
  <2>2. World(h, Z) /\ h.life = heap.life /\ h.linked = heap.linked
    BY ONLY <1>1, <2>1, World(heap, Z), TickingOK
  <2>3. h.head[i] \in OnList(h, i) \cup {Null}
    BY ONLY <2>1, <2>2, Walks
  <2>4. i \in OnLoop(h.linked) /\ FALSE \in BOOLEAN BY <2>1, <2>2
  <2>5. o = Seek(h, i, h.head[i], FALSE) BY <1>3, <1>5
  <2>6. SweptOK(h, Z, o) BY ONLY <2>2, <2>3, <2>4, <2>5, SeekOK
  <2> QED BY ONLY <2>2, <2>6 DEF SweptOK
<1> QED BY <1>4, <1>5

LEMMA SweptSettled ==
  ASSUME NEW h, NEW Z, World(h, Z), NEW st, StackOK(h.life, Z, st), NEW o, SweptOK(h, Z, o)
  PROVE  Settled(o.h, o.f \o st)
<1>1. PICK k, f : k = o.h /\ f = o.f OBVIOUS
<1>2. World(k, Z) /\ k.life = h.life /\ Swept(k.life, f)
  BY <1>1 DEF SweptOK
<1>3. Aged(h, k) BY <1>2, WorldParts, SameAge
<1>4. st \in Seq(FrameSet) BY DEF StackOK
<1>5. CASE f = <<>>
  <2>1. Settled(k, st)
    BY ONLY <1>2, <1>3, World(h, Z), StackOK(h.life, Z, st), DoNone
  <2>2. f \o st = st BY ONLY <1>4, <1>5
  <2> QED BY <1>1, <2>1, <2>2
<1>6. ASSUME NEW e, SweepCalm(k.life, e), f = <<e>>
      PROVE  Settled(k, f \o st)
  <2>1. Calm(k.life, e) BY <1>6 DEF SweepCalm
  <2>2. Settled(k, <<e>> \o st)
    BY ONLY <1>2, <1>3, <2>1, World(h, Z), StackOK(h.life, Z, st), DoOne
  <2> QED BY <1>6, <2>2
<1>7. ASSUME NEW e, SweepCalm(k.life, e), f = <<User, e>>
      PROVE  Settled(k, f \o st)
  <2>1. Calm(k.life, e) /\ Calm(k.life, User)
    BY <1>7, CalmUser DEF SweepCalm
  <2>2. Settled(k, <<User, e>> \o st)
    BY ONLY <1>2, <1>3, <2>1, World(h, Z), StackOK(h.life, Z, st), DoTwo
  <2> QED BY <1>7, <2>2
<1> QED BY <1>1, <1>2, <1>5, <1>6, <1>7 DEF Swept

-----------------------------------------------------------------------------
(* The steps.                                                              *)

\* The frame f returns to the frames st.
Resumes(h, stk, Z, f, st) ==
  /\ World(h, Z) /\ StackOK(h.life, Z, st)
  /\ f \in FrameSet /\ FrameOK(h.life, f) /\ f = Head(stk) /\ st = Tail(stk)

LEMMA Resumed ==
  ASSUME NEW h, NEW stk, Settled(h, stk), stk # <<>>, Head(stk).k # "close"
  PROVE  \E Z : Resumes(h, stk, Z, Head(stk), Tail(stk))
<1>1. PICK Z : World(h, Z) /\ StackOK(h.life, Z, stk) BY DEF Settled
<1>2. PICK f, st : f = Head(stk) /\ st = Tail(stk) OBVIOUS
<1>3. StackOK(h.life, Z, st) /\ f \in FrameSet /\ FrameOK(h.life, f)
  BY <1>1, <1>2, PopOK
<1>4. Resumes(h, stk, Z, f, st) BY <1>1, <1>2, <1>3 DEF Resumes
<1> QED BY <1>2, <1>4

\* us_internal_timer_sweep, a turn of its loops.
LEMMA SweepStep ==
  ASSUME Settled(heap, stack), SweepGoesOn
  PROVE  Settled(heap', stack')
<1>1. stack # <<>> /\ Head(stack).k = "sweep"
  BY DEF SweepGoesOn, At, Top
<1>2. PICK Z, f, st : Resumes(heap, stack, Z, f, st) BY <1>1, Resumed
<1>3. /\ World(heap, Z) /\ StackOK(heap.life, Z, st)
      /\ f \in FrameSet /\ FrameOK(heap.life, f) /\ f = Head(stack) /\ st = Tail(stack)
      /\ f.k = "sweep" /\ f \in SweepFrames
  BY <1>1, <1>2, FrameKinds DEF Resumes
<1>4. PICK g, s, o :
        /\ g = f.g /\ s = f.s
        /\ o = (IF f.at = "group" \/ heap.loopIter # g THEN SweepGroup
                ELSE IF f.at = "short" /\ heap.iter[g] = s /\ heap.long[s] = LongTick(heap, g)
                THEN Outcome(ClearLong(heap, s), <<User, [f EXCEPT !.at = "long"]>>)
                ELSE Seek(heap, g, IF heap.iter[g] = s THEN heap.next[s] ELSE heap.iter[g],
                          f.ticked))
        /\ heap' = o.h /\ stack' = o.f \o st
  <2>1. LET g == Head(stack).g
            s == Head(stack).s
            o == (IF Head(stack).at = "group" \/ heap.loopIter # g THEN SweepGroup
                ELSE IF Head(stack).at = "short" /\ heap.iter[g] = s /\ heap.long[s] = LongTick(heap, g)
                THEN Outcome(ClearLong(heap, s), <<User, [Head(stack) EXCEPT !.at = "long"]>>)
                ELSE Seek(heap, g, IF heap.iter[g] = s THEN heap.next[s] ELSE heap.iter[g],
                          Head(stack).ticked))
        IN  heap' = o.h /\ stack' = o.f \o Tail(stack)
    BY ONLY SweepGoesOn, Zenon DEF SweepGoesOn, Top, Do, ClearLong
  <2> QED BY ONLY <1>3, <2>1
<1>5. SweptOK(heap, Z, o)
  <2>1. CASE f.at = "group" \/ heap.loopIter # g
    BY <1>3, <1>4, <2>1, SweepGroupOK
  <2>2. ASSUME f.at # "group", heap.loopIter = g
        PROVE  g \in OnLoop(heap.linked) /\ g \in Groups /\ InUse(heap.life, s) /\ s \in Sockets
    <3>1. g \in Groups /\ InUse(heap.life, s) /\ s \in Sockets
      BY <1>3, <1>4, <2>2 DEF FrameOK, InUse
    <3>2. g # Null BY <3>1, Bounds
    <3> QED BY <1>3, <2>2, <3>1, <3>2, LoopNodes
  <2>3. ASSUME f.at = "short", heap.loopIter = g, heap.iter[g] = s,
               heap.long[s] = LongTick(heap, g)
        PROVE  SweptOK(heap, Z, o)
    <3>1. PICK k, e : k = ClearLong(heap, s) /\ e = [f EXCEPT !.at = "long"]
      OBVIOUS
    <3>2. World(k, Z) /\ k.life = heap.life
      BY ONLY <1>3, <3>1, ClearLongOK
    <3>3. o.h = k /\ o.f = <<User, e>> BY <1>4, <2>3, <3>1 DEF Outcome
    <3>4. g \in Groups /\ InUse(heap.life, s) BY <2>2, <2>3
    <3>5. e = [k |-> "sweep", at |-> "long", g |-> g, s |-> s, ticked |-> f.ticked]
          /\ f.ticked \in BOOLEAN
      BY ONLY <1>3, <1>4, <3>1 DEF SweepFrames
    <3>6. SweepCalm(heap.life, e)
      <4>1. "long" \in {"short", "long"} OBVIOUS
      <4> QED BY ONLY <3>4, <3>5, <4>1, SweepFrame
    <3>7. Swept(heap.life, o.f) BY ONLY <3>3, <3>6 DEF Swept
    <3> QED BY <3>2, <3>3, <3>7 DEF SweptOK
  <2>4. ASSUME f.at # "group", heap.loopIter = g,
               o = Seek(heap, g, IF heap.iter[g] = s THEN heap.next[s] ELSE heap.iter[g], f.ticked)
        PROVE  SweptOK(heap, Z, o)
    <3>1. PICK p : p = IF heap.iter[g] = s THEN heap.next[s] ELSE heap.iter[g]
      OBVIOUS
    <3>2. g \in OnLoop(heap.linked) /\ g \in Groups /\ s \in Sockets /\ s # Null
      BY <2>2, <2>4, Bounds
    <3>3. p \in OnList(heap, g) \cup {Null} BY <1>3, <3>1, <3>2, Walks
    <3>4. f.ticked \in BOOLEAN BY <1>3 DEF SweepFrames
    <3>5. o = Seek(heap, g, p, f.ticked) BY <2>4, <3>1
    <3> QED BY ONLY <1>3, <3>2, <3>3, <3>4, <3>5, SeekOK
  <2> QED BY <1>4, <2>1, <2>3, <2>4
<1>6. Settled(o.h, o.f \o st) BY ONLY <1>3, <1>5, SweptSettled
<1> QED BY <1>4, <1>6

LEMMA FreshOK ==
  ASSUME NEW h, NEW t \in Fresh(h)
  PROVE  t \in Sockets /\ h.life[t] = "unused"
<1>1. PICK A, B : A = {s \in Tls : h.life[s] = "unused"} /\ B = {s \in Sockets \ Tls : h.life[s] = "unused"}
  OBVIOUS
<1>2. t \in (IF A = {} THEN {} ELSE {CHOOSE s \in A : TRUE})
            \cup (IF B = {} THEN {} ELSE {CHOOSE s \in B : TRUE})
  BY ONLY <1>1, t \in Fresh(h) DEF Fresh
<1>3. t \in A \/ t \in B BY ONLY <1>2
<1> QED BY <1>1, <1>3, Bounds

\* A call that leaves the stack as it is, or puts one frame on it.
LEMMA CallNone ==
  ASSUME NEW h, NEW stk, NEW Z, World(h, Z), StackOK(h.life, Z, stk), NEW k, World(k, Z), Aged(h, k)
  PROVE  Settled(k, <<>> \o stk) /\ Settled(k, stk)
<1>1. Settled(k, stk) BY DoNone
<1>2. <<>> \o stk = stk
  <2>1. stk \in Seq(FrameSet) BY DEF StackOK
  <2> QED BY ONLY <2>1
<1> QED BY <1>1, <1>2

\* us_socket_close.
LEMMA CloseStep ==
  ASSUME Settled(heap, stack), NEW s \in Sockets, us_socket_close(s)
  PROVE  Settled(heap', stack')
<1>1. PICK Z : World(heap, Z) /\ StackOK(heap.life, Z, stack)
  BY DEF Settled
<1>2. PICK o \in CloseSocket(heap, s) : heap' = o.h /\ stack' = o.f \o stack
  BY DEF us_socket_close, Do
<1>3. InUse(heap.life, s) BY DEF us_socket_close, Alive, InUse
<1>4. Leaves(heap, Z, o) BY ONLY <1>1, <1>2, <1>3, CloseSocketOK
<1>5. Settled(o.h, o.f \o stack) BY ONLY <1>1, <1>4, DoOK
<1> QED BY <1>2, <1>5

\* us_socket_adopt.
LEMMA AdoptStep ==
  ASSUME Settled(heap, stack), NEW s \in Sockets, NEW g \in Groups, us_socket_adopt(s, g)
  PROVE  Settled(heap', stack')
<1>1. PICK Z : World(heap, Z) /\ StackOK(heap.life, Z, stack)
  BY DEF Settled
<1>2. PICK t \in {s} \cup Fresh(heap) :
        heap' = Adopt(heap, s, g, t) /\ stack' = <<>> \o stack
  BY DEF us_socket_adopt, Do, Outcome
<1>3. s \in Open(heap) /\ ~heap.gone[g]
  BY DEF us_socket_adopt, Alive, Open, Usable
<1>4. t \in Sockets /\ (t = s \/ heap.life[t] = "unused")
  BY <1>2, FreshOK
<1>5. World(heap', Z) /\ Aged(heap, heap')
  BY ONLY <1>1, <1>2, <1>3, <1>4, g \in Groups, AdoptOK
<1>6. Settled(heap', <<>> \o stack) BY ONLY <1>1, <1>5, CallNone
<1> QED BY <1>2, <1>6

LEMMA Wheel ==
  ASSUME NEW x \in Nat
  PROVE  (x + 1) % Lap \in 0..Lap /\ (x \div LongEvery + 1) % Lap \in 0..Lap
<1>1. Lap \in Nat \ {0} /\ LongEvery \in Nat \ {0} BY Bounds
<1>2. \A y \in Nat : y % Lap \in 0..Lap BY ONLY <1>1
<1>3. x \div LongEvery \in Nat BY ONLY <1>1, x \in Nat
<1> QED BY ONLY <1>2, <1>3, x \in Nat

LEMMA GroupOf ==
  ASSUME NEW h, NEW Z, World(h, Z), NEW s \in Open(h)
  PROVE  h.group[s] \in Groups /\ h.tick[h.group[s]] \in Nat
<1>1. h.group[s] \in Groups BY WorldParts DEF Tidy, Exact, SocketLists
<1>2. h.tick \in [Groups -> Nat] BY WorldParts, HeapParts
<1> QED BY <1>1, <1>2

Timed(h, s, v) == [h EXCEPT !.timeout[s] = v]
TimedLong(h, s, v) == [h EXCEPT !.long[s] = v]

LEMMA TimedOK ==
  ASSUME NEW h, NEW Z, World(h, Z), NEW s, NEW v \in 0..Lap, NEW k, k = Timed(h, s, v)
  PROVE  World(k, Z) /\ k.life = h.life
<1>1. IsHeap(h) /\ h.timeout \in [Sockets -> 0..Lap]
  BY WorldParts, HeapParts
<1>2. {"timeout"} \subseteq Fields BY DEF Fields
<1>3. SameBut(h, k, {"timeout"}) /\ k.timeout = [h.timeout EXCEPT ![s] = v]
  BY ONLY <1>1, <1>2, k = Timed(h, s, v), Zenon DEF SameBut, IsHeap, Timed
<1>4. k.timeout \in [Sockets -> 0..Lap]
  BY ONLY <1>1, <1>3, v \in 0..Lap
<1>5. Typed(k, {"timeout"}) BY <1>4, TypesOf DEF Typed
<1>6. {"timeout"} \subseteq PlainFields BY DEF PlainFields
<1> QED BY ONLY World(h, Z), <1>3, <1>5, <1>6, PlainOK

LEMMA TimedLongOK ==
  ASSUME NEW h, NEW Z, World(h, Z), NEW s, NEW v \in 0..Lap, NEW k, k = TimedLong(h, s, v)
  PROVE  World(k, Z) /\ k.life = h.life
<1>1. IsHeap(h) /\ h.long \in [Sockets -> 0..Lap]
  BY WorldParts, HeapParts
<1>2. {"long"} \subseteq Fields BY DEF Fields
<1>3. SameBut(h, k, {"long"}) /\ k.long = [h.long EXCEPT ![s] = v]
  BY ONLY <1>1, <1>2, k = TimedLong(h, s, v), Zenon DEF SameBut, IsHeap, TimedLong
<1>4. k.long \in [Sockets -> 0..Lap] BY ONLY <1>1, <1>3, v \in 0..Lap
<1>5. Typed(k, {"long"}) BY <1>4, TypesOf DEF Typed
<1>6. {"long"} \subseteq PlainFields BY DEF PlainFields
<1> QED BY ONLY World(h, Z), <1>3, <1>5, <1>6, PlainOK

Reading(h, s) == [h EXCEPT !.reads[s] = TRUE]

\* us_socket_write.
LEMMA WriteStep ==
  ASSUME Settled(heap, stack), NEW s \in Sockets, us_socket_write(s)
  PROVE  Settled(heap', stack')
<1>1. PICK Z : World(heap, Z) /\ StackOK(heap.life, Z, stack)
  BY DEF Settled
<1>2. heap' = Reading(heap, s) /\ stack' = stack
  BY DEF us_socket_write, Reading
<1>3. IsHeap(heap) /\ heap.reads \in Flags /\ {"reads"} \subseteq Fields
  BY <1>1, WorldParts, HeapParts DEF Fields
<1>4. SameBut(heap, heap', {"reads"}) /\ heap'.reads = [heap.reads EXCEPT ![s] = TRUE]
  BY ONLY <1>2, <1>3, Zenon DEF SameBut, IsHeap, Reading
<1>5. Typed(heap', {"reads"}) /\ {"reads"} \subseteq PlainFields
  <2>1. heap'.reads \in Flags BY ONLY <1>3, <1>4 DEF Flags
  <2> QED BY <2>1, TypesOf DEF Typed, PlainFields
<1>6. World(heap', Z) /\ heap'.life = heap.life
  BY ONLY <1>1, <1>4, <1>5, PlainOK
<1>7. Aged(heap, heap') BY <1>1, <1>6, WorldParts, SameAge
<1> QED BY <1>1, <1>2, <1>6, <1>7, CallNone

\* us_socket_timeout.
LEMMA TimeoutStep ==
  ASSUME Settled(heap, stack), NEW s \in Sockets, us_socket_timeout(s)
  PROVE  Settled(heap', stack')
<1>1. PICK Z : World(heap, Z) /\ StackOK(heap.life, Z, stack)
  BY DEF Settled
<1>2. PICK v : v = (heap.tick[heap.group[s]] + 1) % Lap OBVIOUS
<1>3. heap' = Timed(heap, s, v) /\ stack' = stack /\ s \in Open(heap)
  BY <1>2 DEF us_socket_timeout, Timed, Alive, Open
<1>4. v \in 0..Lap BY <1>1, <1>2, <1>3, GroupOf, Wheel
<1>5. World(heap', Z) /\ heap'.life = heap.life
  BY ONLY <1>1, <1>3, <1>4, TimedOK
<1>6. Aged(heap, heap') BY <1>1, <1>5, WorldParts, SameAge
<1> QED BY <1>1, <1>3, <1>5, <1>6, CallNone

\* us_socket_long_timeout.
LEMMA LongTimeoutStep ==
  ASSUME Settled(heap, stack), NEW s \in Sockets, us_socket_long_timeout(s)
  PROVE  Settled(heap', stack')
<1>1. PICK Z : World(heap, Z) /\ StackOK(heap.life, Z, stack)
  BY DEF Settled
<1>2. PICK v : v = (heap.tick[heap.group[s]] \div LongEvery + 1) % Lap
  OBVIOUS
<1>3. heap' = TimedLong(heap, s, v) /\ stack' = stack /\ s \in Open(heap)
  BY <1>2 DEF us_socket_long_timeout, TimedLong, Alive, Open
<1>4. v \in 0..Lap BY <1>1, <1>2, <1>3, GroupOf, Wheel
<1>5. World(heap', Z) /\ heap'.life = heap.life
  BY ONLY <1>1, <1>3, <1>4, TimedLongOK
<1>6. Aged(heap, heap') BY <1>1, <1>5, WorldParts, SameAge
<1> QED BY <1>1, <1>3, <1>5, <1>6, CallNone

\* us_socket_group_connect.
LEMMA ConnectStep ==
  ASSUME Settled(heap, stack), NEW g \in Groups, us_socket_group_connect(g)
  PROVE  Settled(heap', stack')
<1>1. PICK Z : World(heap, Z) /\ StackOK(heap.life, Z, stack)
  BY DEF Settled
<1>2. PICK s \in Fresh(heap) : heap' = OpenSocket(heap, g, s, TRUE) /\ stack' = <<>> \o stack
  BY DEF us_socket_group_connect, Do, Outcome
<1>3. s \in Sockets /\ heap.life[s] = "unused" /\ TRUE \in BOOLEAN
  BY <1>2, FreshOK
<1>4. ~heap.gone[g] BY DEF us_socket_group_connect, Usable
<1>5. World(heap', Z) /\ Aged(heap, heap')
  BY ONLY <1>1, <1>2, <1>3, <1>4, g \in Groups, OpenSocketOK
<1>6. Settled(heap', <<>> \o stack) BY ONLY <1>1, <1>5, CallNone
<1> QED BY <1>2, <1>6

\* us_socket_group_listen.
LEMMA ListenStep ==
  ASSUME Settled(heap, stack), NEW g \in Groups, us_socket_group_listen(g)
  PROVE  Settled(heap', stack')
<1>1. PICK Z : World(heap, Z) /\ StackOK(heap.life, Z, stack)
  BY DEF Settled
<1>2. PICK s \in Fresh(heap) : heap' = Touched(Listening(heap, g, s), g)
  BY Zenon DEF us_socket_group_listen, Listening
<1>3. PICK u : u = Listening(heap, g, s) OBVIOUS
<1>4. s \in Sockets /\ heap.life[s] = "unused" /\ heap' = Touched(u, g)
  BY <1>2, <1>3, FreshOK
<1>5. ~heap.gone[g] /\ heap.listen[g] = Null /\ stack' = stack
  BY DEF us_socket_group_listen, Usable
<1>6. World(heap', Z) /\ Aged(heap, heap')
  BY ONLY <1>1, <1>3, <1>4, <1>5, g \in Groups, ListenOK
<1>7. Settled(heap', stack) BY ONLY <1>1, <1>6, CallNone
<1> QED BY <1>5, <1>7

\* us_listen_socket_close.
LEMMA ListenCloseStep ==
  ASSUME Settled(heap, stack), NEW g \in Groups, us_listen_socket_close(g)
  PROVE  Settled(heap', stack')
<1>1. PICK Z : World(heap, Z) /\ StackOK(heap.life, Z, stack)
  BY DEF Settled
<1>2. PICK s : s = heap.listen[g] /\ s # Null /\ heap' = CloseListen(heap, s)
  BY DEF us_listen_socket_close
<1>3. stack' = stack BY DEF us_listen_socket_close
<1>4. World(heap', Z) /\ Aged(heap, heap')
  BY ONLY <1>1, <1>2, g \in Groups, CloseListenOK
<1>5. Settled(heap', stack) BY ONLY <1>1, <1>4, CallNone
<1> QED BY <1>3, <1>5

\* A socket that a pointer of the lists leads to.
LEMMA HeadInUse ==
  ASSUME NEW h, NEW Z, World(h, Z), NEW g \in Groups
  PROVE  Leads(h.life, h.head[g]) /\ h.head[g] \in Ptr
  BY Walks DEF OnList, Open, Leads, InUse, Ptr

\* us_socket_group_close_all, up to its walk.
LEMMA CloseAllStep ==
  ASSUME Settled(heap, stack), NEW g \in Groups, us_socket_group_close_all(g)
  PROVE  Settled(heap', stack')
<1>1. PICK Z : World(heap, Z) /\ StackOK(heap.life, Z, stack)
  BY DEF Settled
<1>2. PICK h, f : /\ h = (IF heap.listen[g] = Null THEN heap ELSE CloseListen(heap, heap.listen[g]))
                  /\ f = [k |-> "all", g |-> g, phase |-> "walk", cur |-> h.head[g],
                          ticked |-> FALSE]
                  /\ heap' = h /\ stack' = <<f>> \o stack
  BY DEF us_socket_group_close_all, Do, Outcome
<1>3. World(h, Z) /\ Aged(heap, h)
  <2>1. CASE heap.listen[g] = Null
    BY <1>1, <1>2, <2>1, WorldParts, SameAge
  <2>2. CASE heap.listen[g] # Null
    <3>1. PICK s : s = heap.listen[g] /\ s # Null BY <2>2
    <3>2. h = CloseListen(heap, s) BY <1>2, <3>1
    <3> QED BY ONLY <1>1, <3>1, <3>2, g \in Groups, CloseListenOK
  <2> QED BY <2>1, <2>2
<1>4. Calm(h.life, f)
  BY <1>3, HeadInUse, <1>2 DEF AllFrames, Calm, FrameOK, FrameSet
<1>5. Settled(h, <<f>> \o stack) BY ONLY <1>1, <1>3, <1>4, DoOne
<1> QED BY <1>2, <1>5

\* us_socket_group_deinit.
LEMMA DeinitStep ==
  ASSUME Settled(heap, stack), NEW g \in Groups, us_socket_group_deinit(g)
  PROVE  Settled(heap', stack')
<1>1. PICK Z : World(heap, Z) /\ StackOK(heap.life, Z, stack)
  BY DEF Settled
<1>2. /\ heap' = [(IF heap.linked[g] THEN UnlinkGroup(heap, g) ELSE heap) EXCEPT !.gone[g] = TRUE]
      /\ stack' = stack /\ IsEmpty(heap, g)
  BY DEF us_socket_group_deinit
<1>3. PICK k : k = Freed(heap, g) OBVIOUS
<1>4. World(k, Z) /\ k.life = heap.life /\ ~heap.linked[g]
  BY ONLY <1>1, <1>2, <1>3, g \in Groups, DeinitOK
<1>5. heap' = k BY <1>2, <1>3, <1>4 DEF Freed
<1>6. Aged(heap, k) BY <1>1, <1>4, WorldParts, SameAge
<1>7. Settled(k, stack) BY ONLY <1>1, <1>4, <1>6, CallNone
<1> QED BY <1>2, <1>5, <1>7

\* us_loop_run_bun_tick, up to its events.
LEMMA BeginTickStep ==
  ASSUME Settled(heap, stack), BeginTick
  PROVE  Settled(heap', stack')
<1>1. PICK Z : World(heap, Z) /\ StackOK(heap.life, Z, stack)
  BY DEF Settled
<1>2. PICK u, f : /\ u = [i \in DOMAIN stack |-> Under(stack[i])] /\ f = [k |-> "tick", live |-> TRUE]
                  /\ heap' = HandleLowPriority(heap) /\ stack' = <<f>> \o u
  BY DEF BeginTick
<1>3. stack = <<>> \/ \E i \in 1..Len(stack) : stack[i].k = "tick"
  <2>1. CASE Depth > 0
    <3>1. stack \in Seq(FrameSet) /\ DOMAIN stack = 1..Len(stack)
      BY <1>1 DEF StackOK
    <3>2. PICK F : F = Frames("tick") OBVIOUS
    <3>3. Cardinality(F) > 0 BY <2>1, <3>2 DEF Depth
    <3>4. F # {} BY <3>3, FS_EmptySet
    <3> QED BY <3>1, <3>2, <3>4 DEF Frames
  <2> QED BY <2>1 DEF BeginTick
<1>4. World(heap', Z) /\ heap'.life = heap.life
  BY ONLY <1>1, <1>2, BeginTickOK
<1>5. /\ StackOK(heap.life, Z, u)
      /\ u = <<>> \/ \E i \in 1..Len(u) : u[i].k = "tick"
  <2>1. /\ StackOK(heap.life, Z, u)
        /\ stack = <<>> => u = <<>>
        /\ (\E i \in 1..Len(stack) : stack[i].k = "tick") => \E i \in 1..Len(u) : u[i].k = "tick"
    BY ONLY <1>1, <1>2, UnderOK
  <2> QED BY ONLY <1>3, <2>1
<1>6. f \in TickFrames BY <1>2 DEF TickFrames
<1>7. PICK c : c = <<f>> \o u OBVIOUS
<1>8. StackOK(heap.life, Z, c) BY ONLY <1>5, <1>6, <1>7, PushTickOK
<1> QED BY <1>2, <1>4, <1>7, <1>8 DEF Settled

\* The end of a tick: the outermost frees the closed sockets.
LEMMA EndTickStep ==
  ASSUME Settled(heap, stack), EndTick
  PROVE  Settled(heap', stack')
<1>1. PICK Z : World(heap, Z) /\ StackOK(heap.life, Z, stack)
  BY DEF Settled
<1>2. /\ stack # <<>> /\ Head(stack).k = "tick"
      /\ heap' = (IF MayFree THEN FreeClosed(heap) ELSE heap) /\ stack' = Tail(stack)
  BY DEF EndTick, At, Top
<1>3. PICK f, st : f = Head(stack) /\ st = Tail(stack) OBVIOUS
<1>4. StackOK(heap.life, Z, st) BY <1>1, <1>2, <1>3, PopOK
<1>5. CASE MayFree
  <2>1. PICK F : F = {i \in 1..Len(stack) : stack[i].k = "tick"}
    OBVIOUS
  <2>2. stack \in Seq(FrameSet) /\ DOMAIN stack = 1..Len(stack) /\ Len(stack) \in Nat /\ Len(stack) # 0
    BY <1>1, <1>2 DEF StackOK
  <2>3. Cardinality(F) <= 1
    BY <1>5, <2>1, <2>2 DEF MayFree, Depth, Frames
  <2>4. Z = {} /\ Len(stack) = 1
    BY ONLY <1>1, <1>2, <2>1, <2>3, OutermostTick
  <2>5. heap' = FreeClosed(heap) BY <1>2, <1>5
  <2>6. World(heap', Z) BY ONLY <1>1, <2>4, <2>5, FreeClosedOK
  <2>7. st \in Seq(FrameSet) /\ Len(st) = 0 BY <1>3, <2>2, <2>4
  <2>8. st = <<>> BY ONLY <2>7
  <2>9. StackOK(heap'.life, Z, st) BY <2>4, <2>8 DEF StackOK
  <2> QED BY <1>2, <1>3, <2>6, <2>9 DEF Settled
<1>6. CASE ~MayFree BY <1>1, <1>2, <1>3, <1>4, <1>6 DEF Settled
<1> QED BY <1>5, <1>6

\* A callback returns; the close it was told of ends.
LEMMA ReturnStep ==
  ASSUME Settled(heap, stack), Return
  PROVE  Settled(heap', stack')
<1>1. stack # <<>> /\ Head(stack).k = "user" BY DEF Return, At, Top
<1>2. PICK Z, f, b : Resumes(heap, stack, Z, f, b) BY <1>1, Resumed
<1>3. World(heap, Z) /\ StackOK(heap.life, Z, b) /\ b = Tail(stack)
  BY <1>2 DEF Resumes
<1>4. CASE b # <<>> /\ Head(b).k = "close"
  <2>1. PICK c, st, s, Y : c = Head(b) /\ st = Tail(b) /\ s = c.s /\ Y = Z \ {s}
    OBVIOUS
  <2>2. StackOK(heap.life, Y, st) /\ s \in Z
    <3>1. c.k = "close" BY <1>4, <2>1
    <3>2. StackOK(heap.life, Z \ {s}, st) /\ s \in Z
      BY ONLY <1>3, <1>4, <2>1, <3>1, PopCloseOK
    <3> QED BY <2>1, <3>2
  <2>3. heap' = OnClosedList(heap, s) /\ stack' = <<>> \o st
    BY <1>3, <1>4, <2>1 DEF Return, Do, Outcome
  <2>4. World(heap', Y) /\ heap'.life = heap.life
    <3>1. PICK k : k = OnClosedList(heap, s) OBVIOUS
    <3>2. s \in Z /\ Y = Z \ {s} BY <2>1, <2>2
    <3>3. World(k, Y) /\ k.life = heap.life
      BY ONLY <1>3, <3>1, <3>2, OnClosedOK
    <3> QED BY <2>3, <3>1, <3>3
  <2>5. <<>> \o st = st
    <3>1. st \in Seq(FrameSet) BY <2>2 DEF StackOK
    <3> QED BY ONLY <3>1
  <2> QED BY <2>2, <2>3, <2>4, <2>5 DEF Settled
<1>5. CASE ~(b # <<>> /\ Head(b).k = "close")
  <2>1. heap' = heap /\ stack' = <<>> \o b
    BY <1>3, <1>5 DEF Return, Do, Outcome
  <2>2. <<>> \o b = b
    <3>1. b \in Seq(FrameSet) BY <1>3 DEF StackOK
    <3> QED BY ONLY <3>1
  <2> QED BY <1>3, <2>1, <2>2 DEF Settled
<1> QED BY <1>4, <1>5

\* Frames that go on with a socket.
LEMMA PollCalm ==
  ASSUME NEW life, NEW s, InUse(life, s), NEW todo \in Seq(Stages), NEW hop \in BOOLEAN,
         NEW f, f = [k |-> "poll", s |-> s, todo |-> todo, hop |-> hop]
  PROVE  Calm(life, f)
  BY DEF PollFrames, InUse, Calm, FrameOK, FrameSet

LEMMA AcceptCalm ==
  ASSUME NEW life, NEW ls \in Sockets, life[ls] \in {"listen", "closed"}, NEW s, Leads(life, s),
         NEW f, f = [k |-> "accept", ls |-> ls, s |-> s]
  PROVE  Calm(life, f)
<1>1. f \in AcceptFrames BY DEF AcceptFrames, Leads, InUse, Ptr
<1>2. f.k = "accept" /\ f.s = s /\ f.ls = ls OBVIOUS
<1> QED BY <1>1, <1>2 DEF Calm, FrameOK, FrameSet

LEMMA SocketCalm ==
  ASSUME NEW life, NEW s, InUse(life, s), NEW kind \in {"ssl", "semi"},
         NEW f, f = [k |-> kind, s |-> s]
  PROVE  Calm(life, f)
  BY DEF SocketFrames, InUse, Calm, FrameOK, FrameSet

LEMMA EventStages ==
  ASSUME NEW h, NEW s, NEW e \in Events(h, s)
  PROVE  e \in Seq(Stages)
<1>1. e \in {<<"write", "read">>, <<"fin", "end", "close">>, <<"close">>, <<"write">>, <<"end", "close">>,
            <<"write", "read", "end", "close">>}
  BY DEF Events
<1>2. "write" \in Stages /\ "read" \in Stages /\ "fin" \in Stages /\ "end" \in Stages /\ "close" \in Stages
  BY DEF Stages
<1>3. /\ <<"write", "read">> \in Seq(Stages) /\ <<"close">> \in Seq(Stages)
      /\ <<"write">> \in Seq(Stages) /\ <<"end", "close">> \in Seq(Stages)
  BY ONLY <1>2
<1>4. <<"fin", "end", "close">> \in Seq(Stages) /\ <<"write", "read", "end", "close">> \in Seq(Stages)
  BY ONLY <1>2
<1> QED BY ONLY <1>1, <1>3, <1>4

\* An event of a socket.
LEMMA DispatchSocketStep ==
  ASSUME Settled(heap, stack), NEW s \in Sockets, DispatchSocket(s)
  PROVE  Settled(heap', stack')
<1>1. PICK Z : World(heap, Z) /\ StackOK(heap.life, Z, stack)
  BY DEF Settled
<1>2. PICK e \in Events(heap, s) : heap' = heap /\ stack' = <<Poll(s, e)>> \o stack
  BY DEF DispatchSocket, Do, Outcome
<1>3. PICK f : f = Poll(s, e) OBVIOUS
<1>4. Calm(heap.life, f)
  <2>1. InUse(heap.life, s) BY DEF DispatchSocket, Alive, InUse
  <2>2. e \in Seq(Stages) /\ TRUE \in BOOLEAN BY <1>2, EventStages
  <2>3. f = [k |-> "poll", s |-> s, todo |-> e, hop |-> TRUE]
    BY <1>3 DEF Poll
  <2> QED BY ONLY <2>1, <2>2, <2>3, PollCalm
<1>5. Aged(heap, heap) BY <1>1, WorldParts, SameAge
<1>6. Settled(heap, <<f>> \o stack) BY ONLY <1>1, <1>4, <1>5, DoOne
<1> QED BY <1>2, <1>3, <1>6

\* An event of a connect.
LEMMA DispatchConnectStep ==
  ASSUME Settled(heap, stack), NEW s \in Sockets, DispatchConnect(s)
  PROVE  Settled(heap', stack')
<1>1. PICK Z : World(heap, Z) /\ StackOK(heap.life, Z, stack)
  BY DEF Settled
<1>2. stack' = <<User>> \o stack /\ (heap' = Connected(heap, s) \/ heap' = heap)
  BY DEF DispatchConnect, Connected
<1>3. s \in Open(heap) BY DEF DispatchConnect, Alive, Open
<1>4. World(heap', Z) /\ heap'.life = heap.life
  BY <1>1, <1>2, <1>3, ConnectedOK
<1>5. Aged(heap, heap') /\ Calm(heap'.life, User)
  BY <1>1, <1>4, WorldParts, SameAge, CalmUser
<1>6. Settled(heap', <<User>> \o stack)
  BY ONLY <1>1, <1>4, <1>5, DoOne
<1> QED BY <1>2, <1>6

\* A listening socket keeps its group on the loop.
LEMMA ListenGroup ==
  ASSUME NEW h, NEW Z, World(h, Z), NEW s \in Sockets, h.life[s] = "listen", NEW g, g = h.group[s]
  PROVE  g \in Groups /\ ~h.gone[g]
<1>1. g \in Groups /\ h.listen[g] # Null
  <2>1. Null \notin Sockets BY Bounds
  <2> QED BY <2>1, WorldParts DEF ListensOK
<1>2. /\ Busy(h.linked, h.head, h.listen, h.count, {})
      /\ LoopOK(h.gnext, h.gprev, h.loopHead, h.loopIter, h.linked, h.gone)
  BY WorldParts DEF Tidy, Exact
<1>3. h.linked[g] BY <1>1, <1>2 DEF Busy
<1> QED BY <1>1, <1>2, <1>3 DEF LoopOK

\* A turn of the accept loop.
LEMMA AcceptOK ==
  ASSUME NEW Z, World(heap, Z), NEW st, StackOK(heap.life, Z, st), NEW ls \in Sockets,
         heap.life[ls] = "listen", Accept(ls, st)
  PROVE  Settled(heap', stack')
<1>1. PICK s \in Fresh(heap) :
        /\ heap' = OpenSocket(heap, heap.group[ls], s, FALSE)
        /\ stack' = <<User, [k |-> "accept", ls |-> ls, s |-> s]>> \o st
  BY DEF Accept, Do, Outcome
<1>2. PICK g, f : g = heap.group[ls] /\ f = [k |-> "accept", ls |-> ls, s |-> s]
  OBVIOUS
<1>3. g \in Groups /\ ~heap.gone[g] BY <1>2, ListenGroup
<1>4. s \in Sockets /\ heap.life[s] = "unused" /\ FALSE \in BOOLEAN /\ s # ls
  BY <1>1, FreshOK
<1>5. heap' = OpenSocket(heap, g, s, FALSE) BY <1>1, <1>2
<1>6. World(heap', Z) /\ Aged(heap, heap') /\ Opens(heap, heap', s)
  BY ONLY World(heap, Z), <1>3, <1>4, <1>5, OpenSocketOK
<1>7. heap'.life[ls] = "listen" /\ heap'.life[s] = "open"
  BY WorldParts, <1>4, <1>6 DEF Opens, LifeMap
<1>8. Calm(heap'.life, f) /\ Calm(heap'.life, User)
  BY <1>4, <1>7, <1>2, AcceptCalm, CalmUser DEF Leads, InUse
<1>9. Settled(heap', <<User, f>> \o st)
  BY ONLY World(heap, Z), StackOK(heap.life, Z, st), <1>6, <1>8, DoTwo
<1> QED BY <1>1, <1>2, <1>9

\* An event of a listening socket.
LEMMA DispatchListenStep ==
  ASSUME Settled(heap, stack), NEW ls \in Sockets, DispatchListen(ls)
  PROVE  Settled(heap', stack')
<1>1. PICK Z : World(heap, Z) /\ StackOK(heap.life, Z, stack)
  BY DEF Settled
<1>2. heap.life[ls] = "listen" /\ Accept(ls, stack)
  BY DEF DispatchListen
<1> QED BY ONLY <1>1, <1>2, ls \in Sockets, AcceptOK

\* A sweep begins.
LEMMA SweepTimerStep ==
  ASSUME Settled(heap, stack), SweepTimer
  PROVE  Settled(heap', stack')
<1>1. PICK Z : World(heap, Z) /\ StackOK(heap.life, Z, stack)
  BY DEF Settled
<1>2. heap' = GoTo(heap, heap.loopHead) /\ stack' = <<NextGroup>> \o stack
  BY DEF SweepTimer, GoTo
<1>3. PICK x : x = heap.loopHead OBVIOUS
<1>4. x \in OnLoop(heap.linked) \cup {Null} /\ heap' = GoTo(heap, x)
  BY <1>1, <1>2, <1>3, LoopNodes
<1>5. World(heap', Z) /\ heap'.life = heap.life
  BY ONLY <1>1, <1>4, GoToOK
<1>6. Aged(heap, heap') /\ Calm(heap'.life, NextGroup)
  BY <1>1, <1>5, WorldParts, SameAge, GroupFrame DEF SweepCalm
<1>7. Settled(heap', <<NextGroup>> \o stack)
  BY ONLY <1>1, <1>5, <1>6, DoOne
<1> QED BY <1>2, <1>7

\* The address that a dispatch follows its socket to.
LEMMA HopInUse ==
  ASSUME NEW Z, World(heap, Z), NEW s, InUse(heap.life, s)
  PROVE  InUse(heap.life, Hop(s))
<1>1. LinksOK(heap.life, heap.adopted, heap.prev, heap.next, heap.prio)
  BY WorldParts
<1>2. CASE heap.adopted[s] /\ heap.prev[s] # Null
  BY <1>2, <1>1 DEF Hop, InUse, LinksOK
<1>3. CASE ~(heap.adopted[s] /\ heap.prev[s] # Null) BY <1>3 DEF Hop
<1> QED BY <1>2, <1>3

LEMMA NotClosed ==
  ASSUME NEW h, NEW s, InUse(h.life, s), ~IsClosed(h, s)
  PROVE  s \in Open(h)
  BY DEF InUse, IsClosed, Open

\* After on_open.
LEMMA AcceptStep ==
  ASSUME Settled(heap, stack), AcceptGoesOn
  PROVE  Settled(heap', stack')
<1>1. stack # <<>> /\ Head(stack).k = "accept"
  BY DEF AcceptGoesOn, At, Top
<1>2. PICK Z, f, st : Resumes(heap, stack, Z, f, st) BY <1>1, Resumed
<1>3. /\ World(heap, Z) /\ StackOK(heap.life, Z, st) /\ f = Head(stack) /\ st = Tail(stack)
      /\ f.k = "accept" /\ f \in AcceptFrames
      /\ heap.life[f.ls] \in {"listen", "closed"} /\ Leads(heap.life, f.s)
  BY <1>1, <1>2, FrameKinds DEF Resumes, FrameOK
<1>4. f.ls \in Sockets /\ f = [k |-> "accept", ls |-> f.ls, s |-> f.s]
  BY <1>3 DEF AcceptFrames
<1>5. PICK e, p : /\ e = [f EXCEPT !.s = Null]
                  /\ p = [k |-> "poll", s |-> Hop(f.s), todo |-> <<"read">>, hop |-> TRUE]
  OBVIOUS
<1>6. \/ f.s # Null /\ heap' = heap /\ stack' = <<p, e>> \o st
      \/ ~IsClosed(heap, f.ls) /\ Accept(f.ls, st)
      \/ heap' = heap /\ stack' = <<>> \o st
  BY <1>3, <1>5 DEF AcceptGoesOn, Top, Do, Outcome, Poll
<1>7. Aged(heap, heap) BY <1>3, WorldParts, SameAge
<1>8. CASE f.s # Null /\ heap' = heap /\ stack' = <<p, e>> \o st
  <2>1. Calm(heap.life, e)
    <3>1. e = [k |-> "accept", ls |-> f.ls, s |-> Null]
      BY ONLY <1>4, <1>5
    <3>2. Leads(heap.life, Null) BY DEF Leads
    <3> QED BY ONLY <1>3, <1>4, <3>1, <3>2, AcceptCalm
  <2>2. Calm(heap.life, p)
    <3>1. InUse(heap.life, f.s) BY <1>3, <1>8 DEF Leads
    <3>2. InUse(heap.life, Hop(f.s)) BY <1>3, <3>1, HopInUse
    <3>3. <<"read">> \in Seq(Stages) /\ TRUE \in BOOLEAN BY DEF Stages
    <3> QED BY ONLY <1>5, <3>2, <3>3, PollCalm
  <2>3. Settled(heap, <<p, e>> \o st)
    BY ONLY <1>3, <1>7, <2>1, <2>2, DoTwo
  <2> QED BY <1>8, <2>3
<1>9. CASE ~IsClosed(heap, f.ls) /\ Accept(f.ls, st)
  <2>1. heap.life[f.ls] = "listen" BY <1>3, <1>9 DEF IsClosed
  <2> QED BY ONLY <1>3, <1>4, <1>9, <2>1, AcceptOK
<1>10. CASE heap' = heap /\ stack' = <<>> \o st
  <2>1. Settled(heap, <<>> \o st) BY ONLY <1>3, <1>7, CallNone
  <2> QED BY <1>10, <2>1
<1> QED BY <1>6, <1>8, <1>9, <1>10

\* us_internal_ssl_close, after on_handshake.
LEMMA SslStep ==
  ASSUME Settled(heap, stack), SslGoesOn
  PROVE  Settled(heap', stack')
<1>1. stack # <<>> /\ Head(stack).k = "ssl" BY DEF SslGoesOn, At, Top
<1>2. PICK Z, f, st : Resumes(heap, stack, Z, f, st) BY <1>1, Resumed
<1>3. /\ World(heap, Z) /\ StackOK(heap.life, Z, st) /\ f = Head(stack) /\ st = Tail(stack)
      /\ InUse(heap.life, f.s)
  BY <1>1, <1>2 DEF Resumes, FrameOK
<1>4. CASE IsClosed(heap, f.s)
  <2>1. heap' = heap /\ stack' = <<>> \o st
    BY <1>3, <1>4 DEF SslGoesOn, Top, Do, Outcome
  <2>2. Aged(heap, heap) BY <1>3, WorldParts, SameAge
  <2>3. Settled(heap, <<>> \o st) BY ONLY <1>3, <2>2, CallNone
  <2> QED BY <2>1, <2>3
<1>5. CASE ~IsClosed(heap, f.s)
  <2>1. PICK o \in SslShutdown(heap, f.s) : heap' = o.h /\ stack' = o.f \o st
    BY <1>3, <1>5 DEF SslGoesOn, Top, Do
  <2>2. Leaves(heap, Z, o) BY ONLY <1>3, <2>1, SslShutdownOK
  <2>3. Settled(o.h, o.f \o st) BY ONLY <1>3, <2>2, DoOK
  <2> QED BY <2>1, <2>3
<1> QED BY <1>4, <1>5

\* A connect under way in close_all, after on_connect_error.
LEMMA SemiStep ==
  ASSUME Settled(heap, stack), SemiGoesOn
  PROVE  Settled(heap', stack')
<1>1. stack # <<>> /\ Head(stack).k = "semi"
  BY DEF SemiGoesOn, At, Top
<1>2. PICK Z, f, st : Resumes(heap, stack, Z, f, st) BY <1>1, Resumed
<1>3. /\ World(heap, Z) /\ StackOK(heap.life, Z, st) /\ f = Head(stack) /\ st = Tail(stack)
      /\ InUse(heap.life, f.s)
  BY <1>1, <1>2 DEF Resumes, FrameOK
<1>4. PICK o : o = CloseRaw(heap, f.s) /\ heap' = o.h /\ stack' = o.f \o st
  BY <1>3 DEF SemiGoesOn, Top, Do
<1>5. Leaves(heap, Z, o) BY ONLY <1>3, <1>4, CloseRawOK
<1>6. Settled(o.h, o.f \o st) BY ONLY <1>3, <1>5, DoOK
<1> QED BY <1>4, <1>6

\* A call made from a frame that goes on after it.
LEMMA DoAbove ==
  ASSUME NEW h, NEW Z, World(h, Z), NEW st, StackOK(h.life, Z, st), NEW o, Leaves(h, Z, o),
         NEW f, Calm(h.life, f)
  PROVE  Settled(o.h, o.f \o (<<f>> \o st))
<1>1. PICK b : b = <<f>> \o st OBVIOUS
<1>2. StackOK(h.life, Z, b)
  BY ONLY <1>1, StackOK(h.life, Z, st), Calm(h.life, f), PushOK
<1>3. Settled(o.h, o.f \o b)
  BY ONLY <1>2, World(h, Z), Leaves(h, Z, o), DoOK
<1> QED BY <1>1, <1>3

\* A call that does nothing but call back.
LEMMA NoCall ==
  ASSUME NEW h, NEW Z, World(h, Z), NEW o, o = Outcome(h, <<>>) \/ o = Outcome(h, <<User>>)
  PROVE  Leaves(h, Z, o)
  BY LeavesPlain DEF Outcome, Quiet

\* The successor of a socket, on whatever list it is.
LEMMA NextInUse ==
  ASSUME NEW h, NEW Z, World(h, Z), NEW s, InUse(h.life, s)
  PROVE  Leads(h.life, h.next[s]) /\ h.next[s] \in Ptr
<1>1. s \in Sockets /\ h.next \in PtrMap BY WorldParts DEF InUse
<1>2. CASE h.life[s] = "open"
  <2>1. PICK In, C, hd, W, n, p :
          /\ In = Open(h) /\ C = Shut(h) \ Z /\ hd = Heads(h.head, h.lowHead)
          /\ W = Places(h.prio, h.group) /\ n = h.next[s] /\ p = h.prev[s]
    OBVIOUS
  <2>2. Rows(h.next, h.prev, hd, W, h.closedHead, In, C)
    BY <2>1, WorldParts DEF Tidy, Exact, SocketLists
  <2>3. s \in In BY <1>1, <1>2, <2>1 DEF Open
  <2>4. n = Null \/ n \in In BY <2>1, <2>2, <2>3, Neighbours
  <2> QED BY <1>1, <2>1, <2>4 DEF Open, Leads, InUse, PtrMap
<1>3. CASE h.life[s] = "closed"
  BY WorldParts, <1>1, <1>3 DEF LinksOK, PtrMap
<1> QED BY <1>2, <1>3 DEF InUse

LEMMA LowHeadInUse ==
  ASSUME NEW h, NEW Z, World(h, Z)
  PROVE  Leads(h.life, h.lowHead) /\ h.lowHead \in Ptr
<1>1. PICK s, In, C, P :
        s = h.lowHead /\ In = Open(h) /\ C = Shut(h) \ Z /\ P = Waits(h, In)
  OBVIOUS
<1>2. Exact(h, In, C, P, {}) /\ s \in Ptr
  BY <1>1, WorldParts, HeapParts DEF Tidy
<1>3. s # Null => s \in In BY <1>1, <1>2, LowHead DEF Waits
<1> QED BY <1>1, <1>2, <1>3 DEF Leads, InUse, Open

LEMMA AllCalm ==
  ASSUME NEW life, NEW f \in AllFrames, Leads(life, f.cur)
  PROVE  Calm(life, f)
  BY DEF Calm, FrameOK, FrameSet, AllFrames

\* us_socket_group_close_all_ex: the turns of its walks.
NextOf(f) == [f EXCEPT !.cur = heap.next[f.cur]]
Forced(f) == [f EXCEPT !.phase = "force"]
Queued(f) == [f EXCEPT !.phase = "queue", !.cur = heap.lowHead]

AllTurn(f, st, s, g, fn, ff, fq) ==
  \/ s # Null /\ Do(Outcome(heap, <<User, [k |-> "semi", s |-> s]>>), <<fn>> \o st)
  \/ s # Null /\ \E o \in CloseSocket(heap, s) : Do(o, <<fn>> \o st)
  \/ heap.head[g] # Null /\ Do(CloseRaw(heap, heap.head[g]), <<ff>> \o st)
  \/ heap.head[g] = Null /\ Do(Outcome(heap, <<>>), <<fq>> \o st)
  \/ s # Null /\ Do(Outcome(heap, <<>>), <<fn>> \o st)
  \/ /\ f.phase = "walk" \/ f.phase = "force" => heap.head[g] = Null
     /\ Do(Outcome(heap, <<>>), st)

LEMMA AllTurns ==
  ASSUME CloseAllGoesOn, NEW f, f = Head(stack), NEW st, st = Tail(stack),
         NEW s, s = f.cur, NEW g, g = f.g,
         NEW fn, fn = NextOf(f), NEW ff, ff = Forced(f), NEW fq, fq = Queued(f)
  PROVE  AllTurn(f, st, s, g, fn, ff, fq)
<1>1. LET x == Head(stack)
          y == x.cur
      IN  CASE x.phase = "walk" /\ y # Null /\ heap.semi[y] ->
            Do(Outcome(heap, <<User, [k |-> "semi", s |-> y]>>), <<NextOf(x)>> \o Tail(stack))
          [] x.phase = "walk" /\ y # Null /\ ~heap.semi[y] ->
            \E o \in CloseSocket(heap, y) : Do(o, <<NextOf(x)>> \o Tail(stack))
          [] Walked(x) /\ Survivors(heap, x.g) ->
            Do(CloseRaw(heap, heap.head[x.g]), <<Forced(x)>> \o Tail(stack))
          [] Walked(x) /\ ~Survivors(heap, x.g) /\ heap.count[x.g] # 0 ->
            Do(Outcome(heap, <<>>), <<Queued(x)>> \o Tail(stack))
          [] x.phase = "queue" /\ y # Null ->
            \E o \in IF heap.group[y] = x.g THEN CloseSocket(heap, y) ELSE {Outcome(heap, <<>>)} :
              Do(o, <<NextOf(x)>> \o Tail(stack))
          [] OTHER -> Do(Outcome(heap, <<>>), Tail(stack))
  BY ONLY CloseAllGoesOn, Zenon DEF CloseAllGoesOn, Top, NextOf, Forced, Queued
<1>2. (CASE f.phase = "walk" /\ s # Null /\ heap.semi[s] ->
            Do(Outcome(heap, <<User, [k |-> "semi", s |-> s]>>), <<fn>> \o st)
       [] f.phase = "walk" /\ s # Null /\ ~heap.semi[s] ->
            \E o \in CloseSocket(heap, s) : Do(o, <<fn>> \o st)
       [] Walked(f) /\ Survivors(heap, g) ->
            Do(CloseRaw(heap, heap.head[g]), <<ff>> \o st)
       [] Walked(f) /\ ~Survivors(heap, g) /\ heap.count[g] # 0 ->
            Do(Outcome(heap, <<>>), <<fq>> \o st)
       [] f.phase = "queue" /\ s # Null ->
            \E o \in IF heap.group[s] = g THEN CloseSocket(heap, s) ELSE {Outcome(heap, <<>>)} :
              Do(o, <<fn>> \o st)
       [] OTHER -> Do(Outcome(heap, <<>>), st))
  BY ONLY <1>1, f = Head(stack), st = Tail(stack), s = f.cur, g = f.g, fn = NextOf(f),
          ff = Forced(f), fq = Queued(f), Zenon
<1> QED BY ONLY <1>2, s = f.cur, Zenon DEF Survivors, Walked, AllTurn

\* us_socket_group_close_all_ex, a turn of one of its walks.
LEMMA CloseAllGoesOnStep ==
  ASSUME Settled(heap, stack), CloseAllGoesOn
  PROVE  Settled(heap', stack')
<1>1. stack # <<>> /\ Head(stack).k = "all"
  BY DEF CloseAllGoesOn, At, Top
<1>2. PICK Z, f, st : Resumes(heap, stack, Z, f, st) BY <1>1, Resumed
<1>3. /\ World(heap, Z) /\ StackOK(heap.life, Z, st) /\ f = Head(stack) /\ st = Tail(stack)
      /\ f \in AllFrames /\ Leads(heap.life, f.cur)
  BY <1>1, <1>2, FrameKinds DEF Resumes, FrameOK
<1>4. PICK s, g, fn, ff, fq :
        /\ s = f.cur /\ g = f.g
        /\ fn = [f EXCEPT !.cur = heap.next[s]] /\ ff = [f EXCEPT !.phase = "force"]
        /\ fq = [f EXCEPT !.phase = "queue", !.cur = heap.lowHead]
  OBVIOUS
<1>5. AllTurn(f, st, s, g, fn, ff, fq)
  BY ONLY <1>3, <1>4, CloseAllGoesOn, AllTurns DEF NextOf, Forced, Queued
<1>6. Aged(heap, heap) BY <1>3, WorldParts, SameAge
<1>7. s # Null => /\ InUse(heap.life, s) /\ fn \in AllFrames /\ fn.cur = heap.next[s]
                  /\ Leads(heap.life, fn.cur)
  <2>1. s # Null => InUse(heap.life, s) BY <1>3, <1>4 DEF Leads
  <2>2. s # Null => Leads(heap.life, heap.next[s]) /\ heap.next[s] \in Ptr
    BY <1>3, <2>1, NextInUse
  <2>3. s # Null => fn \in AllFrames /\ fn.cur = heap.next[s]
    BY <1>3, <1>4, <2>2 DEF AllFrames
  <2> QED BY <2>1, <2>2, <2>3
<1>8. s # Null => Calm(heap.life, fn) BY <1>7, AllCalm
<1>9. CASE s # Null /\ Do(Outcome(heap, <<User, [k |-> "semi", s |-> s]>>), <<fn>> \o st)
  <2>1. PICK b, e : b = <<fn>> \o st /\ e = [k |-> "semi", s |-> s]
    OBVIOUS
  <2>2. StackOK(heap.life, Z, b)
    BY ONLY <1>3, <1>8, <1>9, <2>1, PushOK
  <2>3. Calm(heap.life, e) /\ Calm(heap.life, User)
    <3>1. "semi" \in {"ssl", "semi"} /\ InUse(heap.life, s)
      BY <1>7, <1>9
    <3>2. Calm(heap.life, e) BY ONLY <2>1, <3>1, SocketCalm
    <3> QED BY <3>2, CalmUser
  <2>4. Settled(heap, <<User, e>> \o b)
    BY ONLY <1>3, <1>6, <2>2, <2>3, DoTwo
  <2> QED BY <1>9, <2>1, <2>4 DEF Do, Outcome
<1>10. CASE s # Null /\ \E o \in CloseSocket(heap, s) : Do(o, <<fn>> \o st)
  <2>1. PICK o \in CloseSocket(heap, s) : heap' = o.h /\ stack' = o.f \o (<<fn>> \o st)
    BY <1>10 DEF Do
  <2>2. InUse(heap.life, s) /\ Calm(heap.life, fn)
    BY <1>7, <1>8, <1>10
  <2>3. Leaves(heap, Z, o) BY ONLY <1>3, <2>1, <2>2, CloseSocketOK
  <2>4. Settled(o.h, o.f \o (<<fn>> \o st))
    BY ONLY <1>3, <2>2, <2>3, DoAbove
  <2> QED BY <2>1, <2>4
<1>11. CASE heap.head[g] # Null /\ Do(CloseRaw(heap, heap.head[g]), <<ff>> \o st)
  <2>1. PICK o, x : x = heap.head[g] /\ o = CloseRaw(heap, x) OBVIOUS
  <2>2. g \in Groups /\ ff \in AllFrames /\ ff.cur = f.cur
    BY <1>3, <1>4 DEF AllFrames
  <2>3. InUse(heap.life, x)
    BY <1>3, <1>11, <2>1, <2>2, HeadInUse DEF Leads
  <2>4. Calm(heap.life, ff) BY <1>3, <2>2, AllCalm
  <2>5. Leaves(heap, Z, o) BY ONLY <1>3, <2>1, <2>3, CloseRawOK
  <2>6. Settled(o.h, o.f \o (<<ff>> \o st))
    BY ONLY <1>3, <2>4, <2>5, DoAbove
  <2> QED BY <1>11, <2>1, <2>6 DEF Do
<1>12. CASE Do(Outcome(heap, <<>>), <<fq>> \o st)
  <2>o. PICK o : o = Outcome(heap, <<>>) OBVIOUS
  <2>1. o = Outcome(heap, <<>>) /\ o.h = heap /\ o.f = <<>>
    BY <2>o DEF Outcome
  <2>2. Leads(heap.life, heap.lowHead) /\ heap.lowHead \in Ptr
    BY <1>3, LowHeadInUse
  <2>3. fq \in AllFrames /\ fq.cur = heap.lowHead
    BY <1>3, <1>4, <2>2 DEF AllFrames
  <2>4. Calm(heap.life, fq) BY <2>2, <2>3, AllCalm
  <2>5. Leaves(heap, Z, o) BY <1>3, <2>1, NoCall
  <2>6. Settled(o.h, o.f \o (<<fq>> \o st))
    BY ONLY <1>3, <2>4, <2>5, DoAbove
  <2> QED BY <1>12, <2>1, <2>6 DEF Do
<1>13. CASE s # Null /\ Do(Outcome(heap, <<>>), <<fn>> \o st)
  <2>o. PICK o : o = Outcome(heap, <<>>) OBVIOUS
  <2>1. o = Outcome(heap, <<>>) /\ o.h = heap /\ o.f = <<>>
    BY <2>o DEF Outcome
  <2>2. Calm(heap.life, fn) BY <1>8, <1>13
  <2>3. Leaves(heap, Z, o) BY <1>3, <2>1, NoCall
  <2>4. Settled(o.h, o.f \o (<<fn>> \o st))
    BY ONLY <1>3, <2>2, <2>3, DoAbove
  <2> QED BY <1>13, <2>1, <2>4 DEF Do
<1>14. CASE Do(Outcome(heap, <<>>), st)
  <2>1. Settled(heap, <<>> \o st) BY ONLY <1>3, <1>6, CallNone
  <2> QED BY <1>14, <2>1 DEF Do, Outcome
<1> QED
  BY ONLY <1>5, <1>9, <1>10, <1>11, <1>12, <1>13, <1>14, Zenon DEF AllTurn

\* us_internal_dispatch_ready_poll: the turns of its stages.
PollTurn(s, w, r, q, st) ==
  \/ Do(Outcome(heap, <<>>), st)
  \/ /\ w # <<>> /\ ~IsClosed(heap, s)
     /\ \/ Do(Outcome(heap, <<User, r>>), st)
        \/ heap.prio[s] # 1 /\ Do(Outcome(Park(heap, s), <<>>), st)
        \/ /\ ~Parks(heap, s)
           /\ \E h \in Admitted(heap, s) :
                Do(Outcome(h, <<User, r>>), st) \/ Do(Outcome(h, <<r>>), st)
        \/ \E o \in CloseSocket(heap, s) : Do(o, <<q>> \o st)
        \/ Do(Outcome(heap, <<User>>), <<q>> \o st)
        \/ Do(CloseRaw(heap, s), st)

LEMMA PollTurns ==
  ASSUME ~ParkedTwice', PollGoesOn, NEW f, f = Head(stack), NEW st, st = Tail(stack),
         st \in Seq(FrameSet),
         NEW s, s = (IF f.hop THEN Hop(f.s) ELSE f.s), NEW w, w = f.todo,
         NEW r, r = [f EXCEPT !.s = s, !.todo = Tail(@), !.hop = TRUE],
         NEW q, q = [r EXCEPT !.hop = FALSE]
  PROVE  PollTurn(s, w, r, q, st)
<1>1. IF w = <<>> \/ IsClosed(heap, s) THEN Do(Outcome(heap, <<>>), st)
      ELSE CASE Head(w) = "write" -> Do(Outcome(heap, <<User, r>>), st)
             [] Head(w) \in {"read", "fin"} ->
                  IF Parks(heap, s)
                  THEN Do(ParkAgain(heap, s), st)
                  ELSE \E h \in Admitted(heap, s) :
                         Do(Outcome(h, IF Head(w) = "read" THEN <<User, r>> ELSE <<r>>), st)
             [] Head(w) = "end" ->
                  \E o \in IF s \in Tls THEN CloseSocket(heap, s)
                           ELSE {Outcome(heap, <<User>>)} : Do(o, <<q>> \o st)
             [] OTHER -> Do(CloseRaw(heap, s), st)
  <2>1. LET F == Head(stack)
            x == IF F.hop THEN Hop(F.s) ELSE F.s
            y == [F EXCEPT !.s = x, !.todo = Tail(@), !.hop = TRUE]
        IN
      IF F.todo = <<>> \/ IsClosed(heap, x) THEN Do(Outcome(heap, <<>>), Tail(stack))
      ELSE CASE Head(F.todo) = "write" -> Do(Outcome(heap, <<User, y>>), Tail(stack))
             [] Head(F.todo) \in {"read", "fin"} ->
                  IF Parks(heap, x)
                  THEN Do(ParkAgain(heap, x), Tail(stack))
                  ELSE \E h \in Admitted(heap, x) :
                         Do(Outcome(h, IF Head(F.todo) = "read" THEN <<User, y>> ELSE <<y>>),
                            Tail(stack))
             [] Head(F.todo) = "end" ->
                  \E o \in IF x \in Tls THEN CloseSocket(heap, x)
                           ELSE {Outcome(heap, <<User>>)} :
                    Do(o, <<[y EXCEPT !.hop = FALSE]>> \o Tail(stack))
             [] OTHER -> Do(CloseRaw(heap, x), Tail(stack))
    BY ONLY PollGoesOn, Zenon DEF PollGoesOn, Top
  <2> QED
    BY ONLY <2>1, f = Head(stack), st = Tail(stack), s = (IF f.hop THEN Hop(f.s) ELSE f.s), w = f.todo,
            r = [f EXCEPT !.s = s, !.todo = Tail(@), !.hop = TRUE], q = [r EXCEPT !.hop = FALSE], Zenon
<1>2. Do(ParkAgain(heap, s), st) => heap.prio[s] # 1 /\ Do(Outcome(Park(heap, s), <<>>), st)
  <2>1. ASSUME Do(ParkAgain(heap, s), st), heap.prio[s] = 1 PROVE FALSE
    <3>1. stack' = <<[k |-> "reparked"]>> \o st
      BY <2>1 DEF Do, ParkAgain, Outcome
    <3> QED BY <3>1 DEF ParkedTwice, At, Top
  <2> QED BY <2>1 DEF ParkAgain
<1> QED BY ONLY <1>1, <1>2, Zenon DEF PollTurn

\* us_internal_dispatch_ready_poll, a stage of it.
LEMMA PollStep ==
  ASSUME ~ParkedTwice', Settled(heap, stack), PollGoesOn
  PROVE  Settled(heap', stack')
<1>1. stack # <<>> /\ Head(stack).k = "poll"
  BY DEF PollGoesOn, At, Top
<1>2. PICK Z, f, st : Resumes(heap, stack, Z, f, st) BY <1>1, Resumed
<1>3. /\ World(heap, Z) /\ StackOK(heap.life, Z, st) /\ f = Head(stack) /\ st = Tail(stack)
      /\ f \in PollFrames /\ InUse(heap.life, f.s)
  BY <1>1, <1>2, FrameKinds DEF Resumes, FrameOK
<1>4. PICK s, w, r, q : /\ s = (IF f.hop THEN Hop(f.s) ELSE f.s) /\ w = f.todo
                        /\ r = [f EXCEPT !.s = s, !.todo = Tail(@), !.hop = TRUE]
                        /\ q = [r EXCEPT !.hop = FALSE]
  OBVIOUS
<1>5. f = Head(stack) /\ st = Tail(stack) /\ st \in Seq(FrameSet)
  BY <1>3 DEF StackOK
<1>6. PollTurn(s, w, r, q, st)
  BY ONLY ~ParkedTwice', PollGoesOn, <1>4, <1>5, PollTurns, Zenon
<1>7. InUse(heap.life, s) /\ Aged(heap, heap)
  BY <1>3, <1>4, HopInUse, WorldParts, SameAge
<1>8. CASE Do(Outcome(heap, <<>>), st)
  <2>1. Settled(heap, <<>> \o st) BY ONLY <1>3, <1>7, CallNone
  <2> QED BY <1>8, <2>1 DEF Do, Outcome
<1>9. ASSUME w # <<>>, ~IsClosed(heap, s)
      PROVE  s \in Open(heap) /\ Calm(heap.life, r) /\ Calm(heap.life, q)
  <2>1. w \in Seq(Stages) /\ Tail(w) \in Seq(Stages)
    BY <1>3, <1>4, <1>9 DEF PollFrames
  <2>2. /\ r = [k |-> "poll", s |-> s, todo |-> Tail(w), hop |-> TRUE]
        /\ q = [k |-> "poll", s |-> s, todo |-> Tail(w), hop |-> FALSE]
    BY ONLY <1>3, <1>4 DEF PollFrames
  <2>3. TRUE \in BOOLEAN /\ FALSE \in BOOLEAN OBVIOUS
  <2>4. Calm(heap.life, r) BY ONLY <1>7, <2>1, <2>2, <2>3, PollCalm
  <2>5. Calm(heap.life, q) BY ONLY <1>7, <2>1, <2>2, <2>3, PollCalm
  <2> QED BY <1>7, <1>9, <2>4, <2>5, NotClosed
<1>10. CASE w # <<>> /\ ~IsClosed(heap, s) /\ Do(Outcome(heap, <<User, r>>), st)
  <2>1. Calm(heap.life, r) /\ Calm(heap.life, User)
    BY <1>9, <1>10, CalmUser
  <2>2. Settled(heap, <<User, r>> \o st)
    BY ONLY <1>3, <1>7, <2>1, DoTwo
  <2> QED BY <1>10, <2>2 DEF Do, Outcome
<1>11. CASE w # <<>> /\ ~IsClosed(heap, s) /\ heap.prio[s] # 1 /\ Do(Outcome(Park(heap, s), <<>>), st)
  <2>1. PICK k : k = Park(heap, s) OBVIOUS
  <2>2. s \in Open(heap) /\ heap.prio[s] # 1 BY <1>9, <1>11
  <2>3. World(k, Z) /\ k.life = heap.life
    BY <1>3, <2>1, <2>2, ParkWorld
  <2>4. Aged(heap, k) BY <1>3, <2>3, WorldParts, SameAge
  <2>5. Settled(k, <<>> \o st) BY ONLY <1>3, <2>3, <2>4, CallNone
  <2> QED BY <1>11, <2>1, <2>5 DEF Do, Outcome
<1>12. CASE /\ w # <<>> /\ ~IsClosed(heap, s) /\ ~Parks(heap, s)
            /\ \E h \in Admitted(heap, s) :
                 Do(Outcome(h, <<User, r>>), st) \/ Do(Outcome(h, <<r>>), st)
  <2>1. PICK h \in Admitted(heap, s) : Do(Outcome(h, <<User, r>>), st) \/ Do(Outcome(h, <<r>>), st)
    BY <1>12
  <2>2. s \in Open(heap) /\ ~Parks(heap, s) BY <1>9, <1>12
  <2>3. World(h, Z) /\ h.life = heap.life
    BY <1>3, <2>1, <2>2, AdmittedOK
  <2>4. Aged(heap, h) BY <1>3, <2>3, WorldParts, SameAge
  <2>5. Calm(h.life, r) /\ Calm(h.life, User)
    BY <1>9, <1>12, <2>3, CalmUser
  <2>6. Settled(h, <<User, r>> \o st)
    BY ONLY <1>3, <2>3, <2>4, <2>5, DoTwo
  <2>7. Settled(h, <<r>> \o st) BY ONLY <1>3, <2>3, <2>4, <2>5, DoOne
  <2> QED BY <2>1, <2>6, <2>7 DEF Do, Outcome
<1>13. CASE w # <<>> /\ ~IsClosed(heap, s) /\ \E o \in CloseSocket(heap, s) : Do(o, <<q>> \o st)
  <2>1. PICK o \in CloseSocket(heap, s) : Do(o, <<q>> \o st) BY <1>13
  <2>2. Leaves(heap, Z, o) /\ Calm(heap.life, q)
    BY <1>3, <1>7, <1>9, <1>13, <2>1, CloseSocketOK
  <2>3. Settled(o.h, o.f \o (<<q>> \o st)) BY ONLY <1>3, <2>2, DoAbove
  <2> QED BY <2>1, <2>3 DEF Do
<1>14. CASE w # <<>> /\ ~IsClosed(heap, s) /\ Do(Outcome(heap, <<User>>), <<q>> \o st)
  <2>1. PICK o : o = Outcome(heap, <<User>>) OBVIOUS
  <2>2. Leaves(heap, Z, o) /\ Calm(heap.life, q)
    BY <1>3, <1>9, <1>14, <2>1, NoCall
  <2>3. Settled(o.h, o.f \o (<<q>> \o st)) BY ONLY <1>3, <2>2, DoAbove
  <2> QED BY <1>14, <2>1, <2>3 DEF Do
<1>15. CASE w # <<>> /\ ~IsClosed(heap, s) /\ Do(CloseRaw(heap, s), st)
  <2>1. PICK o : o = CloseRaw(heap, s) OBVIOUS
  <2>2. Leaves(heap, Z, o) BY <1>3, <1>7, <2>1, CloseRawOK
  <2>3. Settled(o.h, o.f \o st) BY ONLY <1>3, <2>2, DoOK
  <2> QED BY <1>15, <2>1, <2>3 DEF Do
<1> QED
  BY ONLY <1>6, <1>8, <1>10, <1>11, <1>12, <1>13, <1>14, <1>15 DEF PollTurn

-----------------------------------------------------------------------------
(* The sockets that are open at the start.                                 *)

LEMMA InitHeapOK ==
  World(InitHeap, {})
<1>1. PICK h : h = InitHeap OBVIOUS
<1>2. Null \notin Sockets /\ Null \notin Groups /\ Lap \in Nat /\ LowPrioBudget \in Nat
  BY Bounds
<1>3. h \in Heaps
  BY <1>1, <1>2 DEF InitHeap, Heaps, PtrMap, GroupPtrMap, LifeMap, Flags, Ptr, GroupPtr, Off
<1>4. /\ h.next = [s \in Sockets |-> Null] /\ h.prev = [s \in Sockets |-> Null]
      /\ h.group = [s \in Sockets |-> Null] /\ h.life = [s \in Sockets |-> "unused"]
      /\ h.prio = [s \in Sockets |-> 0] /\ h.adopted = [s \in Sockets |-> FALSE]
      /\ h.told = [s \in Sockets |-> 0] /\ h.opened = {} /\ h.given = {}
  BY ONLY <1>1 DEF InitHeap
<1>5. /\ h.head = [g \in Groups |-> Null] /\ h.listen = [g \in Groups |-> Null]
      /\ h.iter = [g \in Groups |-> Null] /\ h.count = [g \in Groups |-> 0]
      /\ h.linked = [g \in Groups |-> FALSE] /\ h.gnext = [g \in Groups |-> Null]
      /\ h.gprev = [g \in Groups |-> Null] /\ h.gone = [g \in Groups |-> FALSE]
  BY ONLY <1>1 DEF InitHeap
<1>6. /\ h.loopHead = Null /\ h.loopIter = Null /\ h.lowHead = Null /\ h.closedHead = Null
      /\ h.sweep = 0 /\ h.budget = 0
  BY ONLY <1>1 DEF InitHeap
<1>7. Open(h) = {} /\ Shut(h) = {} BY <1>4 DEF Open, Shut
<1>8. Cardinality({}) = 0 BY FS_EmptySet
<1>9. SocketLists(h.next, h.prev, h.head, h.lowHead, h.closedHead, h.prio, h.group, {}, {})
  <2>1. PICK hd, W, r, hi : /\ hd = Heads(h.head, h.lowHead) /\ W = Places(h.prio, h.group)
                            /\ r = [x \in Sockets |-> 0] /\ hi = 1
    OBVIOUS
  <2>2. \A P \in GroupPtr : hd[P] = Null
    BY <1>5, <1>6, <2>1 DEF Heads, GroupPtr
  <2>3. Listed(Sockets, GroupPtr, h.next, h.prev, hd, {}, W, r, hi)
    BY <1>2, <2>1, <2>2 DEF Listed, Linked, HeadOK
  <2>4. Single(h.next, h.closedHead, {}, r) BY <1>6 DEF Single
  <2>5. Rows(h.next, h.prev, hd, W, h.closedHead, {}, {})
    BY <2>3, <2>4 DEF Rows
  <2> QED BY <2>1, <2>5 DEF SocketLists
<1>10. Counts(h.count, h.sweep, h.prio, h.group, {}, {})
  BY <1>5, <1>6, <1>8 DEF Counts
<1>11. LoopOK(h.gnext, h.gprev, h.loopHead, h.loopIter, h.linked, h.gone)
  <2>1. PICK r, hi, L : r = [x \in Groups |-> 0] /\ hi = 1 /\ L = OnLoop(h.linked)
    OBVIOUS
  <2>2. L = {} BY <1>5, <2>1 DEF OnLoop
  <2>3. \A P \in {Null} : Root(h.loopHead)[P] = Null BY <1>6 DEF Root
  <2>4. Listed(Groups, {Null}, h.gnext, h.gprev, Root(h.loopHead), L, Rooted, r, hi)
    BY <1>2, <2>1, <2>2, <2>3 DEF Listed, Linked, HeadOK
  <2> QED BY <1>5, <1>6, <2>1, <2>4 DEF LoopOK, LoopList
<1>12. Busy(h.linked, h.head, h.listen, h.count, {}) /\ Cursors(h.iter, h.prio, h.group, {})
  BY <1>5 DEF Busy, Cursors
<1>13. Exact(h, {}, {}, {}, {})
  BY <1>3, <1>9, <1>10, <1>11, <1>12 DEF Exact
<1>14. Tidy(h, Open(h), Shut(h) \ {}) BY <1>7, <1>13 DEF Waits, Tidy
<1>15. ListensOK(h.listen, h.group, h.life)
  BY <1>4, <1>5 DEF ListensOK
<1>16. ToldOK(h.life, h.semi, h.told, h.opened, h.given)
  BY <1>4 DEF ToldOK
<1>17. LinksOK(h.life, h.adopted, h.prev, h.next, h.prio)
  BY <1>4 DEF LinksOK
<1>18. h.budget \in 0..LowPrioBudget BY <1>2, <1>6
<1>19. World(h, {}) BY <1>14, <1>15, <1>16, <1>17, <1>18 DEF World
<1> QED BY <1>1, <1>19

\* A socket is accepted, its timeouts set, and parked if it is to be.
Begun(q, a) ==
  LET h == [OpenSocket(q, a.g, a.s, FALSE) EXCEPT !.timeout[a.s] = a.timeout, !.long[a.s] = a.long]
  IN  IF a.parked THEN Park(h, a.s) ELSE h

Nobody == [g \in Groups |-> FALSE]
Connection == [s : Sockets, g : Groups, timeout : 0..Lap, long : 0..Lap, parked : BOOLEAN]

LEMMA BegunOK ==
  ASSUME NEW q, World(q, {}), q.gone = Nobody, NEW a \in Connection, q.life[a.s] = "unused",
         NEW k, k = Begun(q, a)
  PROVE  World(k, {}) /\ k.gone = Nobody /\ k.life = [q.life EXCEPT ![a.s] = "open"]
<1>1. PICK s, g, x, y, u, v, w :
        /\ s = a.s /\ g = a.g /\ x = a.timeout /\ y = a.long /\ u = OpenSocket(q, g, s, FALSE)
        /\ v = Timed(u, s, x) /\ w = TimedLong(v, s, y)
  OBVIOUS
<1>2. s \in Sockets /\ g \in Groups /\ x \in 0..Lap /\ y \in 0..Lap
  BY <1>1 DEF Connection
<1>3. ~q.gone[g] /\ q.life[s] = "unused" /\ FALSE \in BOOLEAN
  BY <1>1, <1>2 DEF Nobody
<1>4. World(u, {}) /\ Opens(q, u, s)
  BY ONLY World(q, {}), <1>1, <1>2, <1>3, OpenSocketOK
<1>5. World(v, {}) /\ v.life = u.life
  <2>1. v = Timed(u, s, x) /\ x \in 0..Lap /\ World(u, {})
    BY <1>1, <1>2, <1>4
  <2> QED BY ONLY <2>1, TimedOK
<1>6. World(w, {}) /\ w.life = v.life
  <2>1. w = TimedLong(v, s, y) /\ y \in 0..Lap /\ World(v, {})
    BY <1>1, <1>2, <1>5
  <2> QED BY ONLY <2>1, TimedLongOK
<1>7. k = IF a.parked THEN Park(w, s) ELSE w
  <2>1. Begun(q, a) = IF a.parked THEN Park(TimedLong(Timed(OpenSocket(q, a.g, a.s, FALSE), a.s, a.timeout), a.s, a.long), a.s)
                      ELSE TimedLong(Timed(OpenSocket(q, a.g, a.s, FALSE), a.s, a.timeout), a.s, a.long)
    BY ONLY Zenon DEF Begun, Timed, TimedLong
  <2> QED BY ONLY <1>1, <2>1, k = Begun(q, a), Zenon
<1>8. w.prio = u.prio /\ w.gone = u.gone BY <1>1 DEF Timed, TimedLong
<1>9. w.gone = Nobody /\ w.life = [q.life EXCEPT ![s] = "open"] /\ w.prio[s] # 1
  BY <1>4, <1>5, <1>6, <1>8 DEF Opens
<1>10. CASE a.parked
  <2>1. s \in Open(w) BY WorldParts, <1>2, <1>9 DEF Open, LifeMap
  <2>2. World(k, {}) /\ k.life = w.life /\ k.gone = w.gone
    BY <1>6, <1>7, <1>9, <1>10, <2>1, ParkWorld
  <2> QED BY <1>1, <1>9, <2>2
<1>11. CASE ~a.parked BY <1>1, <1>6, <1>7, <1>9, <1>11
<1> QED BY <1>10, <1>11

\* The first n of the accepted sockets are open.
Started(q, n) ==
  /\ World(q, {}) /\ q.gone = Nobody
  /\ \A j \in (n+1)..Len(Accepted) : q.life[Accepted[j].s] = "unused"

\* us_loop_create and the sockets accepted before the model begins.
LEMMA InitSettled ==
  ASSUME Init
  PROVE  Settled(heap, stack)
<1>1. PICK B : B = Len(Accepted) OBVIOUS
<1>2. /\ B \in Nat /\ \A i \in 1..B : Accepted[i] \in Connection
      /\ \A i \in 1..B : \A j \in 1..i-1 : Accepted[j].s # Accepted[i].s
  <2>1. PICK A : A = Accepted OBVIOUS
  <2>2. A \in Seq(Connection) /\ B = Len(A)
    BY <1>1, <2>1, AcceptedSockets DEF Connection
  <2>3. B \in Nat /\ DOMAIN A = 1..B /\ \A i \in 1..B : A[i] \in Connection
    BY ONLY <2>2
  <2>4. \A i \in DOMAIN A : \A j \in 1..i-1 : A[j].s # A[i].s
    BY <2>1, AcceptedSockets
  <2> QED BY <2>1, <2>3, <2>4
<1> DEFINE Turn(f) == [i \in 0..B |-> IF i = 0 THEN InitHeap ELSE Begun(f[i-1], Accepted[i])]
           H == [i \in 0..B |-> {q \in Heaps : Started(q, i)}]
           G == [i \in 0..B |-> [q \in Heaps |-> Begun(q, Accepted[i])]]
<1>3. heap = (CHOOSE f : f = Turn(f))[B]
  BY ONLY Init, <1>1, Zenon DEF Init, Begun
<1>4. InitHeap \in H[0]
  <2>1. World(InitHeap, {}) BY InitHeapOK
  <2>2. InitHeap \in Heaps BY <2>1, WorldParts
  <2>3. InitHeap.gone = Nobody /\ \A s \in Sockets : InitHeap.life[s] = "unused"
    BY DEF InitHeap, Nobody
  <2>4. \A j \in (0+1)..Len(Accepted) : Accepted[j].s \in Sockets
    BY <1>1, <1>2 DEF Connection
  <2>5. Started(InitHeap, 0) BY <2>1, <2>3, <2>4 DEF Started
  <2> QED BY <1>2, <2>2, <2>5
<1>5. ASSUME NEW i \in 1..B, NEW q \in H[i-1]
      PROVE  G[i][q] \in H[i]
  <2>1. i \in 0..B /\ i - 1 \in 0..B /\ q \in Heaps /\ Started(q, i - 1)
    BY <1>2
  <2>2. PICK a, k : a = Accepted[i] /\ k = Begun(q, a) OBVIOUS
  <2>3. World(q, {}) /\ q.gone = Nobody /\ a \in Connection /\ q.life[a.s] = "unused"
    BY <1>1, <1>2, <2>1, <2>2 DEF Started
  <2>4. World(k, {}) /\ k.gone = Nobody /\ k.life = [q.life EXCEPT ![a.s] = "open"]
    BY ONLY <2>2, <2>3, BegunOK
  <2>5. ASSUME NEW j \in (i+1)..Len(Accepted)
        PROVE  k.life[Accepted[j].s] = "unused"
    <3>1. j \in 1..B /\ i \in 1..j-1 /\ j \in ((i-1)+1)..Len(Accepted)
      BY <1>1, <1>2
    <3>2. Accepted[j].s # a.s /\ Accepted[j].s \in Sockets /\ q.life[Accepted[j].s] = "unused"
      BY <1>2, <2>1, <2>2, <3>1 DEF Started, Connection
    <3>3. q.life \in LifeMap BY <2>3, WorldParts
    <3> QED BY <2>4, <3>2, <3>3 DEF LifeMap
  <2>6. Started(k, i) /\ k \in Heaps
    BY <2>4, <2>5, WorldParts DEF Started
  <2>7. G[i][q] = k BY <2>1, <2>2
  <2> QED BY <2>1, <2>6, <2>7
<1>6. \E f : f = Turn(f)
  <2> HIDE DEF H, G
  <2>1. PICK f : Steps(f, B, InitHeap, G) BY <1>2, StepsExist, Zenon
  <2>2. /\ f = [i \in 0..B |-> f[i]] /\ f[0] = InitHeap
        /\ \A i \in 1..B : f[i] = G[i][f[i-1]]
    BY <2>1 DEF Steps
  <2>3. f[0] \in H[0] /\ \A i \in 1..B : f[i-1] \in H[i-1] => f[i] \in H[i]
    BY <1>4, <1>5, <2>2
  <2>4. \A i \in 0..B : f[i] \in H[i] BY <1>2, <2>3, StepsStay
  <2>5. f = Turn(f)
    <3>1. ASSUME NEW i \in 0..B
          PROVE  f[i] = Turn(f)[i]
      <4>1. CASE i = 0 BY <1>2, <2>2, <4>1
      <4>2. CASE i # 0
        <5>1. i \in 1..B /\ i - 1 \in 0..B BY <1>2, <4>2
        <5>2. f[i-1] \in Heaps BY <2>4, <5>1 DEF H
        <5>3. f[i] = G[i][f[i-1]] BY <2>2, <5>1
        <5>4. f[i] = Begun(f[i-1], Accepted[i])
          BY <5>1, <5>2, <5>3 DEF G
        <5> QED BY <4>2, <5>4
      <4> QED BY <4>1, <4>2
    <3> HIDE DEF Turn
    <3>2. PICK e : e = Turn(f) OBVIOUS
    <3>3. \A i \in 0..B : f[i] = e[i] BY <3>1, <3>2
    <3>4. e = [i \in 0..B |-> e[i]] BY <3>2 DEF Turn
    <3> QED BY <2>2, <3>2, <3>3, <3>4
  <2> QED BY <2>5
<1>7. PICK f : heap = f[B] /\ f = Turn(f) BY <1>3, <1>6, Zenon
<1>8. f[B] \in H[B]
  <2>1. f[0] = InitHeap /\ \A i \in 1..B : f[i] = Begun(f[i-1], Accepted[i])
    BY <1>2, <1>7
  <2>2. ASSUME NEW i \in 1..B, f[i-1] \in H[i-1]
        PROVE  f[i] \in H[i]
    <3>1. f[i] = G[i][f[i-1]] BY <1>2, <2>2, <2>1
    <3> QED BY <1>5, <2>2, <3>1
  <2> HIDE DEF H
  <2>3. \A i \in 0..B : f[i] \in H[i]
    BY <1>2, <1>4, <2>1, <2>2, StepsStay
  <2> QED BY <1>2, <2>3
<1>9. World(heap, {}) BY <1>2, <1>7, <1>8 DEF Started
<1>10. StackOK(heap.life, {}, stack)
  <2>1. stack = <<>> BY Zenon DEF Init
  <2> QED BY <2>1 DEF StackOK
<1> QED BY <1>9, <1>10 DEF Settled

-----------------------------------------------------------------------------
(* The inductive invariant and what follows from it.                       *)

IInv == ParkedTwice \/ Settled(heap, stack)

LEMMA Calling ==
  ASSUME Calls
  PROVE  Call
BY Zenon DEF Calls, us_socket_close, us_socket_write, us_socket_adopt, us_socket_timeout,
             us_socket_long_timeout, us_socket_group_connect, us_socket_group_listen,
             us_listen_socket_close, us_socket_group_close_all, us_socket_group_deinit

LEMMA Dispatching ==
  ASSUME Kernel
  PROVE  Ready
BY Zenon DEF Kernel, DispatchSocket, DispatchConnect, DispatchListen, SweepTimer

\* No step is taken once a parked socket has been parked again.
LEMMA NoStep ==
  ASSUME ParkedTwice
  PROVE  ~Next
<1>1. stack # <<>> /\ Top.k = "reparked" BY DEF ParkedTwice, At
<1>2. ~Call /\ ~Ready BY <1>1 DEF Call, Ready, At
<1>3. ~Return /\ ~EndTick /\ ~BeginTick
  BY <1>1 DEF Return, EndTick, BeginTick, At
<1>4. ~GoesOn
  BY <1>1 DEF GoesOn, PollGoesOn, AcceptGoesOn, SslGoesOn, SemiGoesOn, CloseAllGoesOn, SweepGoesOn, At
<1>5. ~Calls /\ ~Kernel BY <1>2, Calling, Dispatching
<1> QED BY <1>3, <1>4, <1>5, Zenon DEF Next

LEMMA BeforeStep ==
  ASSUME IInv, [Next]_vars, ~ParkedTwice'
  PROVE  Settled(heap, stack)
<1>1. UNCHANGED vars => (ParkedTwice <=> ParkedTwice')
  BY DEF vars, ParkedTwice, At, Top
<1> QED BY <1>1, NoStep DEF IInv

LEMMA IInvStep ==
  ASSUME IInv, [Next]_vars
  PROVE  IInv'
<1> SUFFICES ASSUME ~ParkedTwice' PROVE Settled(heap', stack')
  BY DEF IInv
<1>1. Settled(heap, stack) BY BeforeStep
<1>2. CASE Calls
  BY <1>1, <1>2, CloseStep, WriteStep, AdoptStep, TimeoutStep, LongTimeoutStep, ConnectStep, ListenStep,
     ListenCloseStep, CloseAllStep, DeinitStep DEF Calls
<1>3. CASE Kernel
  BY <1>1, <1>3, DispatchSocketStep, DispatchConnectStep, DispatchListenStep, SweepTimerStep
     DEF Kernel
<1>4. CASE GoesOn
  BY <1>1, <1>4, PollStep, AcceptStep, SslStep, SemiStep, CloseAllGoesOnStep, SweepStep DEF GoesOn
<1>5. CASE Return \/ BeginTick \/ EndTick
  BY <1>1, <1>5, ReturnStep, BeginTickStep, EndTickStep
<1>6. CASE UNCHANGED vars BY <1>1, <1>6 DEF vars
<1> QED
  BY ONLY <1>2, <1>3, <1>4, <1>5, <1>6, [Next]_vars, Zenon DEF Next

\* Every step of the loop, of user code and of a walk that goes on leaves the lists,
\* the counters and the C stack as they have to be, or it is the one that parks a
\* parked socket (loop.c:508-533) and the last of the model.
THEOREM Invariance == Spec => []IInv
<1>1. Init => IInv BY InitSettled DEF IInv
<1>2. IInv /\ [Next]_vars => IInv' BY IInvStep
<1> QED BY <1>1, <1>2, PTL DEF Spec

\* The sockets that the model's properties speak of.
LEMMA StateSets ==
  ASSUME NEW Z, World(heap, Z), StackOK(heap.life, Z, stack)
  PROVE  /\ Z = Closing /\ Parked = Waits(heap, Open(heap))
         /\ \A g \in Groups : OnGroup(g) = OnList(heap, g)
         /\ Shut(heap) = {s \in Sockets : heap.life[s] = "closed"}
<1>1. Z = Closing
  <2>1. stack \in Seq(FrameSet) /\ DOMAIN stack = 1..Len(stack)
    BY DEF StackOK
  <2>2. Closing \subseteq Z BY <2>1 DEF StackOK, Closing, Frames
  <2>3. ASSUME NEW z \in Z PROVE z \in Closing
    <3>1. PICK i \in 1..Len(stack) : stack[i].k = "close" /\ stack[i].s = z
      BY DEF StackOK
    <3> QED BY <2>1, <3>1 DEF Closing, Frames
  <2> QED BY <2>2, <2>3
<1>2. Parked = Waits(heap, Open(heap))
  BY DEF Parked, Waits, Open, Alive
<1>3. \A g \in Groups : OnGroup(g) = OnList(heap, g)
  BY DEF OnGroup, OnList, Open, Alive
<1> QED BY <1>1, <1>2, <1>3 DEF Shut

LEMMA LoopIsList ==
  ASSUME NEW h, NEW Z, World(h, Z)
  PROVE  BothWays(h.gnext, h.gprev, h.loopHead, OnLoop(h.linked))
<1>1. LoopOK(h.gnext, h.gprev, h.loopHead, h.loopIter, h.linked, h.gone) /\ h.gnext \in GroupPtrMap
  BY WorldParts, HeapParts DEF Tidy, Exact
<1>2. PICK S, hd, r, hi : /\ S = OnLoop(h.linked) /\ hd = Root(h.loopHead)
                          /\ Listed(Groups, {Null}, h.gnext, h.gprev, hd, S, Rooted, r, hi)
  BY <1>1 DEF LoopOK, LoopList
<1>3. DOMAIN h.gnext = Groups /\ Null \in {Null}
  BY <1>1 DEF GroupPtrMap
<1>4. S = {x \in S : Rooted[x] = Null} BY <1>2 DEF Rooted, OnLoop
<1>5. PICK nx, pv, p : nx = h.gnext /\ pv = h.gprev /\ p = h.loopHead
  OBVIOUS
<1>6. hd[Null] = p BY <1>2, <1>5 DEF Root
<1>7. ListIs(nx, pv, hd, S, Rooted, Null, p, S)
  BY <1>2, <1>3, <1>4, <1>5, <1>6 DEF ListIs
<1>8. BothWays(nx, pv, p, S) BY ONLY <1>7, ListIsBothWays
<1> QED BY ONLY <1>2, <1>5, <1>8

LEMMA ListsExact ==
  ASSUME Settled(heap, stack)
  PROVE  ListsAreExact
<1>1. PICK Z : World(heap, Z) /\ StackOK(heap.life, Z, stack)
  BY DEF Settled
<1>2. PICK In, C, hd, W :
        /\ In = Open(heap) /\ C = Shut(heap) \ Z
        /\ hd = Heads(heap.head, heap.lowHead) /\ W = Places(heap.prio, heap.group)
  OBVIOUS
<1>3. /\ SocketLists(heap.next, heap.prev, heap.head, heap.lowHead, heap.closedHead,
                     heap.prio, heap.group, In, C)
      /\ Busy(heap.linked, heap.head, heap.listen, heap.count, {})
      /\ heap.next \in PtrMap /\ Null \notin Sockets /\ Null \notin Groups
  BY <1>1, <1>2, WorldParts, Bounds DEF Tidy, Exact
<1>4. PICK r, hi : /\ Listed(Sockets, GroupPtr, heap.next, heap.prev, hd, In, W, r, hi)
                   /\ Single(heap.next, heap.closedHead, C, r)
                   /\ In \subseteq Sockets /\ C \subseteq Sockets
  BY <1>2, <1>3 DEF SocketLists, Rows
<1>5. DOMAIN heap.next = Sockets BY <1>3 DEF PtrMap
<1>6. ASSUME NEW P \in GroupPtr, NEW S, S = {x \in In : W[x] = P}
      PROVE  BothWays(heap.next, heap.prev, hd[P], S)
  <2>1. PICK nx, pv, p : nx = heap.next /\ pv = heap.prev /\ p = hd[P]
    OBVIOUS
  <2>2. Listed(Sockets, GroupPtr, nx, pv, hd, In, W, r, hi) /\ DOMAIN nx = Sockets
    BY <1>4, <1>5, <2>1
  <2>3. ListIs(nx, pv, hd, In, W, P, p, S)
    BY <1>6, <2>1, <2>2 DEF ListIs
  <2>4. BothWays(nx, pv, p, S) BY ONLY <2>3, ListIsBothWays
  <2> QED BY ONLY <2>1, <2>4
<1>7. \A x \in In : W[x] = IF heap.prio[x] = 1 THEN Null ELSE heap.group[x]
  BY <1>2, <1>4 DEF Places
<1>8. ASSUME NEW g \in Groups
      PROVE  BothWays(heap.next, heap.prev, heap.head[g], OnGroup(g))
  <2>1. PICK S : S = {x \in In : W[x] = g} OBVIOUS
  <2>2. S = OnGroup(g)
    BY <1>2, <1>3, <1>7, <2>1 DEF OnGroup, Open, Alive
  <2>3. hd[g] = heap.head[g] /\ g \in GroupPtr
    BY <1>2, <1>3 DEF Heads, GroupPtr
  <2>4. BothWays(heap.next, heap.prev, hd[g], S) BY <1>6, <2>1, <2>3
  <2> QED BY <2>2, <2>3, <2>4
<1>9. BothWays(heap.next, heap.prev, heap.lowHead, Parked)
  <2>1. PICK S : S = {x \in In : W[x] = Null} OBVIOUS
  <2>2. \A x \in In : heap.group[x] \in Groups BY <1>3 DEF SocketLists
  <2>3. S = Parked
    BY <1>2, <1>3, <1>7, <2>1, <2>2 DEF Parked, Open, Alive
  <2>4. hd[Null] = heap.lowHead /\ Null \in GroupPtr
    BY <1>2 DEF Heads, GroupPtr
  <2>5. BothWays(heap.next, heap.prev, hd[Null], S)
    BY <1>6, <2>1, <2>4
  <2> QED BY <2>3, <2>4, <2>5
<1>10. Lists(heap.next, heap.closedHead, {s \in Sockets : heap.life[s] = "closed"} \ Closing)
  <2>1. C = {s \in Sockets : heap.life[s] = "closed"} \ Closing
    BY <1>1, <1>2, StateSets
  <2>2. r \in [Sockets -> Nat] /\ hi \in Nat /\ \A x \in Sockets : r[x] < hi
    BY <1>4 DEF Listed
  <2>3. Lists(heap.next, heap.closedHead, C)
    <3>1. C \in SUBSET Sockets BY <1>4
    <3> QED BY ONLY <1>3, <1>4, <1>5, <2>2, <3>1, SingleLists
  <2> QED BY <2>1, <2>3
<1>11. BothWays(heap.gnext, heap.gprev, heap.loopHead, {g \in Groups : heap.linked[g]})
  BY <1>1, LoopIsList DEF OnLoop
<1>12. \A g \in Groups : heap.linked[g] <=> ~IsEmpty(heap, g)
  BY <1>3 DEF Busy, IsEmpty
<1> QED BY <1>8, <1>9, <1>10, <1>11, <1>12 DEF ListsAreExact

LEMMA CountsExact ==
  ASSUME Settled(heap, stack)
  PROVE  CountsAreExact
<1>1. PICK Z : World(heap, Z) /\ StackOK(heap.life, Z, stack)
  BY DEF Settled
<1>2. PICK In, P : In = Open(heap) /\ P = Waits(heap, In) OBVIOUS
<1>3. Counts(heap.count, heap.sweep, heap.prio, heap.group, In, P) /\ \A s \in In : heap.group[s] \in Groups
  BY <1>1, <1>2, WorldParts DEF Tidy, Exact, SocketLists
<1>4. P = Parked BY <1>1, <1>2, StateSets
<1>5. {s \in In : heap.prio[s] # 1} = UNION {OnGroup(g) : g \in Groups}
  BY <1>2, <1>3 DEF OnGroup, Open, Alive
<1> QED BY <1>3, <1>4, <1>5 DEF Counts, CountsAreExact

LEMMA NoneDangles ==
  ASSUME Settled(heap, stack)
  PROVE  NothingDangles
<1>1. PICK Z : World(heap, Z) /\ StackOK(heap.life, Z, stack)
  BY DEF Settled
<1>2. stack \in Seq(FrameSet) /\ DOMAIN stack = 1..Len(stack)
  BY <1>1 DEF StackOK
<1>3. LinksOK(heap.life, heap.adopted, heap.prev, heap.next, heap.prio)
  BY <1>1, WorldParts
<1> SUFFICES ASSUME NEW i \in 1..Len(stack), NEW s \in HeldBy(stack[i]), s # Null
             PROVE  heap.life[s] # "freed"
  BY <1>2 DEF NothingDangles
<1>4. PICK f : f = stack[i] OBVIOUS
<1>5. f \in FrameSet /\ FrameOK(heap.life, f) /\ s \in HeldBy(f)
  BY <1>1, <1>2, <1>4 DEF StackOK
<1>6. CASE f.k = "poll"
  <2>1. s = f.s \/ (heap.adopted[f.s] /\ s = heap.prev[f.s])
    BY <1>5, <1>6 DEF HeldBy
  <2>2. InUse(heap.life, f.s) BY <1>5, <1>6 DEF FrameOK
  <2>3. heap.adopted[f.s] => InUse(heap.life, heap.prev[f.s])
    BY <1>3, <2>2 DEF LinksOK, InUse
  <2> QED BY <2>1, <2>2, <2>3 DEF InUse
<1>7. CASE f.k = "accept"
  BY <1>5, <1>7 DEF HeldBy, FrameOK, Leads, InUse
<1>8. CASE f.k \in {"close", "ssl", "semi"}
  BY <1>5, <1>8 DEF HeldBy, FrameOK, InUse
<1>9. CASE f.k = "all" BY <1>5, <1>9 DEF HeldBy, FrameOK, Leads, InUse
<1>10. CASE f.k = "sweep" /\ f.at # "group" /\ heap.loopIter = f.g
  <2>1. f.g \in Groups /\ InUse(heap.life, f.s)
    BY <1>5, <1>10 DEF FrameOK
  <2>2. heap.iter[f.g] \in OnList(heap, f.g) \cup {Null}
    BY <1>1, <2>1, Walks
  <2>3. s = f.s \/ s = heap.iter[f.g] BY <1>5, <1>10 DEF HeldBy
  <2> QED BY <2>1, <2>2, <2>3 DEF InUse, OnList, Open
<1>11. CASE /\ f.k \notin {"poll", "accept", "close", "ssl", "semi", "all"}
            /\ ~(f.k = "sweep" /\ f.at # "group" /\ heap.loopIter = f.g)
  BY <1>11, <1>5 DEF HeldBy
<1> QED BY <1>6, <1>7, <1>8, <1>9, <1>10, <1>11

LEMMA Forgotten ==
  ASSUME Settled(heap, stack)
  PROVE  FreedGroupsAreForgotten
<1>1. PICK Z : World(heap, Z) /\ StackOK(heap.life, Z, stack)
  BY DEF Settled
<1>2. PICK In, C, P : In = Open(heap) /\ C = Shut(heap) \ Z /\ P = Waits(heap, In)
  OBVIOUS
<1>3. Exact(heap, In, C, P, {}) BY <1>1, <1>2, WorldParts DEF Tidy
<1>4. /\ LoopOK(heap.gnext, heap.gprev, heap.loopHead, heap.loopIter, heap.linked, heap.gone)
      /\ Busy(heap.linked, heap.head, heap.listen, heap.count, {})
      /\ Counts(heap.count, heap.sweep, heap.prio, heap.group, In, P)
      /\ \A s \in In : heap.group[s] \in Groups
  BY <1>3 DEF Exact, SocketLists
<1> SUFFICES ASSUME NEW g \in Groups, heap.gone[g]
             PROVE  /\ ~heap.linked[g] /\ heap.loopIter # g
                    /\ g \notin Chain(heap.gnext, heap.loopHead)
                    /\ \A s \in Sockets : heap.life[s] \in {"open", "listen"} => heap.group[s] # g
  BY DEF FreedGroupsAreForgotten
<1>5. ~heap.linked[g] /\ heap.loopIter # g BY <1>4, Bounds DEF LoopOK
<1>6. g \notin Chain(heap.gnext, heap.loopHead)
  BY <1>1, <1>5, LoopIsList DEF BothWays, Lists, OnLoop
<1>7. ASSUME NEW s \in Sockets, heap.life[s] = "open", heap.group[s] = g
      PROVE  FALSE
  <2>1. s \in In BY <1>2, <1>7 DEF Open
  <2>2. CASE heap.prio[s] # 1 BY <1>3, <1>7, <2>1, <2>2, GroupLinked
  <2>3. CASE heap.prio[s] = 1
    <3>1. PICK S : S = {x \in P : heap.group[x] = g} OBVIOUS
    <3>2. s \in S /\ S \subseteq Sockets /\ heap.count[g] = Cardinality(S)
      BY <1>2, <1>4, <1>7, <2>1, <2>3, <3>1 DEF Waits, Counts
    <3>3. Cardinality(S) # 0 BY <3>2, FiniteSockets, FS_EmptySet
    <3> QED BY <1>4, <1>5, <3>2, <3>3 DEF Busy
  <2> QED BY <2>2, <2>3
<1>8. ASSUME NEW s \in Sockets, heap.life[s] = "listen", heap.group[s] = g
      PROVE  FALSE
  BY <1>1, <1>8, ListenGroup
<1> QED BY <1>5, <1>6, <1>7, <1>8

LEMMA AllTold ==
  ASSUME Settled(heap, stack)
  PROVE  EachCloseIsTold
<1>1. PICK Z : World(heap, Z) BY DEF Settled
<1>2. ToldOK(heap.life, heap.semi, heap.told, heap.opened, heap.given) /\ heap.life \in LifeMap
  BY <1>1, WorldParts
<1> QED BY <1>2 DEF ToldOK, EachCloseIsTold, IsClosed, LifeMap

LEMMA TypesHold ==
  ASSUME Settled(heap, stack)
  PROVE  TypeOK
<1>1. PICK Z : World(heap, Z) /\ StackOK(heap.life, Z, stack)
  BY DEF Settled
<1>2. heap \in Heaps /\ InitHeap \in Heaps
  BY <1>1, WorldParts, InitHeapOK
<1>3. DOMAIN heap = DOMAIN InitHeap BY <1>2, HeapParts DEF IsHeap
<1>4. PICK In, P : In = Open(heap) /\ P = Waits(heap, In) OBVIOUS
<1>5. Counts(heap.count, heap.sweep, heap.prio, heap.group, In, P) /\ In \subseteq Sockets /\ P \subseteq Sockets
  BY <1>1, <1>4, WorldParts DEF Tidy, Exact, Open, Waits
<1>6. heap.sweep \in Nat
  <2>1. PICK S : S = {s \in In : heap.prio[s] # 1} OBVIOUS
  <2>2. S \subseteq Sockets /\ heap.sweep = Cardinality(S)
    BY <1>5, <2>1 DEF Counts
  <2> QED BY <2>2, FiniteSockets, FS_CardinalityType
<1>7. heap.count \in [Groups -> Nat]
  <2>1. ASSUME NEW g \in Groups PROVE heap.count[g] \in Nat
    <3>1. PICK S : S = {s \in P : heap.group[s] = g} OBVIOUS
    <3>2. S \subseteq Sockets /\ heap.count[g] = Cardinality(S)
      BY <1>5, <3>1 DEF Counts
    <3> QED BY <3>2, FiniteSockets, FS_CardinalityType
  <2>2. heap.count \in [Groups -> Int] BY <1>2, HeapParts
  <2> QED BY <2>1, <2>2
<1>8. \A i \in DOMAIN stack : stack[i].k \in
        {"user", "tick", "poll", "accept", "close", "ssl", "semi", "all", "sweep"}
  BY <1>1, FrameKinds DEF StackOK
<1>9. /\ heap.next \in [Sockets -> Ptr] /\ heap.prev \in [Sockets -> Ptr]
      /\ heap.life \in [Sockets -> {"unused", "open", "listen", "closed", "freed"}]
      /\ heap.prio \in [Sockets -> 0..2]
      /\ heap.head \in [Groups -> Ptr] /\ heap.listen \in [Groups -> Ptr]
      /\ heap.iter \in [Groups -> Ptr]
      /\ heap.gnext \in [Groups -> GroupPtr] /\ heap.gprev \in [Groups -> GroupPtr]
      /\ heap.loopHead \in GroupPtr /\ heap.loopIter \in GroupPtr
      /\ heap.lowHead \in Ptr /\ heap.closedHead \in Ptr
  BY <1>2, HeapParts DEF PtrMap, GroupPtrMap, LifeMap
<1>10. heap.budget \in 0..LowPrioBudget BY <1>1, WorldParts
<1> QED BY <1>3, <1>6, <1>7, <1>8, <1>9, <1>10 DEF TypeOK

-----------------------------------------------------------------------------
(* The properties the runs check, for every value of the constants. Each holds up *)
(* to the step that parks a parked socket (ParkedTwice), which the code permits.  *)

\* The fields of the heap keep their types; a counter never goes below zero
\* (group->low_prio_count-- in loop.c and context.c, sweep_timer_count-- in
\* loop.c), and the budget of low-priority handshakes is never overdrawn, until a
\* parked socket is parked again.
THEOREM TypeCorrectness == Spec => []TypeOK
<1>1. IInv => TypeOK BY TypesHold DEF IInv, TypeOK
<1> QED BY Invariance, <1>1, PTL

\* Between any two steps, callbacks that close, open and adopt sockets or nest
\* ticks inside any walk included, an open socket is on exactly the list its
\* flags say, a closed one waits on the closed list once its on_close is over,
\* a group is linked to the loop exactly while it is not empty, and all the
\* lists are well formed in both directions: until a parked socket is parked again.
THEOREM ExactLists == Spec => []ListsAreExact
<1>1. IInv => ListsAreExact BY ListsExact DEF IInv, ListsAreExact
<1> QED BY Invariance, <1>1, PTL

\* low_prio_count of a group is the number of its parked sockets and
\* sweep_timer_count is the number of sockets the sweep has to visit. Parking a
\* parked socket (loop.c:508-533) breaks the first; it holds up to there.
THEOREM ExactCounts == Spec => []CountsAreExact
<1>1. IInv => CountsAreExact BY CountsExact DEF IInv, CountsAreExact
<1> QED BY Invariance, <1>1, PTL

\* Whatever a callback closed, no interrupted C function (a dispatch, an accept
\* loop, a close_all, a sweep) resumes with a pointer to a freed socket:
\* us_internal_free_closed_sockets runs after the outermost tick only. (Until a
\* parked socket is parked again.)
THEOREM NoDanglingPointer == Spec => []NothingDangles
<1>1. IInv => NothingDangles BY NoneDangles DEF IInv, NothingDangles
<1> QED BY Invariance, <1>1, PTL

\* After us_socket_group_deinit nothing leads to the group's storage: not the
\* loop's list, not the sweep's iterator, not a socket that can still call back.
\* (Until a parked socket is parked again.)
THEOREM NoFreedGroup == Spec => []FreedGroupsAreForgotten
<1>1. IInv => FreedGroupsAreForgotten
  BY Forgotten DEF IInv, FreedGroupsAreForgotten
<1> QED BY Invariance, <1>1, PTL

\* on_close is dispatched once for every socket that was opened, before its
\* storage is freed, and never for a semi-socket or an address given up by
\* us_socket_adopt. (Until a parked socket is parked again.)
THEOREM OneClose == Spec => []EachCloseIsTold
<1>1. IInv => EachCloseIsTold BY AllTold DEF IInv, EachCloseIsTold
<1> QED BY Invariance, <1>1, PTL

-----------------------------------------------------------------------------
(* What the C functions do to the heads of the lists: a group that a       *)
(* close_all has emptied stays empty.                                      *)

Heads2(h, k) == IsHeap(k) /\ k.head = h.head /\ k.listen = h.listen

LEMMA MaybeUnlinkHeads ==
  ASSUME NEW h, IsHeap(h), NEW g, NEW k, k = MaybeUnlink(h, g)
  PROVE  Heads2(h, k)
<1>1. LoopFields \subseteq Fields /\ {"head", "listen"} \subseteq Fields \ LoopFields
  BY DEF LinkFields, LoopFields, Fields
<1>2. CASE k = UnlinkGroup(h, g)
  <2>1. SameBut(h, k, LoopFields)
    BY <1>1, <1>2, Zenon DEF SameBut, IsHeap, UnlinkGroup, LinkFields, LoopFields
  <2> QED BY <1>1, <2>1 DEF SameBut, Heads2
<1> QED BY <1>2 DEF MaybeUnlink, Heads2

LEMMA TouchedHeads ==
  ASSUME NEW h, IsHeap(h), NEW g, NEW k, k = Touched(h, g)
  PROVE  Heads2(h, k)
<1>1. LinkFields \subseteq Fields /\ {"head", "listen"} \subseteq Fields \ LinkFields
  BY DEF LinkFields, Fields
<1>2. CASE k = LinkGroup(h, g)
  <2>1. SameBut(h, k, LinkFields)
    BY <1>1, <1>2, Zenon DEF SameBut, IsHeap, LinkGroup, LinkFields
  <2> QED BY <1>1, <2>1 DEF SameBut, Heads2
<1> QED BY <1>2 DEF Touched, Heads2

\* The heads that are null stay null, the group g aside.
Keeps(h, k, g) ==
  /\ IsHeap(k)
  /\ \A x \in Groups \ {g} : /\ h.listen[x] = Null => k.listen[x] = Null
                             /\ h.head[x] = Null => k.head[x] = Null
KeepsAll(h, k) == \A g \in GroupPtr : Keeps(h, k, g)

LEMMA HeadsKept ==
  ASSUME NEW h, NEW k, Heads2(h, k)
  PROVE  KeepsAll(h, k)
  BY DEF Heads2, KeepsAll, Keeps

LEMMA HeadsOfBut ==
  ASSUME NEW h, NEW k, NEW F, SameBut(h, k, F), "head" \notin F, "listen" \notin F
  PROVE  Heads2(h, k)
  BY DEF SameBut, Heads2, Fields

LEMMA KeepsThen ==
  ASSUME NEW h, NEW m, NEW k, NEW g, Keeps(h, m, g), Heads2(m, k)
  PROVE  Keeps(h, k, g)
  BY DEF Keeps, Heads2

LEMMA KeepsAllThen ==
  ASSUME NEW h, NEW m, NEW k, KeepsAll(h, m), Heads2(m, k)
  PROVE  KeepsAll(h, k)
  BY KeepsThen DEF KeepsAll

\* A socket on its group's list is unlinked.
LEMMA UnlinkSocketHeads ==
  ASSUME NEW h, IsHeap(h), h.head \in [Groups -> Ptr], NEW g \in Groups, h.head[g] # Null, NEW s,
         NEW k, k = UnlinkSocket(h, g, s)
  PROVE  KeepsAll(h, k)
<1>1. PICK m, p, n : m = UnlinkedAt(h, g, s) /\ p = h.prev[s] /\ n = h.next[s]
  OBVIOUS
<1>2. k = MaybeUnlink(m, g) BY <1>1 DEF UnlinkSocket, UnlinkedAt
<1>3. /\ SameBut(h, m, UnlinkedFields)
      /\ m.head = [h.head EXCEPT ![g] = IF p = n THEN Null ELSE IF p = Null THEN n ELSE @]
  <2>1. UnlinkedFields \subseteq Fields BY DEF UnlinkedFields, Fields
  <2> QED
    BY ONLY <1>1, <2>1, IsHeap(h), Zenon DEF SameBut, IsHeap, UnlinkedAt, UnlinkedFields
<1>4. IsHeap(m) /\ m.listen = h.listen
  BY <1>3 DEF SameBut, UnlinkedFields, Fields
<1>5. \A x \in Groups : h.head[x] = Null => m.head[x] = Null BY <1>3
<1>6. KeepsAll(h, m) BY <1>4, <1>5 DEF KeepsAll, Keeps
<1>7. Heads2(m, k) BY ONLY <1>2, <1>4, MaybeUnlinkHeads
<1> QED BY ONLY <1>6, <1>7, KeepsAllThen

\* A socket is linked to the group g.
LEMMA LinkSocketHeads ==
  ASSUME NEW h, IsHeap(h), NEW g, NEW s, NEW k, k = LinkSocket(h, g, s)
  PROVE  Keeps(h, k, g)
<1>1. PICK m : m = LinkedAt(h, g, s) OBVIOUS
<1>2. k = Touched(m, g) BY <1>1 DEF LinkSocket, LinkedAt
<1>3. SameBut(h, m, LinkedFields) /\ m.head = [h.head EXCEPT ![g] = s]
  <2>1. LinkedFields \subseteq Fields BY DEF LinkedFields, Fields
  <2> QED
    BY ONLY <1>1, <2>1, IsHeap(h), Zenon DEF SameBut, IsHeap, LinkedAt, LinkedFields
<1>4. IsHeap(m) /\ m.listen = h.listen
  BY <1>3 DEF SameBut, LinkedFields, Fields
<1>5. \A x \in Groups \ {g} : h.head[x] = Null => m.head[x] = Null
  BY <1>3
<1>6. Keeps(h, m, g) BY <1>4, <1>5 DEF Keeps
<1>7. Heads2(m, k) BY ONLY <1>2, <1>4, TouchedHeads
<1> QED BY ONLY <1>6, <1>7, KeepsThen

\* A parked socket leaves the queue.
LEMMA LeaveQueueHeads ==
  ASSUME NEW h, IsHeap(h), NEW s, NEW k, k = LeaveQueue(h, s)
  PROVE  Heads2(h, k)
<1>1. PICK m, g : m = Unqueued(h, s) /\ g = h.group[s] OBVIOUS
<1>2. k = MaybeUnlink(m, g) BY <1>1 DEF LeaveQueue, Unqueued
<1>3. SameBut(h, m, QueueFields)
  <2>1. QueueFields \subseteq Fields BY DEF QueueFields, Fields
  <2> QED
    BY ONLY <1>1, <2>1, IsHeap(h), Zenon DEF SameBut, IsHeap, Unqueued, QueueFields
<1>4. Heads2(h, m) BY <1>3, HeadsOfBut DEF QueueFields
<1>5. Heads2(m, k) BY <1>2, <1>4, MaybeUnlinkHeads DEF Heads2
<1> QED BY <1>4, <1>5 DEF Heads2

\* A socket is closed, up to its on_close.
LEMMA UnhookHeads ==
  ASSUME NEW h, NEW Z, World(h, Z), NEW s \in Open(h), NEW k, k = Unhook(h, s)
  PROVE  KeepsAll(h, k)
<1>1. PICK u : u = IF h.prio[s] = 1 THEN LeaveQueue(h, s) ELSE UnlinkSocket(h, h.group[s], s)
  OBVIOUS
<1>2. IsHeap(h) /\ h.head \in [Groups -> Ptr] BY WorldParts, HeapParts
<1>3. KeepsAll(h, u)
  <2>1. CASE h.prio[s] = 1
    BY <1>1, <1>2, <2>1, LeaveQueueHeads, HeadsKept
  <2>2. CASE h.prio[s] # 1
    <3>1. PICK g : g = h.group[s] OBVIOUS
    <3>2. g \in Groups /\ h.head[g] # Null
      BY <2>2, <3>1, WorldParts, GroupLinked DEF Tidy
    <3>3. u = UnlinkSocket(h, g, s) BY <1>1, <2>2, <3>1
    <3> QED BY ONLY <1>2, <3>2, <3>3, UnlinkSocketHeads
  <2> QED BY <2>1, <2>2
<1>4. k = [u EXCEPT !.life[s] = "closed"] /\ IsHeap(u)
  BY <1>1, <1>3, Bounds DEF Unhook, KeepsAll, Keeps, GroupPtr
<1>5. SameBut(u, k, {"life"})
  <2>1. {"life"} \subseteq Fields BY DEF Fields
  <2> QED BY ONLY <1>4, <2>1, Zenon DEF SameBut, IsHeap
<1>6. Heads2(u, k) BY <1>5, HeadsOfBut
<1> QED BY ONLY <1>3, <1>6, KeepsAllThen

LEMMA OnClosedHeads ==
  ASSUME NEW h, IsHeap(h), NEW s, NEW k, k = OnClosedList(h, s)
  PROVE  Heads2(h, k)
<1>1. ClosedFields \subseteq Fields BY DEF ClosedFields, Fields
<1>2. SameBut(h, k, ClosedFields)
  BY <1>1, Zenon DEF SameBut, IsHeap, OnClosedList, ClosedFields
<1> QED BY <1>2, HeadsOfBut DEF ClosedFields

LEMMA CloseRawHeads ==
  ASSUME NEW h, NEW Z, World(h, Z), NEW s, InUse(h.life, s), NEW o, o = CloseRaw(h, s)
  PROVE  KeepsAll(h, o.h)
<1>1. IsHeap(h) BY WorldParts, HeapParts
<1>2. CASE IsClosed(h, s)
  BY <1>1, <1>2, HeadsKept DEF CloseRaw, Outcome, Heads2
<1>3. CASE ~IsClosed(h, s)
  <2>1. PICK u : u = Unhook(h, s) OBVIOUS
  <2>2. s \in Open(h) BY <1>3, NotClosed
  <2>3. KeepsAll(h, u) BY ONLY World(h, Z), <2>1, <2>2, UnhookHeads
  <2>4. IsHeap(u) /\ {"told"} \subseteq Fields
    BY <2>3, Bounds DEF KeepsAll, Keeps, GroupPtr, Fields
  <2>5. CASE h.semi[s]
    <3>1. o.h = OnClosedList(u, s)
      BY <1>3, <2>1, <2>5 DEF CloseRaw, Outcome
    <3>2. Heads2(u, o.h) BY ONLY <2>4, <3>1, OnClosedHeads
    <3> QED BY ONLY <2>3, <3>2, KeepsAllThen
  <2>6. CASE ~h.semi[s]
    <3>1. PICK k : k = [u EXCEPT !.told[s] = @ + 1] OBVIOUS
    <3>2. o.h = k BY <1>3, <2>1, <2>6, <3>1 DEF CloseRaw, Outcome
    <3>3. SameBut(u, k, {"told"})
      BY ONLY <2>4, <3>1, Zenon DEF SameBut, IsHeap
    <3>4. Heads2(u, k) BY <3>3, HeadsOfBut
    <3> QED BY ONLY <2>3, <3>2, <3>4, KeepsAllThen
  <2> QED BY <2>5, <2>6
<1> QED BY <1>2, <1>3

LEMMA SslShutdownHeads ==
  ASSUME NEW h, NEW Z, World(h, Z), NEW s, InUse(h.life, s), NEW o \in SslShutdown(h, s)
  PROVE  KeepsAll(h, o.h)
<1>1. CASE o = CloseRaw(h, s) BY <1>1, CloseRawHeads
<1>2. CASE o = Outcome(h, <<>>)
  BY <1>2, WorldParts, HeapParts, HeadsKept DEF Outcome, Heads2
<1> QED BY <1>1, <1>2 DEF SslShutdown

LEMMA CloseSocketHeads ==
  ASSUME NEW h, NEW Z, World(h, Z), NEW s, InUse(h.life, s), NEW o \in CloseSocket(h, s)
  PROVE  KeepsAll(h, o.h)
<1>1. CASE o = CloseRaw(h, s) BY <1>1, CloseRawHeads
<1>2. CASE o \in SslShutdown(h, s) BY <1>2, SslShutdownHeads
<1>3. CASE o = Outcome([h EXCEPT !.hs[s] = "failed"], <<User, [k |-> "ssl", s |-> s]>>)
  <2>1. PICK k : k = [h EXCEPT !.hs[s] = "failed"] OBVIOUS
  <2>2. IsHeap(h) /\ {"hs"} \subseteq Fields
    BY WorldParts, HeapParts DEF Fields
  <2>3. SameBut(h, k, {"hs"})
    BY ONLY <2>1, <2>2, Zenon DEF SameBut, IsHeap
  <2>4. Heads2(h, k) BY <2>3, HeadsOfBut
  <2>5. o.h = k BY <1>3, <2>1 DEF Outcome
  <2> QED BY ONLY <2>4, <2>5, HeadsKept
<1> QED BY <1>1, <1>2, <1>3 DEF CloseSocket

LEMMA CloseListenHeads ==
  ASSUME NEW h, IsHeap(h), NEW g \in Groups, NEW s, h.group[s] = g,
         h.listen \in [Groups -> Ptr], NEW k, k = CloseListen(h, s)
  PROVE  KeepsAll(h, k) /\ k.listen[g] = Null
<1>1. PICK u : u = [h EXCEPT !.listen[g] = Null] OBVIOUS
<1>2. PICK v : v = MaybeUnlink(u, g) OBVIOUS
<1>3. PICK w : w = [v EXCEPT !.life[s] = "closed"] OBVIOUS
<1>4. k = OnClosedList(w, s) BY <1>1, <1>2, <1>3 DEF CloseListen
<1>5. {"listen"} \subseteq Fields /\ {"life"} \subseteq Fields
  BY DEF Fields
<1>6. SameBut(h, u, {"listen"}) /\ u.listen = [h.listen EXCEPT ![g] = Null]
  BY ONLY IsHeap(h), <1>1, <1>5, Zenon DEF SameBut, IsHeap
<1>7. IsHeap(u) /\ u.head = h.head BY <1>6 DEF SameBut, Fields
<1>8. \A x \in Groups : h.listen[x] = Null => u.listen[x] = Null
  BY <1>6
<1>9. KeepsAll(h, u) /\ u.listen[g] = Null
  BY <1>6, <1>7, <1>8 DEF KeepsAll, Keeps
<1>10. Heads2(u, v) BY ONLY <1>2, <1>7, MaybeUnlinkHeads
<1>11. IsHeap(v) BY <1>10 DEF Heads2
<1>12. SameBut(v, w, {"life"})
  BY ONLY <1>3, <1>5, <1>11, Zenon DEF SameBut, IsHeap
<1>13. Heads2(v, w) BY <1>12, HeadsOfBut
<1>14. IsHeap(w) BY <1>13 DEF Heads2
<1>15. Heads2(w, k) BY ONLY <1>4, <1>14, OnClosedHeads
<1>16. Heads2(u, k) BY <1>10, <1>13, <1>15 DEF Heads2
<1>17. k.listen[g] = Null BY <1>9, <1>16 DEF Heads2
<1>18. KeepsAll(h, k) BY ONLY <1>9, <1>16, KeepsAllThen
<1> QED BY <1>17, <1>18

\* A parked socket.
LEMMA ParkHeads ==
  ASSUME NEW h, NEW Z, World(h, Z), NEW s \in Open(h), h.prio[s] # 1, NEW k, k = Park(h, s)
  PROVE  KeepsAll(h, k)
<1>1. PICK g, c, u : g = h.group[s] /\ c = Counted(h, g, s) /\ u = UnlinkSocket(c, g, s)
  OBVIOUS
<1>2. k = Parking(u, s) BY <1>1 DEF Park, Parking, Counted
<1>3. IsHeap(h) /\ h.head \in [Groups -> Ptr] /\ g \in Groups /\ h.head[g] # Null
  BY <1>1, WorldParts, HeapParts, GroupLinked DEF Tidy
<1>4. {"count", "reads"} \subseteq Fields /\ ParkingFields \subseteq Fields
  BY DEF Fields, ParkingFields
<1>5. SameBut(h, c, {"count", "reads"})
  BY ONLY <1>1, <1>3, <1>4, Zenon DEF SameBut, IsHeap, Counted
<1>6. Heads2(h, c) BY <1>5, HeadsOfBut
<1>7. IsHeap(c) /\ c.head \in [Groups -> Ptr] /\ c.head[g] # Null
  BY <1>3, <1>6 DEF Heads2
<1>8. KeepsAll(c, u) BY ONLY <1>1, <1>3, <1>7, UnlinkSocketHeads
<1>9. IsHeap(u) BY <1>8, Bounds DEF KeepsAll, Keeps, GroupPtr
<1>10. SameBut(u, k, ParkingFields)
  BY ONLY <1>2, <1>4, <1>9, Zenon DEF SameBut, IsHeap, Parking, ParkingFields
<1>11. Heads2(u, k) BY <1>10, HeadsOfBut DEF ParkingFields
<1>12. KeepsAll(c, k) BY ONLY <1>8, <1>11, KeepsAllThen
<1> QED BY <1>6, <1>12 DEF Heads2, KeepsAll, Keeps

\* Writes to other components.
Aloof == {"iter", "loopIter", "timeout", "long", "tick", "prio", "budget", "hs", "semi", "opened", "gone",
          "reads"}

LEMMA AloofHeads ==
  ASSUME NEW h, IsHeap(h), NEW a, NEW b, NEW k,
         k \in {StopAt(h, a, b), GoTo(h, b), ClearShort(h, a), ClearLong(h, a), Ticking(h, a),
                Timed(h, a, b), TimedLong(h, a, b), Calmed(h, a), Spent(h), Shaken(h, a),
                Connected(h, a), Freed(h, a), Reading(h, a)}
  PROVE  Heads2(h, k)
<1>1. Aloof \subseteq Fields BY DEF Aloof, Fields
<1> USE DEF SameBut, IsHeap, Aloof
<1>2. SameBut(h, StopAt(h, a, b), Aloof) /\ SameBut(h, GoTo(h, b), Aloof)
  BY <1>1, Zenon DEF StopAt, GoTo
<1>3. SameBut(h, ClearShort(h, a), Aloof) /\ SameBut(h, ClearLong(h, a), Aloof)
  BY <1>1, Zenon DEF ClearShort, ClearLong
<1>4. SameBut(h, Ticking(h, a), Aloof) /\ SameBut(h, Timed(h, a, b), Aloof)
  BY <1>1, Zenon DEF Ticking, Timed
<1>5. SameBut(h, TimedLong(h, a, b), Aloof) /\ SameBut(h, Calmed(h, a), Aloof)
  BY <1>1, Zenon DEF TimedLong, Calmed
<1>6. SameBut(h, Spent(h), Aloof) /\ SameBut(h, Shaken(h, a), Aloof)
  BY <1>1, Zenon DEF Spent, Shaken
<1>7. SameBut(h, Connected(h, a), Aloof) /\ SameBut(h, Freed(h, a), Aloof)
  BY <1>1, Zenon DEF Connected, Freed
<1>9. SameBut(h, Reading(h, a), Aloof) BY <1>1, Zenon DEF Reading
<1> HIDE DEF SameBut, IsHeap, Aloof
<1>8. SameBut(h, k, Aloof) BY <1>2, <1>3, <1>4, <1>5, <1>6, <1>7, <1>9
<1> QED BY <1>8, HeadsOfBut DEF Aloof

\* A close_all on the stack: its group has no listener, and no socket on its list
\* once it walks the queue, unless a tick was nested under it.
Fine(h, f) ==
  f.k = "all" => /\ h.listen[f.g] = Null
                 /\ f.phase = "queue" /\ ~f.ticked => h.head[f.g] = Null
Fines(h, st) == st \in Seq(FrameSet) /\ \A i \in 1..Len(st) : Fine(h, st[i])
Idle == {f \in FrameSet : f.k # "all"}

LEMMA FineKept ==
  ASSUME NEW h, NEW k, NEW f \in FrameSet, Fine(h, f),
         f.k = "all" => \E g \in GroupPtr : f.g # g /\ Keeps(h, k, g)
  PROVE  Fine(k, f)
  BY FrameKinds DEF AllFrames, Fine, Keeps

LEMMA FinesKept ==
  ASSUME NEW h, NEW k, KeepsAll(h, k), NEW st, Fines(h, st)
  PROVE  Fines(k, st)
  BY FrameKinds, Bounds, FineKept DEF AllFrames, KeepsAll, GroupPtr, Fines

LEMMA FinesTail ==
  ASSUME NEW h, NEW st, Fines(h, st), st # <<>>
  PROVE  Fines(h, Tail(st)) /\ Fine(h, Head(st))
<1>1. PICK b, f : b = Tail(st) /\ f = Head(st) OBVIOUS
<1>2. st \in Seq(FrameSet) BY DEF Fines
<1>3. /\ b \in Seq(FrameSet) /\ f = st[1] /\ 1 \in 1..Len(st)
      /\ \A i \in 1..Len(b) : i + 1 \in 1..Len(st) /\ b[i] = st[i+1]
  BY ONLY <1>1, <1>2, st # <<>>, Decons
<1>4. Fines(h, b) /\ Fine(h, f) BY <1>3 DEF Fines
<1> QED BY <1>1, <1>4

\* Frames other than those of a close_all go on top.
LEMMA FinesOn ==
  ASSUME NEW h, NEW k, KeepsAll(h, k), NEW st, Fines(h, st), NEW f \in Seq(Idle)
  PROVE  Fines(k, f \o st)
<1>1. PICK c : c = f \o st OBVIOUS
<1>2. Fines(k, st) /\ st \in Seq(FrameSet) BY FinesKept DEF Fines
<1>3. Idle \subseteq FrameSet BY DEF Idle
<1>4. f \in Seq(FrameSet) BY ONLY <1>3, f \in Seq(Idle)
<1>5. /\ c \in Seq(FrameSet) /\ Len(f) \in Nat /\ Len(st) \in Nat
      /\ \A i \in 1..Len(f) : c[i] = f[i] /\ f[i] \in Idle
      /\ \A i \in 1..Len(c) : i \in 1..Len(f) \/ (i - Len(f) \in 1..Len(st) /\ c[i] = st[i - Len(f)])
  BY ONLY <1>1, <1>2, <1>4, f \in Seq(Idle)
<1>6. \A e \in Idle : Fine(k, e) BY DEF Idle, Fine
<1>7. \A i \in 1..Len(st) : Fine(k, st[i]) BY <1>2 DEF Fines
<1>8. \A i \in 1..Len(c) : Fine(k, c[i]) BY ONLY <1>5, <1>6, <1>7
<1> QED BY <1>1, <1>5, <1>8 DEF Fines

\* The frame of a close_all goes on top.
LEMMA FinesAll ==
  ASSUME NEW h, NEW st, Fines(h, st), NEW f \in FrameSet, Fine(h, f)
  PROVE  Fines(h, <<f>> \o st)
<1>1. PICK c : c = <<f>> \o st OBVIOUS
<1>2. st \in Seq(FrameSet) BY DEF Fines
<1>3. /\ c \in Seq(FrameSet) /\ c[1] = f
      /\ \A i \in 1..Len(c) : i = 1 \/ (i - 1 \in 1..Len(st) /\ c[i] = st[i-1])
  BY ONLY <1>1, <1>2, f \in FrameSet, Cons
<1> QED BY <1>1, <1>3 DEF Fines

LEMMA IdleFrames ==
  /\ <<>> \in Seq(Idle) /\ User \in Idle /\ <<User>> \in Seq(Idle)
  /\ \A e \in Idle : <<e>> \in Seq(Idle) /\ <<User, e>> \in Seq(Idle)
<1>1. User \in Idle BY DEF User, UserFrames, FrameSet, Idle
<1> QED BY ONLY <1>1

LEMMA LeavesIdle ==
  ASSUME NEW h, NEW Z, NEW o, Leaves(h, Z, o)
  PROVE  o.f \in Seq(Idle)
  BY IdleFrames DEF SocketFrames, FrameSet, Idle, Leaves, Quiet

\* A socket is opened on the group g, or adopted by it.
LEMMA OpenSocketHeads ==
  ASSUME NEW h, IsHeap(h), NEW g, NEW s, NEW semi, NEW k, k = OpenSocket(h, g, s, semi)
  PROVE  Keeps(h, k, g)
<1>1. PICK u : u = [h EXCEPT !.life[s] = "open", !.semi[s] = semi,
                             !.opened = IF semi THEN @ ELSE @ \cup {s}]
  OBVIOUS
<1>2. OpensFields \subseteq Fields BY DEF OpensFields, Fields
<1>3. SameBut(h, u, OpensFields)
  BY ONLY IsHeap(h), <1>1, <1>2, Zenon DEF SameBut, IsHeap, OpensFields
<1>4. Heads2(h, u) BY <1>3, HeadsOfBut DEF OpensFields
<1>5. k = LinkSocket(u, g, s) /\ IsHeap(u)
  BY <1>1, <1>4 DEF OpenSocket, Heads2
<1>6. Keeps(u, k, g) BY ONLY <1>5, LinkSocketHeads
<1> QED BY <1>4, <1>6 DEF Heads2, Keeps

LEMMA LeaveGroupHeads ==
  ASSUME NEW h, NEW Z, World(h, Z), NEW s \in Open(h), NEW g \in Groups, ~h.gone[g],
         NEW k, k = LeaveGroup(h, s, g)
  PROVE  KeepsAll(h, k)
<1>1. PICK In, C, P, o : /\ In = Open(h) /\ C = Shut(h) \ Z /\ P = Waits(h, In) /\ o = h.group[s]
  OBVIOUS
<1>2. Exact(h, In, C, P, {}) /\ IsHeap(h) /\ h.head \in [Groups -> Ptr] /\ o \in Groups
  BY <1>1, WorldParts, HeapParts, GroupOf DEF Tidy
<1>3. CASE h.prio[s] # 1
  <2>1. h.head[o] # Null /\ k = UnlinkSocket(h, o, s)
    BY <1>1, <1>3, WorldParts, GroupLinked DEF Tidy, LeaveGroup
  <2> QED BY ONLY <1>2, <2>1, UnlinkSocketHeads
<1>4. CASE h.prio[s] = 1
  <2>1. Leaving(h, P, s, o, g) BY <1>1, <1>2, <1>4 DEF Leaving, Waits
  <2>2. SameBut(h, k, {"count"} \cup LoopFields)
    BY ONLY <1>2, <2>1, k = LeaveGroup(h, s, g), LeaveGroupOK
  <2>3. Heads2(h, k) BY <2>2, HeadsOfBut DEF LoopFields, LinkFields
  <2> QED BY ONLY <2>3, HeadsKept
<1> QED BY <1>3, <1>4

LEMMA AdoptHeads ==
  ASSUME NEW h, NEW Z, World(h, Z), NEW s \in Open(h), NEW g \in Groups, ~h.gone[g],
         NEW t, NEW k, k = Adopt(h, s, g, t)
  PROVE  Keeps(h, k, g)
<1>1. PICK l, m, n : /\ l = LeaveGroup(h, s, g) /\ n = Moving(m, g, t)
                     /\ m = IF t = s THEN l ELSE Realloc(l, s, t)
  OBVIOUS
<1>2. k = Requeued(n, t) \/ k = LinkSocket(n, g, t)
  BY <1>1 DEF Adopt, Moving, Requeued
<1>3. /\ ResizeFields \subseteq Fields /\ MoveFields \subseteq Fields /\ RequeueFields \subseteq Fields
      /\ g \in GroupPtr
  BY DEF ResizeFields, MoveFields, RequeueFields, Fields, GroupPtr
<1>4. KeepsAll(h, l) BY <1>1, LeaveGroupHeads
<1>5. IsHeap(l) /\ Keeps(h, l, g) BY <1>3, <1>4 DEF KeepsAll, Keeps
<1>6. Heads2(l, m)
  <2>1. CASE m = Realloc(l, s, t)
    <3>1. m = Resized(l, s, t) BY <2>1 DEF Realloc, Resized, Copy
    <3>2. SameBut(l, m, ResizeFields)
      BY ONLY <1>3, <1>5, <3>1, Zenon DEF SameBut, IsHeap, Resized, ResizeFields
    <3> QED BY <3>2, HeadsOfBut DEF ResizeFields
  <2> QED BY <1>1, <1>5, <2>1 DEF Heads2
<1>7. SameBut(m, n, MoveFields)
  <2>1. IsHeap(m) BY <1>6 DEF Heads2
  <2> QED
    BY ONLY <1>1, <1>3, <2>1, Zenon DEF SameBut, IsHeap, Moving, MoveFields
<1>8. Heads2(m, n) BY <1>7, HeadsOfBut DEF MoveFields
<1>9. Keeps(h, n, g) /\ IsHeap(n)
  BY <1>5, <1>6, <1>8 DEF Keeps, Heads2
<1>10. CASE k = Requeued(n, t)
  <2>1. SameBut(n, k, RequeueFields)
    BY ONLY <1>3, <1>9, <1>10, Zenon DEF SameBut, IsHeap, Requeued, RequeueFields
  <2>2. Heads2(n, k) BY <2>1, HeadsOfBut DEF RequeueFields
  <2> QED BY ONLY <1>9, <2>2, KeepsThen
<1>11. CASE k = LinkSocket(n, g, t)
  <2>1. Keeps(n, k, g) BY ONLY <1>9, <1>11, LinkSocketHeads
  <2> QED BY <1>9, <2>1 DEF Keeps
<1> QED BY <1>2, <1>10, <1>11

LEMMA FreeClosedHeads ==
  ASSUME NEW h, IsHeap(h), NEW k, k = FreeClosed(h)
  PROVE  Heads2(h, k)
<1>1. k = FreeingAll(h, Chain(h.next, h.closedHead))
  BY DEF FreeClosed, FreeingAll, Clear
<1>2. FreedFields \subseteq Fields BY DEF FreedFields, Fields
<1>3. SameBut(h, k, FreedFields)
  BY ONLY IsHeap(h), <1>1, <1>2, Zenon DEF SameBut, IsHeap, FreeingAll, FreedFields
<1> QED BY <1>3, HeadsOfBut DEF FreedFields

LEMMA AdmittedHeads ==
  ASSUME NEW h, IsHeap(h), NEW s, NEW k \in Admitted(h, s)
  PROVE  Heads2(h, k)
<1>1. k = h \/ \E a \in {Calmed(h, s), Spent(h)} : k = a \/ k = Shaken(a, s)
  BY DEF Admitted, Calmed, Spent, Shaken
<1>2. CASE k = h BY <1>2 DEF Heads2
<1>3. ASSUME NEW a \in {Calmed(h, s), Spent(h)}, k = a \/ k = Shaken(a, s)
      PROVE  Heads2(h, k)
  <2>1. Heads2(h, a) BY <1>3, AloofHeads
  <2>2. Heads2(a, Shaken(a, s)) BY <2>1, AloofHeads DEF Heads2
  <2> QED BY <1>3, <2>1, <2>2 DEF Heads2
<1> QED BY <1>1, <1>2, <1>3

LEMMA SeekHeads ==
  ASSUME NEW h, IsHeap(h), NEW g, NEW p, NEW ticked, NEW o, o = Seek(h, g, p, ticked)
  PROVE  Heads2(h, o.h)
<1>1. \E x, y : o.h \in {GoTo(StopAt(h, g, x), y), StopAt(h, g, x), ClearShort(StopAt(h, g, x), x)}
  BY DEF Seek, Outcome, GoTo, StopAt, ClearShort
<1>2. PICK x, y, i : /\ i = StopAt(h, g, x)
                     /\ o.h \in {GoTo(i, y), i, ClearShort(i, x)}
  BY <1>1
<1>3. Heads2(h, i) /\ IsHeap(i) BY <1>2, AloofHeads DEF Heads2
<1>4. Heads2(i, GoTo(i, y)) /\ Heads2(i, ClearShort(i, x))
  BY <1>3, AloofHeads
<1> QED BY <1>2, <1>3, <1>4 DEF Heads2

-----------------------------------------------------------------------------
(* The steps, in the order of Next.                                        *)

LEMMA FinesUnder ==
  ASSUME NEW h, NEW k, Heads2(h, k), NEW st, Fines(h, st), NEW c \in Seq(FrameSet),
         \/ c = st \/ c = <<>> \o st \/ c = <<User>> \o st
         \/ \E e : e.k # "all" /\ (c = <<e>> \o st \/ c = <<User, e>> \o st)
  PROVE  Fines(k, c)
<1>1. KeepsAll(h, k) /\ Fines(k, st) /\ st \in Seq(FrameSet)
  BY HeadsKept, FinesKept DEF Fines
<1>2. CASE c = st BY <1>1, <1>2
<1>3. ASSUME NEW f \in Seq(Idle), c = f \o st PROVE Fines(k, c)
  BY ONLY <1>1, <1>3, Fines(h, st), FinesOn
<1>4. ASSUME NEW e, e.k # "all", c = <<e>> \o st \/ c = <<User, e>> \o st PROVE Fines(k, c)
  <2>1. e \in FrameSet BY ONLY <1>1, <1>4, c \in Seq(FrameSet)
  <2>2. e \in Idle BY <1>4, <2>1 DEF Idle
  <2>3. <<e>> \in Seq(Idle) /\ <<User, e>> \in Seq(Idle)
    BY ONLY <2>2, IdleFrames
  <2> QED BY ONLY <1>3, <1>4, <2>3
<1> QED BY <1>2, <1>3, <1>4, IdleFrames

LEMMA ClosingFines ==
  ASSUME NEW h, NEW Z, World(h, Z), NEW s, InUse(h.life, s),
         NEW o, o = CloseRaw(h, s) \/ o \in SslShutdown(h, s) \/ o \in CloseSocket(h, s),
         NEW st, Fines(h, st)
  PROVE  Fines(o.h, o.f \o st)
<1>1. Leaves(h, Z, o) BY CloseRawOK, SslShutdownOK, CloseSocketOK
<1>2. o.f \in Seq(Idle) BY <1>1, LeavesIdle
<1>3. KeepsAll(h, o.h)
  BY CloseRawHeads, SslShutdownHeads, CloseSocketHeads
<1> QED BY ONLY <1>2, <1>3, Fines(h, st), FinesOn

\* No close_all of the group g is on the stack.
LEMMA FinesBut ==
  ASSUME NEW h, NEW k, NEW g \in Groups, Keeps(h, k, g), NEW st, Fines(h, st),
         \A i \in 1..Len(st) : st[i].k = "all" => st[i].g # g
  PROVE  Fines(k, st) /\ Fines(k, <<>> \o st)
<1>1. \A i \in 1..Len(st) : st[i] \in FrameSet /\ Fine(h, st[i])
  BY DEF Fines
<1>2. \A i \in 1..Len(st) : Fine(k, st[i])
  BY <1>1, FineKept DEF GroupPtr
<1>3. <<>> \o st = st
  <2>1. st \in Seq(FrameSet) BY DEF Fines
  <2> QED BY ONLY <2>1
<1> QED BY <1>2, <1>3 DEF Fines

LEMMA UsableGroup ==
  ASSUME Fines(heap, stack), NEW g, Usable(g)
  PROVE  \A i \in 1..Len(stack) : stack[i].k = "all" => stack[i].g # g
  BY DEF Fines, Usable, BeingClosed, Frames

Holds(Z) ==
  /\ World(heap, Z) /\ IsHeap(heap) /\ StackOK(heap.life, Z, stack) /\ Fines(heap, stack)
  /\ stack' \in Seq(FrameSet)

LEMMA CloseFines ==
  ASSUME NEW Z, Holds(Z), NEW s \in Sockets, us_socket_close(s)
  PROVE  Fines(heap', stack')
<1>1. PICK o \in CloseSocket(heap, s) : heap' = o.h /\ stack' = o.f \o stack
  BY DEF us_socket_close, Do
<1>2. InUse(heap.life, s) BY DEF us_socket_close, Alive, InUse
<1> QED BY <1>1, <1>2, ClosingFines DEF Holds

LEMMA AdoptFines ==
  ASSUME NEW Z, Holds(Z), NEW s \in Sockets, NEW g \in Groups, us_socket_adopt(s, g)
  PROVE  Fines(heap', stack')
<1>1. PICK t : heap' = Adopt(heap, s, g, t) /\ stack' = <<>> \o stack
  BY DEF us_socket_adopt, Do, Outcome
<1>2. s \in Open(heap) /\ ~heap.gone[g] /\ Usable(g)
  BY DEF us_socket_adopt, Alive, Open, Usable
<1>3. Keeps(heap, heap', g) BY <1>1, <1>2, AdoptHeads DEF Holds
<1> QED BY <1>1, <1>2, <1>3, UsableGroup, FinesBut DEF Holds

LEMMA ConnectFines ==
  ASSUME NEW Z, Holds(Z), NEW g \in Groups, us_socket_group_connect(g)
  PROVE  Fines(heap', stack')
<1>1. PICK s : heap' = OpenSocket(heap, g, s, TRUE) /\ stack' = <<>> \o stack /\ Usable(g)
  BY DEF us_socket_group_connect, Do, Outcome
<1>2. Keeps(heap, heap', g) BY <1>1, OpenSocketHeads DEF Holds
<1> QED BY <1>1, <1>2, UsableGroup, FinesBut DEF Holds

LEMMA ListenFines ==
  ASSUME NEW Z, Holds(Z), NEW g \in Groups, us_socket_group_listen(g)
  PROVE  Fines(heap', stack')
<1>1. PICK s, u : u = Listening(heap, g, s) /\ heap' = Touched(u, g)
  BY Zenon DEF us_socket_group_listen, Listening
<1>2. stack' = stack /\ Usable(g) BY DEF us_socket_group_listen
<1>3. SameBut(heap, u, ListensFields) /\ u.listen = [heap.listen EXCEPT ![g] = s]
  <2>1. ListensFields \subseteq Fields /\ IsHeap(heap)
    BY DEF ListensFields, Fields, Holds
  <2> QED
    BY ONLY <1>1, <2>1, Zenon DEF SameBut, IsHeap, Listening, ListensFields
<1>4. IsHeap(u) /\ u.head = heap.head
  BY <1>3 DEF SameBut, ListensFields, Fields
<1>5. Heads2(u, heap') BY ONLY <1>1, <1>4, TouchedHeads
<1>6. Keeps(heap, heap', g) BY <1>3, <1>4, <1>5 DEF Keeps, Heads2
<1> QED BY <1>2, <1>6, UsableGroup, FinesBut DEF Holds

LEMMA ListenCloseHeads ==
  ASSUME NEW Z, Holds(Z), NEW g \in Groups, heap.listen[g] # Null
  PROVE  /\ KeepsAll(heap, CloseListen(heap, heap.listen[g]))
         /\ CloseListen(heap, heap.listen[g]).listen[g] = Null
<1>1. heap.listen \in [Groups -> Ptr] /\ heap.group[heap.listen[g]] = g /\ IsHeap(heap)
  BY WorldParts, HeapParts DEF ListensOK, Holds
<1> QED BY ONLY <1>1, g \in Groups, CloseListenHeads

\* us_socket_group_close_all: it closes the listener before it walks the list.
LEMMA CloseAllFines ==
  ASSUME NEW Z, Holds(Z), NEW g \in Groups, us_socket_group_close_all(g)
  PROVE  Fines(heap', stack')
<1>1. PICK h, f : /\ h = (IF heap.listen[g] = Null THEN heap ELSE CloseListen(heap, heap.listen[g]))
                  /\ f = [k |-> "all", g |-> g, phase |-> "walk", cur |-> h.head[g],
                          ticked |-> FALSE]
                  /\ heap' = h /\ stack' = <<f>> \o stack
  BY DEF us_socket_group_close_all, Do, Outcome
<1>2. KeepsAll(heap, h) /\ h.listen[g] = Null
  BY <1>1, ListenCloseHeads, HeadsKept DEF Holds, Heads2
<1>3. Fines(h, stack) BY <1>2, FinesKept DEF Holds
<1>4. f \in FrameSet
  <2>1. stack \in Seq(FrameSet) /\ stack' \in Seq(FrameSet)
    BY DEF Holds, StackOK
  <2>2. 1 \in 1..Len(stack') /\ stack'[1] = f BY ONLY <1>1, <2>1
  <2> QED BY ONLY <2>1, <2>2
<1>5. Fine(h, f) BY <1>1, <1>2 DEF Fine
<1> QED BY <1>1, <1>3, <1>4, <1>5, FinesAll

LEMMA ListenCloseFines ==
  ASSUME NEW Z, Holds(Z), NEW g \in Groups, us_listen_socket_close(g)
  PROVE  Fines(heap', stack')
  BY ListenCloseHeads, FinesKept DEF us_listen_socket_close, Holds

LEMMA TimeoutFines ==
  ASSUME NEW Z, Holds(Z), NEW s, us_socket_timeout(s) \/ us_socket_long_timeout(s)
  PROVE  Fines(heap', stack')
<1>1. stack' = stack /\ \E v : heap' = Timed(heap, s, v) \/ heap' = TimedLong(heap, s, v)
  BY DEF us_socket_timeout, us_socket_long_timeout, Timed, TimedLong
<1>2. Heads2(heap, heap') BY <1>1, AloofHeads DEF Holds
<1> QED BY <1>1, <1>2, FinesUnder DEF Holds

LEMMA WriteFines ==
  ASSUME NEW Z, Holds(Z), NEW s, us_socket_write(s)
  PROVE  Fines(heap', stack')
<1>1. stack' = stack /\ heap' = Reading(heap, s)
  BY DEF us_socket_write, Reading
<1> QED BY <1>1, AloofHeads, FinesUnder DEF Holds

LEMMA DeinitFines ==
  ASSUME NEW Z, Holds(Z), NEW g \in Groups, us_socket_group_deinit(g)
  PROVE  Fines(heap', stack')
<1>1. stack' = stack /\ IsEmpty(heap, g)
      /\ heap' = [(IF heap.linked[g] THEN UnlinkGroup(heap, g) ELSE heap) EXCEPT !.gone[g] = TRUE]
  BY DEF us_socket_group_deinit
<1>2. heap' = Freed(heap, g) BY <1>1, DeinitOK DEF Freed, Holds
<1>3. Heads2(heap, heap') BY <1>2, AloofHeads DEF Holds
<1> QED BY <1>1, <1>3, FinesUnder DEF Holds

\* A callback returns, or a tick ends.
LEMMA EndFines ==
  ASSUME NEW Z, Holds(Z), Return \/ EndTick
  PROVE  Fines(heap', stack')
<1>1. stack # <<>> /\ Fines(heap, Tail(stack)) /\ IsHeap(heap)
  BY FinesTail DEF Return, EndTick, At, Holds
<1>2. CASE Return
  <2>1. PICK b, st : b = Tail(stack) /\ st = Tail(b) OBVIOUS
  <2>2. \/ b # <<>> /\ (\E s : heap' = OnClosedList(heap, s)) /\ stack' = <<>> \o st
        \/ heap' = heap /\ stack' = <<>> \o b
    BY <1>2, <2>1 DEF Return, Do, Outcome
  <2>3. Heads2(heap, heap') BY <1>1, <2>2, OnClosedHeads DEF Heads2
  <2>4. b # <<>> => Fines(heap, st) BY <1>1, <2>1, FinesTail
  <2> QED BY <1>1, <2>1, <2>2, <2>3, <2>4, FinesUnder DEF Holds
<1>3. CASE EndTick
  BY <1>1, <1>3, FreeClosedHeads, FinesUnder DEF EndTick, Heads2, Holds
<1> QED BY <1>2, <1>3

\* A tick is nested: from here on the close_alls under it may find sockets on their lists.
LEMMA BeginTickFines ==
  ASSUME NEW Z, Holds(Z), BeginTick
  PROVE  Fines(heap', stack')
<1>1. PICK u, f : /\ u = [i \in DOMAIN stack |-> Under(stack[i])] /\ f = [k |-> "tick", live |-> TRUE]
                  /\ heap' = HandleLowPriority(heap) /\ stack' = <<f>> \o u
  BY DEF BeginTick
<1>2. IsHeap(heap') /\ heap'.listen = heap.listen
  <2>1. /\ Tidy(heap, Open(heap), Shut(heap) \ Z)
        /\ \A s \in Open(heap) : ~IsClosed(heap, s)
    BY WorldParts DEF Holds, Open, IsClosed
  <2>2. SameBut(heap, heap', UnparkFields)
    BY <1>1, <2>1, HandleLowPriorityOK DEF Turned
  <2> QED
    BY <2>2 DEF SameBut, UnparkFields, UnqueuedFields, LinkedFields, LoopFields, LinkFields, Fields
<1>3. ASSUME NEW e \in FrameSet, Fine(heap, e), FrameOK(heap.life, e)
      PROVE  Fine(heap', Under(e))
  <2>1. CASE e.k = "all"
    BY <2>1, <1>3, FrameKinds, <1>2 DEF Under, AllFrames, Fine
  <2>2. CASE e.k # "all" BY ONLY <1>3, <2>2, UnderFrame DEF Fine
  <2> QED BY <2>1, <2>2
<1>4. Fines(heap', u)
  <2>1. /\ stack \in Seq(FrameSet) /\ StackOK(heap.life, Z, stack)
        /\ \A i \in 1..Len(stack) : Fine(heap, stack[i]) /\ FrameOK(heap.life, stack[i])
    BY DEF Holds, Fines, StackOK
  <2>2. u \in Seq(FrameSet)
    <3>1. StackOK(heap.life, Z, u) BY ONLY <1>1, <2>1, UnderOK
    <3> QED BY <3>1 DEF StackOK
  <2>3. \A i \in 1..Len(u) : i \in 1..Len(stack) /\ u[i] = Under(stack[i]) /\ stack[i] \in FrameSet
    BY ONLY <1>1, <2>1, <2>2
  <2> QED BY ONLY <1>3, <2>1, <2>2, <2>3 DEF Fines
<1> QED BY <1>1, <1>2, <1>4, FinesUnder DEF Holds, Heads2

\* Events, and the timer.
LEMMA KernelFines ==
  ASSUME NEW Z, Holds(Z), (\E s \in Sockets : DispatchSocket(s) \/ DispatchConnect(s)) \/ SweepTimer
  PROVE  Fines(heap', stack')
<1>1. /\ \/ heap' = heap \/ \E s : heap' = Connected(heap, s)
         \/ heap' = GoTo(heap, heap.loopHead)
      /\ \/ stack' = <<User>> \o stack
         \/ \E e : e.k # "all" /\ stack' = <<e>> \o stack
  BY DEF DispatchSocket, DispatchConnect, SweepTimer, Do, Outcome, Connected, GoTo, Poll, NextGroup
<1>2. Heads2(heap, heap')
  <2>1. IsHeap(heap) /\ Heads2(heap, heap) BY DEF Holds, Heads2
  <2>2. \A s : Heads2(heap, Connected(heap, s)) /\ Heads2(heap, GoTo(heap, s))
    BY <2>1, AloofHeads
  <2> QED BY ONLY <1>1, <2>1, <2>2
<1> QED BY <1>1, <1>2, FinesUnder DEF Holds

\* A group that is being closed accepts nothing: its listener was closed first.
LEMMA AcceptFines ==
  ASSUME NEW Z, Holds(Z), NEW st, Fines(heap, st), NEW ls \in Sockets, heap.life[ls] = "listen",
         Accept(ls, st)
  PROVE  Fines(heap', stack')
<1>0. PICK s \in Fresh(heap) :
        /\ heap' = OpenSocket(heap, heap.group[ls], s, FALSE)
        /\ stack' = <<User, [k |-> "accept", ls |-> ls, s |-> s]>> \o st
  BY DEF Accept, Do, Outcome
<1>1. PICK g, e, c : /\ g = heap.group[ls] /\ e = [k |-> "accept", ls |-> ls, s |-> s] /\ c = stack'
  OBVIOUS
<1>2. g \in Groups /\ heap.listen[g] # Null
  <2>1. ListensOK(heap.listen, heap.group, heap.life)
    BY WorldParts DEF Holds
  <2> QED BY <1>1, <2>1, Bounds DEF ListensOK
<1>3. Keeps(heap, heap', g) /\ \A i \in 1..Len(st) : st[i].k = "all" => st[i].g # g
  BY <1>0, <1>1, <1>2, OpenSocketHeads DEF Holds, Fines, Fine
<1>4. Fines(heap', st) /\ Heads2(heap', heap')
  BY <1>2, <1>3, FinesBut DEF Keeps, Heads2
<1>5. /\ c = <<User, e>> \o st /\ e.k # "all" /\ c \in Seq(FrameSet)
  BY <1>0, <1>1 DEF Holds
<1>6. Fines(heap', c) BY ONLY <1>4, <1>5, FinesUnder
<1> QED BY <1>1, <1>6

LEMMA Resuming ==
  ASSUME NEW Z, Holds(Z), stack # <<>>, NEW f, f = Head(stack), NEW st, st = Tail(stack)
  PROVE  Fines(heap, st) /\ Fine(heap, f) /\ f \in FrameSet /\ FrameOK(heap.life, f)
<1>1. stack \in Seq(FrameSet) /\ \A i \in 1..Len(stack) : FrameOK(heap.life, stack[i])
  BY DEF Holds, StackOK
<1>2. f = stack[1] /\ 1 \in 1..Len(stack) /\ f \in FrameSet
  BY ONLY <1>1, stack # <<>>, f = Head(stack), Decons
<1> QED BY <1>1, <1>2, FinesTail DEF Holds

LEMMA AcceptGoesOnFines ==
  ASSUME NEW Z, Holds(Z), AcceptGoesOn
  PROVE  Fines(heap', stack')
<1>1. PICK f, st : f = Head(stack) /\ st = Tail(stack) OBVIOUS
<1>2. stack # <<>> /\ f.k = "accept" BY <1>1 DEF AcceptGoesOn, At, Top
<1>3. Fines(heap, st) /\ f \in AcceptFrames /\ heap.life[f.ls] \in {"listen", "closed"}
  BY <1>1, <1>2, Resuming, FrameKinds DEF FrameOK
<1>4. PICK p, e : p = Poll(Hop(f.s), <<"read">>) /\ e = [f EXCEPT !.s = Null]
  OBVIOUS
<1>5. \/ heap' = heap /\ stack' = <<p, e>> \o st
      \/ ~IsClosed(heap, f.ls) /\ Accept(f.ls, st)
      \/ heap' = heap /\ stack' = <<>> \o st
  BY <1>1, <1>4 DEF AcceptGoesOn, Top, Do, Outcome
<1>6. CASE ~IsClosed(heap, f.ls) /\ Accept(f.ls, st)
  BY <1>3, <1>6, AcceptFines DEF IsClosed, AcceptFrames
<1>7. Heads2(heap, heap) /\ st \in Seq(FrameSet) /\ stack' \in Seq(FrameSet)
  BY <1>3 DEF Holds, Heads2, Fines
<1>8. CASE heap' = heap /\ stack' = <<p, e>> \o st
  <2>1. e.k # "all" /\ p.k # "all"
    BY <1>3, <1>4 DEF AcceptFrames, Poll
  <2>2. /\ 1 \in 1..Len(stack') /\ stack'[1] = p
        /\ 2 \in 1..Len(stack') /\ stack'[2] = e
    BY ONLY <1>7, <1>8
  <2>3. p \in Idle /\ e \in Idle BY ONLY <1>7, <2>1, <2>2 DEF Idle
  <2>4. <<p, e>> \in Seq(Idle) BY ONLY <2>3
  <2> QED BY <1>3, <1>7, <1>8, <2>4, HeadsKept, FinesOn
<1>9. CASE heap' = heap /\ stack' = <<>> \o st
  BY <1>3, <1>7, <1>9, FinesUnder
<1> QED BY <1>5, <1>6, <1>8, <1>9

LEMMA SslFines ==
  ASSUME NEW Z, Holds(Z), SslGoesOn \/ SemiGoesOn
  PROVE  Fines(heap', stack')
<1>1. PICK f, st : f = Head(stack) /\ st = Tail(stack) OBVIOUS
<1>2. stack # <<>> /\ f.k \in {"ssl", "semi"}
  BY <1>1 DEF SslGoesOn, SemiGoesOn, At, Top
<1>3. Fines(heap, st) /\ InUse(heap.life, f.s)
  BY <1>1, <1>2, Resuming DEF FrameOK
<1>4. \/ heap' = heap /\ stack' = <<>> \o st
      \/ \E o : /\ o = CloseRaw(heap, f.s) \/ o \in SslShutdown(heap, f.s)
                /\ heap' = o.h /\ stack' = o.f \o st
  BY <1>1 DEF SslGoesOn, SemiGoesOn, Top, Do, Outcome
<1> QED BY <1>3, <1>4, ClosingFines, FinesUnder DEF Holds, Heads2

LEMMA PollFines ==
  ASSUME ~ParkedTwice', NEW Z, Holds(Z), PollGoesOn
  PROVE  Fines(heap', stack')
<1>1. PICK f, st, s, w, r, q :
        /\ f = Head(stack) /\ st = Tail(stack)
        /\ s = (IF f.hop THEN Hop(f.s) ELSE f.s) /\ w = f.todo
        /\ r = [f EXCEPT !.s = s, !.todo = Tail(@), !.hop = TRUE] /\ q = [r EXCEPT !.hop = FALSE]
  OBVIOUS
<1>2. stack # <<>> /\ f.k = "poll" BY <1>1 DEF PollGoesOn, At, Top
<1>3. Fines(heap, st) /\ f \in PollFrames /\ InUse(heap.life, f.s) /\ World(heap, Z)
  BY <1>1, <1>2, Resuming, FrameKinds DEF FrameOK, Holds
<1>4. PollTurn(s, w, r, q, st)
  <2>1. st \in Seq(FrameSet) BY <1>3 DEF Fines
  <2> QED
    BY ONLY ~ParkedTwice', PollGoesOn, <1>1, <2>1, PollTurns, Zenon
<1>5. InUse(heap.life, s) BY <1>1, <1>3, HopInUse
<1>6. /\ Heads2(heap, heap) /\ IsHeap(heap) /\ st \in Seq(FrameSet) /\ stack' \in Seq(FrameSet)
      /\ r.k # "all" /\ q.k # "all"
  BY <1>1, <1>3 DEF Holds, Heads2, Fines, PollFrames
<1>7. w # <<>> => q \in FrameSet
  <2>1. w # <<>> => w \in Seq(Stages) /\ Tail(w) \in Seq(Stages)
    BY <1>1, <1>3 DEF PollFrames
  <2>2. q = [k |-> "poll", s |-> s, todo |-> Tail(w), hop |-> FALSE]
    BY ONLY <1>1, <1>3 DEF PollFrames
  <2> QED BY <1>5, <2>1, <2>2 DEF FrameSet, PollFrames, InUse
<1>8. ASSUME w # <<>>, ~IsClosed(heap, s), heap.prio[s] # 1, Do(Outcome(Park(heap, s), <<>>), st)
      PROVE  Fines(heap', stack')
  <2>1. heap' = Park(heap, s) /\ stack' = <<>> \o st
    BY <1>8 DEF Do, Outcome
  <2>2. KeepsAll(heap, heap')
    BY <1>3, <1>5, <1>8, <2>1, NotClosed, ParkHeads
  <2> QED BY <1>3, <2>1, <2>2, IdleFrames, FinesOn
<1>9. ASSUME NEW o \in CloseSocket(heap, s), w # <<>>, Do(o, <<q>> \o st)
      PROVE  Fines(heap', stack')
  <2>1. PICK b : b = <<q>> \o st OBVIOUS
  <2>2. b \in Seq(FrameSet) BY ONLY <1>6, <1>7, <1>9, <2>1
  <2>3. Fines(heap, b) BY ONLY <1>3, <1>6, <2>1, <2>2, FinesUnder
  <2> QED BY <1>3, <1>5, <1>9, <2>1, <2>3, ClosingFines DEF Do
<1>10. ASSUME Do(Outcome(heap, <<User>>), <<q>> \o st)
       PROVE  Fines(heap', stack')
  <2>1. stack' = <<User, q>> \o st /\ heap' = heap
    BY <1>6, <1>10 DEF Do, Outcome
  <2> QED BY <1>3, <1>6, <2>1, FinesUnder
<1>11. ASSUME NEW h \in Admitted(heap, s) \cup {heap},
              Do(Outcome(h, <<User, r>>), st) \/ Do(Outcome(h, <<r>>), st)
                \/ Do(Outcome(h, <<>>), st)
       PROVE  Fines(heap', stack')
  BY <1>6, AdmittedHeads, <1>11, <1>3, FinesUnder DEF Do, Outcome
<1>12. ASSUME Do(CloseRaw(heap, s), st)
       PROVE  Fines(heap', stack')
  BY <1>3, <1>5, <1>12, ClosingFines DEF Do
<1> QED
  BY ONLY <1>4, <1>8, <1>9, <1>10, <1>11, <1>12, Zenon DEF PollTurn

\* A close_all walks on, over the frames st, or it is done with its group.
Onward(st) ==
  \E y \in AllFrames : \E o :
    /\ Fine(heap, y) /\ o.f \in Seq(Idle) /\ KeepsAll(heap, o.h)
    /\ heap' = o.h /\ stack' = o.f \o (<<y>> \o st)
Done(f, st) ==
  heap' = heap /\ stack' = <<>> \o st /\ (f.phase # "queue" => heap.head[f.g] = Null)

LEMMA WalksOn ==
  ASSUME NEW Z, Holds(Z), CloseAllGoesOn, NEW f, f = Head(stack), NEW st, st = Tail(stack)
  PROVE  Onward(st) \/ Done(f, st)
<1>1. PICK s, g, fn, ff, fq :
        s = f.cur /\ g = f.g /\ fn = NextOf(f) /\ ff = Forced(f) /\ fq = Queued(f)
  OBVIOUS
<1>2. stack # <<>> /\ f.k = "all" BY DEF CloseAllGoesOn, At, Top
<1>3. /\ f \in AllFrames /\ Fine(heap, f) /\ Leads(heap.life, s) /\ g \in Groups
      /\ World(heap, Z) /\ IsHeap(heap)
  BY <1>1, <1>2, Resuming, FrameKinds DEF FrameOK, Holds, AllFrames
<1>4. AllTurn(f, st, s, g, fn, ff, fq)
  BY ONLY <1>1, CloseAllGoesOn, f = Head(stack), st = Tail(stack), AllTurns
<1>5. s # Null => InUse(heap.life, s) BY <1>3 DEF Leads
<1>6. s # Null => fn \in AllFrames /\ Fine(heap, fn)
  <2>1. s # Null => heap.next[s] \in Ptr BY <1>3, <1>5, NextInUse
  <2> QED BY ONLY <1>1, <1>2, <1>3, <2>1 DEF NextOf, AllFrames, Fine
<1>7. ff \in AllFrames /\ Fine(heap, ff)
  BY ONLY <1>1, <1>2, <1>3 DEF Forced, AllFrames, Fine
<1>8. heap.head[g] = Null => fq \in AllFrames /\ Fine(heap, fq)
  <2>1. heap.lowHead \in Ptr BY <1>3, LowHeadInUse
  <2> QED BY ONLY <1>1, <1>2, <1>3, <2>1 DEF Queued, AllFrames, Fine
<1>9. ASSUME NEW y \in AllFrames, Fine(heap, y), NEW x, InUse(heap.life, x), NEW o,
             o = CloseRaw(heap, x) \/ o \in CloseSocket(heap, x), Do(o, <<y>> \o st)
      PROVE  Onward(st)
  <2>1. KeepsAll(heap, o.h) /\ Leaves(heap, Z, o)
    BY <1>3, <1>9, CloseRawHeads, CloseSocketHeads, CloseRawOK, CloseSocketOK
  <2> QED BY <1>9, <2>1, LeavesIdle DEF Do, Onward
<1>10. ASSUME NEW y \in AllFrames, Fine(heap, y), NEW x \in Seq(Idle),
              Do(Outcome(heap, x), <<y>> \o st)
       PROVE  Onward(st)
  BY <1>3, HeadsKept, <1>10 DEF Heads2, Do, Outcome, Onward
<1>11. CASE s # Null /\ Do(Outcome(heap, <<User, [k |-> "semi", s |-> s]>>), <<fn>> \o st)
  <2>1. [k |-> "semi", s |-> s] \in Idle
    BY <1>5, <1>11 DEF InUse, SocketFrames, FrameSet, Idle
  <2> QED BY <1>6, <1>10, <1>11, <2>1, IdleFrames
<1>12. CASE s # Null /\ \E o \in CloseSocket(heap, s) : Do(o, <<fn>> \o st)
  BY <1>5, <1>6, <1>9, <1>12
<1>13. CASE heap.head[g] # Null /\ Do(CloseRaw(heap, heap.head[g]), <<ff>> \o st)
  BY <1>3, <1>7, <1>9, <1>13, HeadInUse DEF Leads
<1>14. CASE heap.head[g] = Null /\ Do(Outcome(heap, <<>>), <<fq>> \o st)
  BY <1>8, <1>10, <1>14, IdleFrames
<1>15. CASE s # Null /\ Do(Outcome(heap, <<>>), <<fn>> \o st)
  BY <1>6, <1>10, <1>15, IdleFrames
<1>16. CASE /\ f.phase = "walk" \/ f.phase = "force" => heap.head[g] = Null
            /\ Do(Outcome(heap, <<>>), st)
  BY <1>1, <1>3, <1>16 DEF Do, Outcome, Done, AllFrames
<1> QED
  BY ONLY <1>4, <1>11, <1>12, <1>13, <1>14, <1>15, <1>16, Zenon DEF AllTurn

LEMMA GoesOnFines ==
  ASSUME NEW Z, Holds(Z), CloseAllGoesOn
  PROVE  Fines(heap', stack')
<1>1. PICK f, st : f = Head(stack) /\ st = Tail(stack) OBVIOUS
<1>2. Fines(heap, st) /\ Heads2(heap, heap) /\ stack' \in Seq(FrameSet)
  BY <1>1, Resuming DEF CloseAllGoesOn, At, Holds, Heads2
<1>3. CASE Done(f, st) BY <1>2, <1>3, FinesUnder DEF Done
<1>4. CASE Onward(st)
  <2>1. PICK y, o :
          /\ y \in AllFrames /\ Fine(heap, y) /\ o.f \in Seq(Idle) /\ KeepsAll(heap, o.h)
          /\ heap' = o.h /\ stack' = o.f \o (<<y>> \o st)
    BY <1>4 DEF Onward
  <2>2. Fines(heap, <<y>> \o st) BY <1>2, <2>1, FinesAll DEF FrameSet
  <2> QED BY <2>1, <2>2, FinesOn
<1> QED BY <1>1, <1>3, <1>4, WalksOn

\* When a close_all is done, its group has no listener, and its list is empty unless
\* a tick was nested under it.
LEMMA Emptied ==
  ASSUME NEW Z, Holds(Z), CloseAllGoesOn, NEW g \in Groups, Finishes(g)
  PROVE  heap'.head[g] = Null /\ heap'.listen[g] = Null
<1>1. PICK f, st : f = Head(stack) /\ st = Tail(stack) OBVIOUS
<1>2. f.k = "all" /\ f.g = g /\ ~f.ticked /\ stack' = st /\ stack # <<>>
  BY <1>1 DEF Finishes, At, Top
<1>3. Fine(heap, f) /\ st \in Seq(FrameSet)
  BY <1>1, <1>2, Resuming DEF Fines
<1>4. ASSUME Onward(st) PROVE FALSE
  <2>1. PICK x \in Seq(Idle), y \in AllFrames : st = x \o (<<y>> \o st)
    BY <1>2, <1>4 DEF Onward
  <2>2. Len(st) \in Nat /\ Len(x) \in Nat /\ Len(x \o (<<y>> \o st)) = Len(x) + 1 + Len(st)
    BY ONLY <1>3, x \in Seq(Idle)
  <2> QED BY <2>1, <2>2
<1>5. Done(f, st) BY <1>1, <1>4, WalksOn
<1> QED BY <1>2, <1>3, <1>5 DEF Done, Fine

LEMMA SeekFrames ==
  ASSUME NEW h, NEW g, NEW p, NEW t, NEW o, o = Seek(h, g, p, t)
  PROVE  \E e : e.k # "all" /\ (o.f = <<e>> \/ o.f = <<User, e>>)
<1>1. CASE FirstDue(h, g, p) = {} BY <1>1 DEF Seek, Outcome, NextGroup
<1>2. CASE FirstDue(h, g, p) # {}
  <2>1. PICK s, e : /\ s = CHOOSE x \in FirstDue(h, g, p) : TRUE
                    /\ e = [k |-> "sweep", at |-> "short", g |-> g, s |-> s, ticked |-> t]
    OBVIOUS
  <2>2. o.f = <<e>> \/ o.f = <<User, e>>
    BY <1>2, <2>1, Zenon DEF Seek, Outcome
  <2> QED BY <2>1, <2>2
<1> QED BY <1>1, <1>2

LEMMA SweepFines ==
  ASSUME NEW Z, Holds(Z), SweepGoesOn
  PROVE  Fines(heap', stack')
<1>1. PICK f, st : f = Head(stack) /\ st = Tail(stack) OBVIOUS
<1>2. Fines(heap, st) /\ Heads2(heap, heap) /\ IsHeap(heap) /\ stack' \in Seq(FrameSet)
  BY <1>1, Resuming DEF SweepGoesOn, At, Holds, Heads2
<1>3. f \in SweepFrames
  BY <1>1, Resuming, FrameKinds DEF SweepGoesOn, At, Top
<1>4. PICK o :
        /\ \/ o = SweepGroup \/ o = Outcome(ClearLong(heap, f.s), <<User, [f EXCEPT !.at = "long"]>>)
           \/ \E p : o = Seek(heap, f.g, p, f.ticked)
        /\ heap' = o.h /\ stack' = o.f \o st
  BY <1>1 DEF SweepGoesOn, Top, Do, ClearLong
<1>5. ASSUME NEW h, Heads2(heap, h), NEW g, NEW p, NEW t, o = Seek(h, g, p, t)
      PROVE  Heads2(heap, o.h) /\ \E e : e.k # "all" /\ (o.f = <<e>> \/ o.f = <<User, e>>)
  BY <1>5, SeekHeads, SeekFrames DEF Heads2
<1>9. ASSUME NEW e, Heads2(heap, o.h), e.k # "all", o.f = <<e>> \/ o.f = <<User, e>>
      PROVE  Fines(heap', stack')
  <2>1. PICK c : c = stack' OBVIOUS
  <2>2. c \in Seq(FrameSet) /\ (c = <<e>> \o st \/ c = <<User, e>> \o st)
    BY <1>2, <1>4, <1>9, <2>1
  <2>3. Fines(o.h, c) BY ONLY <1>2, <1>9, <2>2, FinesUnder
  <2> QED BY <1>4, <2>1, <2>3
<1>6. CASE o = SweepGroup
  <2>1. o = Outcome(heap, <<>>) \/ \E g, p, t : o = Seek(Ticking(heap, g), g, p, t)
    BY <1>6 DEF SweepGroup, Ticking
  <2>2. \A g : Heads2(heap, Ticking(heap, g)) BY <1>2, AloofHeads
  <2> QED
    <3>1. CASE o = Outcome(heap, <<>>)
      BY <1>2, <1>4, <3>1, FinesUnder DEF Outcome
    <3>2. ASSUME NEW g, NEW p, NEW t, o = Seek(Ticking(heap, g), g, p, t)
          PROVE  Fines(heap', stack')
      <4>1. Heads2(heap, o.h) /\ \E e : e.k # "all" /\ (o.f = <<e>> \/ o.f = <<User, e>>)
        BY ONLY <1>5, <2>2, <3>2
      <4> QED BY ONLY <1>9, <4>1
    <3> QED BY <2>1, <3>1, <3>2
<1>7. CASE o = Outcome(ClearLong(heap, f.s), <<User, [f EXCEPT !.at = "long"]>>)
  <2>1. PICK e : e = [f EXCEPT !.at = "long"] OBVIOUS
  <2>2. e.k # "all" /\ Heads2(heap, o.h) /\ o.f = <<User, e>>
    BY <1>2, <1>3, <1>7, <2>1, AloofHeads DEF Outcome, SweepFrames
  <2> QED BY ONLY <1>9, <2>2
<1>8. CASE \E p : o = Seek(heap, f.g, p, f.ticked)
  BY ONLY <1>2, <1>5, <1>8, <1>9
<1> QED BY <1>4, <1>6, <1>7, <1>8

LEMMA WalkGoesOn ==
  ASSUME Next, At("all")
  PROVE  CloseAllGoesOn
<1>1. stack # <<>> /\ Top.k = "all" BY DEF At
<1>2. ~Return /\ ~EndTick /\ ~BeginTick
  BY <1>1 DEF Return, EndTick, BeginTick, At
<1>3. ~Call /\ ~Ready BY <1>1 DEF Call, Ready, At
<1>4. ~PollGoesOn /\ ~AcceptGoesOn /\ ~SslGoesOn /\ ~SemiGoesOn /\ ~SweepGoesOn
  BY <1>1 DEF PollGoesOn, AcceptGoesOn, SslGoesOn, SemiGoesOn, SweepGoesOn, At
<1>5. ~Calls /\ ~Kernel BY <1>3, Calling, Dispatching
<1> QED BY <1>2, <1>4, <1>5, Zenon DEF Next, GoesOn

Clears == ParkedTwice \/ (Settled(heap, stack) /\ Fines(heap, stack))

LEMMA ClearsStep ==
  ASSUME Clears, [Next]_vars
  PROVE  Clears'
<1>0. IInv BY DEF Clears, IInv
<1>9. ParkedTwice' \/ Settled(heap', stack')
  BY <1>0, IInvStep DEF IInv
<1> SUFFICES ASSUME ~ParkedTwice' PROVE Fines(heap', stack')
  BY <1>9 DEF Clears
<1>1. Settled(heap, stack) /\ Settled(heap', stack') /\ ~ParkedTwice
  <2>1. UNCHANGED vars => (ParkedTwice <=> ParkedTwice')
    BY DEF vars, ParkedTwice, At, Top
  <2> QED BY <1>0, <1>9, <2>1, BeforeStep, NoStep
<1>2. PICK Z : World(heap, Z) /\ StackOK(heap.life, Z, stack)
  BY <1>1 DEF Settled
<1>3. Holds(Z)
  <2>1. stack' \in Seq(FrameSet) BY <1>1 DEF Settled, StackOK
  <2> QED BY <1>1, <1>2, <2>1, WorldParts, HeapParts DEF Holds, Clears
<1>4. CASE Calls
  BY <1>3, <1>4, CloseFines, WriteFines, TimeoutFines, AdoptFines, ConnectFines, ListenFines, ListenCloseFines,
     CloseAllFines, DeinitFines DEF Calls
<1>5. CASE Kernel
  BY <1>3, <1>5, KernelFines, AcceptFines DEF Kernel, DispatchListen, Holds
<1>6. CASE GoesOn
  BY <1>3, <1>6, PollFines, AcceptGoesOnFines, SslFines, GoesOnFines, SweepFines DEF GoesOn
<1>7. CASE UNCHANGED vars BY <1>3, <1>7 DEF Holds, vars
<1>8. CASE Return \/ BeginTick \/ EndTick
  BY <1>3, <1>8, EndFines, BeginTickFines
<1> QED
  BY ONLY <1>4, <1>5, <1>6, <1>7, <1>8, [Next]_vars, Zenon DEF Next

\* us_socket_group_close_all_ex leaves no listener and no socket on its group's list,
\* whatever its callbacks did; a graceful close of a TLS socket may be put off, so
\* what the walk leaves is closed by force. Only a tick that user code nests under
\* it can bring sockets back, from the queue. (No step follows the one that parks
\* a parked socket again.)
THEOREM CloseAllEmpties == Spec => CloseAllLeavesNoSocket
<1>1. Init => Clears
  <2>1. Init => Settled(heap, stack) /\ stack = <<>>
    BY InitSettled, Zenon DEF Init
  <2>2. stack = <<>> => Fines(heap, stack) BY DEF Fines
  <2> QED BY <2>1, <2>2 DEF Clears
<1>2. Clears /\ [Next]_vars => Clears' BY ClearsStep
<1>3. Clears /\ [Next]_vars =>
        [\A g \in Groups : Finishes(g) => heap'.head[g] = Null /\ heap'.listen[g] = Null]_vars
  <2> SUFFICES ASSUME Clears, Next, NEW g \in Groups, Finishes(g)
               PROVE  heap'.head[g] = Null /\ heap'.listen[g] = Null
    OBVIOUS
  <2>1. CloseAllGoesOn /\ Settled(heap, stack) /\ Fines(heap, stack)
    BY WalkGoesOn DEF Finishes, Clears, ParkedTwice, At
  <2>2. stack' \in Seq(FrameSet)
    BY <2>1, CloseAllGoesOnStep DEF Settled, StackOK
  <2>3. PICK Z : World(heap, Z) /\ StackOK(heap.life, Z, stack)
    BY <2>1 DEF Settled
  <2>4. Holds(Z) BY <2>1, <2>2, <2>3, WorldParts, HeapParts DEF Holds
  <2> QED BY <2>1, <2>4, Emptied
<1> QED BY <1>1, <1>2, <1>3, PTL DEF Spec, CloseAllLeavesNoSocket

=============================================================================
