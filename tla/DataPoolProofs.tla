--------------------------- MODULE DataPoolProofs ---------------------------
(***************************************************************************)
(* Proofs about DataPool, for every number of owners, slots and lives and  *)
(* every width of the generation and reference counters.                   *)
(***************************************************************************)
EXTENDS DataPool, FiniteSetTheorems, SequenceTheorems, TLAPS

-----------------------------------------------------------------------------
(* Slot arrays.                                                            *)

\* Storing one slot of the array leaves the others and the length alone.
LEMMA SlotUpdate ==
  ASSUME NEW s \in Seq(Slot), NEW i \in DOMAIN s, NEW e \in Slot
  PROVE  /\ [s EXCEPT ![i] = e] \in Seq(Slot)
         /\ DOMAIN [s EXCEPT ![i] = e] = DOMAIN s
         /\ [s EXCEPT ![i] = e][i] = e
         /\ \A j \in DOMAIN s : j # i => [s EXCEPT ![i] = e][j] = s[j]
BY ExceptSeq

\* Appending a slot leaves the slots that were there alone.
LEMMA SlotAppend ==
  ASSUME NEW s \in Seq(Slot), NEW e \in Slot
  PROVE  /\ Append(s, e) \in Seq(Slot)
         /\ DOMAIN Append(s, e) = DOMAIN s \cup {Len(s) + 1}
         /\ Append(s, e)[Len(s) + 1] = e
         /\ \A j \in DOMAIN s : Append(s, e)[j] = s[j]
         /\ Len(s) + 1 \notin DOMAIN s
         /\ Len(s) + 1 \in Nat \ {0}
<1>1. DOMAIN s = 1..Len(s) /\ Len(s) \in Nat
  BY LenProperties
<1>2. /\ Append(s, e) \in Seq(Slot)
      /\ Len(Append(s, e)) = Len(s) + 1
      /\ \A j \in 1..Len(s) : Append(s, e)[j] = s[j]
      /\ Append(s, e)[Len(s) + 1] = e
  BY AppendProperties
<1>3. DOMAIN Append(s, e) = 1..(Len(s) + 1)
  BY <1>2, LenProperties
<1> QED
  BY <1>1, <1>2, <1>3

\* A slot index is a position of the array.
LEMMA SlotIndex ==
  ASSUME NEW s \in Seq(Slot), NEW i \in DOMAIN s
  PROVE  i \in Nat \ {0} /\ s[i] \in Slot
BY LenProperties, ElementOfSeq

-----------------------------------------------------------------------------
(* Counting holders.                                                       *)

\* The places that hold a reference to a slot are finitely many.
LEMMA HoldersFinite ==
  ASSUME NEW own, NEW i
  PROVE  /\ IsFiniteSet(HoldersIn(own, i))
         /\ Cardinality(HoldersIn(own, i)) \in Nat
BY FS_Subset, FS_CardinalityType, OwnerAssumption DEF HoldersIn

\* The count of the places that hold buffer i goes up with r, down with r.
Gains(own, own2, r, i) ==
  Cardinality(HoldersIn(own2, i)) =
    IF r.buffer_id = i THEN Cardinality(HoldersIn(own, i)) + 1
                       ELSE Cardinality(HoldersIn(own, i))

Loses(own, own2, r, i) ==
  Cardinality(HoldersIn(own2, i)) =
    IF r.buffer_id = i THEN Cardinality(HoldersIn(own, i)) - 1
                       ELSE Cardinality(HoldersIn(own, i))

\* A place that starts to hold a reference is counted for that slot only.
LEMMA HoldersGain ==
  ASSUME NEW own \in [Owner -> BufferRef \cup {NoRef}], NEW o \in Owner,
         own[o] = NoRef, NEW r \in BufferRef, NEW i \in Nat,
         NEW own2, own2 = [own EXCEPT ![o] = r]
  PROVE  Gains(own, own2, r, i)
<1>1. r # NoRef
  BY NoRefAssumption
<1>2. PICK S : S = HoldersIn(own, i)
  OBVIOUS
<1>3. IsFiniteSet(S) /\ Cardinality(S) \in Nat
  BY <1>2, HoldersFinite
<1>4. o \notin S
  BY <1>2 DEF HoldersIn
<1>5. CASE r.buffer_id = i
  <2>1. HoldersIn(own2, i) = S \cup {o}
    BY <1>1, <1>2, <1>5 DEF HoldersIn
  <2>2. Cardinality(S \cup {o}) = Cardinality(S) + 1
    BY <1>3, <1>4, FS_AddElement
  <2> QED
    BY <1>2, <1>5, <2>1, <2>2 DEF Gains
<1>6. CASE r.buffer_id # i
  <2>1. HoldersIn(own2, i) = S
    BY <1>2, <1>6 DEF HoldersIn
  <2> QED
    BY <1>2, <1>6, <2>1 DEF Gains
<1> QED
  BY <1>5, <1>6

\* A place that gives its reference up is no longer counted for that slot.
LEMMA HoldersLose ==
  ASSUME NEW own \in [Owner -> BufferRef \cup {NoRef}], NEW o \in Owner,
         own[o] # NoRef, NEW i \in Nat, NEW own2, own2 = [own EXCEPT ![o] = NoRef]
  PROVE  Loses(own, own2, own[o], i)
<1>1. PICK S : S = HoldersIn(own, i)
  OBVIOUS
<1>2. IsFiniteSet(S) /\ Cardinality(S) \in Nat
  BY <1>1, HoldersFinite
<1>3. HoldersIn(own2, i) = S \ {o}
  BY <1>1 DEF HoldersIn
<1>4. o \in S <=> own[o].buffer_id = i
  BY <1>1 DEF HoldersIn
<1>5. Cardinality(S \ {o}) = IF o \in S THEN Cardinality(S) - 1 ELSE Cardinality(S)
  BY <1>2, FS_RemoveElement
<1> QED
  BY <1>1, <1>3, <1>4, <1>5 DEF Loses

-----------------------------------------------------------------------------
(* Lives and generations.                                                  *)

\* Bumping the generation, with the wrap past zero, numbers the next life.
LEMMA LapsNext ==
  ASSUME NEW life \in Nat, NEW g \in 1..MaxU32, Laps(life, g)
  PROVE  /\ NextGeneration(g) \in 1..MaxU32
         /\ Laps(life + 1, NextGeneration(g))
<1>1. PICK k \in 0..life : life = k * MaxU32 + g - 1
  BY DEF Laps
<1>2. CASE g = MaxU32
  <2>1. (k + 1) * MaxU32 = k * MaxU32 + MaxU32
    BY NumberAssumption
  <2>2. life + 1 = (k + 1) * MaxU32 + 1 - 1
    BY <1>1, <1>2, <2>1, NumberAssumption
  <2>3. k + 1 \in 0..(life + 1)
    OBVIOUS
  <2> QED
    BY <1>2, <2>2, <2>3, NumberAssumption DEF Laps, NextGeneration
<1>3. CASE g # MaxU32
  <2>1. life + 1 = k * MaxU32 + (g + 1) - 1
    BY <1>1, NumberAssumption
  <2>2. k \in 0..(life + 1)
    OBVIOUS
  <2> QED
    BY <1>3, <2>1, <2>2, NumberAssumption DEF Laps, NextGeneration
<1> QED
  BY <1>2, <1>3

\* Two lives numbered by one generation are at least a whole lap apart.
LEMMA LapsApart ==
  ASSUME NEW a \in Nat, NEW b \in Nat, NEW g \in 1..MaxU32,
         Laps(a, g), Laps(b, g), a < b
  PROVE  b - a >= MaxU32
<1>1. PICK k \in 0..a : a = k * MaxU32 + g - 1
  BY DEF Laps
<1>2. PICK m \in 0..b : b = m * MaxU32 + g - 1
  BY DEF Laps
<1>3. b - a = (m - k) * MaxU32
  BY <1>1, <1>2, NumberAssumption
<1>4. m - k >= 1
  BY <1>3, NumberAssumption
<1>5. \A n \in Nat : n >= 1 => n * MaxU32 >= MaxU32
  BY NumberAssumption
<1> QED
  BY <1>3, <1>4, <1>5, NumberAssumption

\* getSlot turns away a copy whose buffer ended within the window.
LEMMA StaleIsTurnedAway ==
  ASSUME TypeOK, GenerationCountsLives, NEW ref \in issued, Stale(ref)
  PROVE  ~Resolves(slots, ref)
<1>1. /\ ref \in BufferRef
      /\ ref.buffer_id \in DOMAIN slots
      /\ slots[ref.buffer_id] \in Slot
  BY SlotIndex DEF TypeOK, GenerationCountsLives
<1>2. SUFFICES ASSUME slots[ref.buffer_id].generation = ref.generation
               PROVE  FALSE
  BY DEF Resolves
<1>3. /\ Laps(ref.life, ref.generation)
      /\ Laps(slots[ref.buffer_id].life, ref.generation)
  BY <1>1, <1>2 DEF GenerationCountsLives
<1>4. slots[ref.buffer_id].life - ref.life >= MaxU32
  BY <1>1, <1>3, LapsApart DEF Stale, Ended, BufferRef, Slot
<1> QED
  BY <1>1, <1>4, WindowAssumption, NumberAssumption
  DEF Stale, Ended, BufferRef, Slot

-----------------------------------------------------------------------------
(* The inductive invariant, one lemma per kind of step.                    *)

\* Slots handed out by allocate are well formed.
LEMMA SlotShapes ==
  ASSUME NEW len \in Nat, NEW slot \in Slot
  PROVE  /\ NewSlot(len) \in Slot
         /\ UsedSlot(slot, len) \in Slot
         /\ slot.refs # MaxU32 => SharedSlot(slot) \in Slot
         /\ slot.refs # 0 => DroppedSlot(slot) \in Slot
         /\ FreedSlot(slot) \in Slot
BY NumberAssumption
   DEF NewSlot, UsedSlot, SharedSlot, DroppedSlot, FreedSlot, NextGeneration, Slot

\* allocate keeps the invariant when it takes a slot that has no owner.
LEMMA IssueKeeps ==
  ASSUME IInv, NEW o \in Owner, owned[o] = NoRef,
         NEW len \in Nat, NEW i \in Nat \ {0}, NEW s \in Seq(Slot),
         DOMAIN slots \cup {i} = DOMAIN s,
         \A j \in DOMAIN slots : j # i => s[j] = slots[j],
         s[i].bytes = len, s[i].refs = 1,
         Laps(s[i].life, s[i].generation),
         i \in DOMAIN slots => s[i].life = slots[i].life,
         \A p \in Owner : owned[p] # NoRef => owned[p].buffer_id # i,
         Issue(o, i, s, len)
  PROVE  IInv'
<1> DEFINE r == makeRef(i, s, len)
<1>1. s[i] \in Slot /\ r \in BufferRef /\ r # NoRef
  <2>1. s[i] \in Slot
    BY SlotIndex
  <2>2. r \in BufferRef
    BY <2>1 DEF makeRef, BufferRef, Slot
  <2> QED
    BY <2>1, <2>2, NoRefAssumption
<1>2. /\ slots' = s
      /\ owned' = [owned EXCEPT ![o] = r]
      /\ mapped' = mapped
      /\ issued' = issued \cup {r}
  BY DEF Issue
<1>3. TypeOK'
  BY <1>1, <1>2 DEF IInv, TypeOK
<1>4. /\ r.buffer_id = i
      /\ r.life = s[i].life
      /\ r.generation = s[i].generation
      /\ r.length = len
  BY DEF makeRef
<1> HIDE DEF r
<1>5. owned \in [Owner -> BufferRef \cup {NoRef}]
  BY DEF IInv, TypeOK
<1>6. RefsCountOwners'
  <2> SUFFICES ASSUME NEW j \in DOMAIN s
               PROVE  /\ s[j].refs = Cardinality(HoldersIn(owned', j))
                      /\ s[j].bytes # Null <=> s[j].refs > 0
    BY <1>2 DEF RefsCountOwners
  <2>1. Cardinality(HoldersIn(owned', j)) =
          IF i = j THEN Cardinality(HoldersIn(owned, j)) + 1
                   ELSE Cardinality(HoldersIn(owned, j))
    <3>1. Cardinality(HoldersIn([owned EXCEPT ![o] = r], j)) =
            IF r.buffer_id = j THEN Cardinality(HoldersIn(owned, j)) + 1
                               ELSE Cardinality(HoldersIn(owned, j))
      <4>1. j \in Nat
        BY SlotIndex
      <4>2. PICK own2 : own2 = [owned EXCEPT ![o] = r]
        OBVIOUS
      <4>3. Gains(owned, own2, r, j)
        BY <1>1, <1>5, <4>1, <4>2, HoldersGain
      <4> QED
        BY <4>2, <4>3 DEF Gains
    <3> QED
      BY <1>2, <1>4, <3>1
  <2>2. CASE j = i
    <3>1. HoldersIn(owned, i) = {}
      BY DEF HoldersIn
    <3>2. Cardinality(HoldersIn(owned', j)) = 1
      BY <2>1, <2>2, <3>1, FS_EmptySet
    <3> QED
      BY <2>2, <3>2, NullAssumption
  <2>3. CASE j # i
    BY <2>1, <2>3 DEF IInv, RefsCountOwners
  <2> QED
    BY <2>2, <2>3
<1>7. OwnersResolve'
  <2> SUFFICES ASSUME NEW p \in Owner, owned'[p] # NoRef
               PROVE  /\ Resolves(s, owned'[p])
                      /\ owned'[p].life = s[owned'[p].buffer_id].life
    BY <1>2 DEF OwnersResolve
  <2>1. CASE p = o
    BY <1>1, <1>2, <1>4, <1>5, <2>1, NullAssumption DEF Resolves
  <2>2. CASE p # o
    BY <1>2, <1>5, <2>2 DEF IInv, OwnersResolve, Resolves
  <2> QED
    BY <2>1, <2>2
<1>8. GenerationCountsLives'
  <2>1. \A j \in DOMAIN s : Laps(s[j].life, s[j].generation)
    BY DEF IInv, GenerationCountsLives
  <2>2. \A ref \in issued : /\ ref.buffer_id \in DOMAIN s
                            /\ Laps(ref.life, ref.generation)
                            /\ ref.life <= s[ref.buffer_id].life
    BY DEF IInv, GenerationCountsLives
  <2>3. r.buffer_id \in DOMAIN s /\ r.life <= s[r.buffer_id].life
    BY <1>1, <1>4 DEF Slot
  <2> QED
    BY <1>2, <1>4, <2>1, <2>2, <2>3 DEF GenerationCountsLives
<1>9. WindowsFit'
  <2> SUFFICES ASSUME NEW p \in Owner
               PROVE  /\ owned'[p] # NoRef =>
                           owned'[p].length <= s[owned'[p].buffer_id].bytes
                      /\ mapped[p] # NoRef =>
                           /\ owned'[p] # NoRef
                           /\ mapped[p].buffer_id = owned'[p].buffer_id
                           /\ mapped[p].life = owned'[p].life
                           /\ mapped[p].length <= s[owned'[p].buffer_id].bytes
    BY <1>2 DEF WindowsFit
  <2>1. CASE p = o
    <3>1. mapped[p] = NoRef
      BY <2>1 DEF IInv, WindowsFit
    <3> QED
      BY <1>2, <1>4, <1>5, <2>1, <3>1
  <2>2. CASE p # o
    <3>1. owned'[p] = owned[p]
      BY <1>2, <1>5, <2>2
    <3> QED
      BY <3>1 DEF IInv, WindowsFit, OwnersResolve, Resolves
  <2> QED
    BY <2>1, <2>2
<1> QED
  BY <1>3, <1>6, <1>7, <1>8, <1>9 DEF IInv

\* Every step of an owner, and every stutter, keeps the invariant.
LEMMA AllocateReuseKeeps ==
  ASSUME IInv, NEW o \in Owner, NEW len \in Length, AllocateReuse(o, len)
  PROVE  IInv'
<1>1. PICK i \in DOMAIN slots :
        /\ IsFirstFree(slots, i)
        /\ Issue(o, i, [slots EXCEPT ![i] = UsedSlot(@, len)], len)
  BY DEF AllocateReuse
<1> DEFINE s == [slots EXCEPT ![i] = UsedSlot(slots[i], len)]
<1>2. slots \in Seq(Slot) /\ slots[i] \in Slot /\ i \in Nat \ {0} /\ len \in Nat
  BY SlotIndex, LengthAssumption DEF IInv, TypeOK
<1>3. UsedSlot(slots[i], len) \in Slot
  BY <1>2, SlotShapes
<1>4. /\ s \in Seq(Slot)
      /\ DOMAIN s = DOMAIN slots
      /\ s[i] = UsedSlot(slots[i], len)
      /\ \A j \in DOMAIN slots : j # i => s[j] = slots[j]
  BY <1>2, <1>3, SlotUpdate
<1>5. Issue(o, i, s, len)
  BY <1>1
<1> HIDE DEF s
<1>6. /\ s[i].bytes = len /\ s[i].refs = 1
      /\ s[i].life = slots[i].life /\ s[i].generation = slots[i].generation
  BY <1>4 DEF UsedSlot
<1>7. Laps(s[i].life, s[i].generation)
  BY <1>6 DEF IInv, GenerationCountsLives
<1>8. \A p \in Owner : owned[p] # NoRef => owned[p].buffer_id # i
  BY <1>1 DEF IInv, OwnersResolve, Resolves, IsFirstFree
<1>9. owned[o] = NoRef
  BY DEF AllocateReuse
<1>10. DOMAIN slots \cup {i} = DOMAIN s
  BY <1>4
<1>11. i \in DOMAIN slots => s[i].life = slots[i].life
  BY <1>6
<1> QED
  BY <1>2, <1>4, <1>5, <1>6, <1>7, <1>8, <1>9, <1>10, <1>11, IssueKeeps, Zenon

\* allocate by appending a slot keeps the invariant.
LEMMA AllocateAppendKeeps ==
  ASSUME IInv, NEW o \in Owner, NEW len \in Length, AllocateAppend(o, len)
  PROVE  IInv'
<1> DEFINE i == Len(slots) + 1
           s == Append(slots, NewSlot(len))
<1>1. slots \in Seq(Slot) /\ len \in Nat
  BY LengthAssumption DEF IInv, TypeOK
<1>2. NewSlot(len) \in Slot
  BY <1>1, NumberAssumption DEF NewSlot, Slot
<1>3. /\ s \in Seq(Slot)
      /\ DOMAIN s = DOMAIN slots \cup {i}
      /\ s[i] = NewSlot(len)
      /\ \A j \in DOMAIN slots : s[j] = slots[j]
      /\ i \notin DOMAIN slots
      /\ i \in Nat \ {0}
  BY <1>1, <1>2, SlotAppend
<1>4. Issue(o, i, s, len) /\ owned[o] = NoRef
  BY DEF AllocateAppend
<1> HIDE DEF i, s
<1>5. s[i].bytes = len /\ s[i].refs = 1 /\ s[i].life = 0 /\ s[i].generation = 1
  BY <1>3 DEF NewSlot
<1>6. Laps(s[i].life, s[i].generation)
  <2>1. 0 = 0 * MaxU32 + 1 - 1 /\ 0 \in 0..0
    BY NumberAssumption
  <2> QED
    BY <1>5, <2>1 DEF Laps
<1>7. \A p \in Owner : owned[p] # NoRef => owned[p].buffer_id # i
  BY <1>3 DEF IInv, OwnersResolve, Resolves
<1>8. /\ DOMAIN slots \cup {i} = DOMAIN s
      /\ i \in DOMAIN slots => s[i].life = slots[i].life
      /\ \A j \in DOMAIN slots : j # i => s[j] = slots[j]
  BY <1>3
<1> QED
  BY <1>1, <1>3, <1>4, <1>5, <1>6, <1>7, <1>8, IssueKeeps, Zenon

\* A step that changes only the reference count of a slot, together with the
\* one place that starts or stops holding it, keeps the invariant.
LEMMA CountedKeeps ==
  ASSUME IInv, NEW i \in DOMAIN slots, NEW e \in Slot,
         slots' = [slots EXCEPT ![i] = e],
         e.bytes = slots[i].bytes, e.generation = slots[i].generation,
         e.life = slots[i].life, e.refs > 0,
         owned' \in [Owner -> BufferRef \cup {NoRef}],
         mapped' \in [Owner -> BufferRef \cup {NoRef}],
         e.refs = Cardinality(HoldersIn(owned', i)),
         \A j \in DOMAIN slots : j # i =>
           Cardinality(HoldersIn(owned', j)) = Cardinality(HoldersIn(owned, j)),
         \A p \in Owner : owned'[p] # NoRef => \E q \in Owner : owned'[p] = owned[q],
         \A p \in Owner : mapped'[p] # NoRef =>
           mapped'[p] = mapped[p] /\ owned'[p] = owned[p],
         issued' = issued
  PROVE  IInv'
<1>1. /\ slots \in Seq(Slot)
      /\ slots[i] \in Slot
  BY SlotIndex DEF IInv, TypeOK
<1>2. /\ slots' \in Seq(Slot)
      /\ DOMAIN slots' = DOMAIN slots
      /\ slots'[i] = e
      /\ \A j \in DOMAIN slots : j # i => slots'[j] = slots[j]
  BY <1>1, SlotUpdate
<1>3. \A j \in DOMAIN slots : /\ slots'[j].bytes = slots[j].bytes
                              /\ slots'[j].generation = slots[j].generation
                              /\ slots'[j].life = slots[j].life
  BY <1>2
<1>4. TypeOK'
  BY <1>2 DEF IInv, TypeOK
<1>5. RefsCountOwners'
  <2> SUFFICES ASSUME NEW j \in DOMAIN slots
               PROVE  /\ slots'[j].refs = Cardinality(HoldersIn(owned', j))
                      /\ slots'[j].bytes # Null <=> slots'[j].refs > 0
    BY <1>2 DEF RefsCountOwners
  <2>1. CASE j = i
    <3>1. Cardinality(HoldersIn(owned', i)) = e.refs
      OBVIOUS
    <3>2. slots[i].bytes # Null
      <4>1. PICK p \in Owner : owned'[p] # NoRef /\ owned'[p].buffer_id = i
        <5>1. HoldersIn(owned', i) # {}
          BY <3>1, FS_EmptySet DEF Slot
        <5> QED
          BY <5>1 DEF HoldersIn
      <4>2. PICK q \in Owner : owned'[p] = owned[q]
        BY <4>1
      <4> QED
        BY <4>1, <4>2 DEF IInv, OwnersResolve, Resolves
    <3> QED
      BY <1>2, <2>1, <3>1, <3>2
  <2>2. CASE j # i
    BY <1>2, <2>2 DEF IInv, RefsCountOwners
  <2> QED
    BY <2>1, <2>2
<1>6. OwnersResolve'
  BY <1>2, <1>3 DEF IInv, OwnersResolve, Resolves
<1>7. GenerationCountsLives'
  BY <1>2, <1>3 DEF IInv, GenerationCountsLives
<1>8. WindowsFit'
  <2> SUFFICES ASSUME NEW p \in Owner
               PROVE  /\ owned'[p] # NoRef =>
                           owned'[p].length <= slots'[owned'[p].buffer_id].bytes
                      /\ mapped'[p] # NoRef =>
                           /\ owned'[p] # NoRef
                           /\ mapped'[p].buffer_id = owned'[p].buffer_id
                           /\ mapped'[p].life = owned'[p].life
                           /\ mapped'[p].length <= slots'[owned'[p].buffer_id].bytes
    BY DEF WindowsFit
  <2>1. owned'[p] # NoRef =>
          owned'[p].length <= slots'[owned'[p].buffer_id].bytes
    BY <1>3 DEF IInv, WindowsFit, OwnersResolve, Resolves
  <2>2. mapped'[p] # NoRef => owned[p] # NoRef /\ owned[p].buffer_id \in DOMAIN slots
    BY DEF IInv, WindowsFit, OwnersResolve, Resolves
  <2> QED
    BY <1>3, <2>1, <2>2 DEF IInv, WindowsFit
<1> QED
  BY <1>4, <1>5, <1>6, <1>7, <1>8 DEF IInv

\* retain keeps the invariant.
LEMMA RetainKeeps ==
  ASSUME IInv, NEW o \in Owner, NEW p \in Owner, Retain(o, p)
  PROVE  IInv'
<1>1. CASE ~CanRetain(slots, owned[o])
  <2>1. UNCHANGED vars
    BY <1>1 DEF Retain, Retained, vars
  <2> QED
    BY <2>1 DEF IInv, TypeOK, RefsCountOwners, OwnersResolve,
                GenerationCountsLives, WindowsFit, vars
<1>2. CASE CanRetain(slots, owned[o])
  <2> DEFINE i == owned[o].buffer_id
             e == SharedSlot(slots[i])
  <2>1. /\ owned \in [Owner -> BufferRef \cup {NoRef}]
        /\ owned[o] \in BufferRef
        /\ i \in DOMAIN slots
        /\ slots[i] \in Slot
    BY <1>2, SlotIndex DEF IInv, TypeOK, Retain, CanRetain, Resolves
  <2>2. /\ e \in Slot
        /\ e.bytes = slots[i].bytes /\ e.generation = slots[i].generation
        /\ e.life = slots[i].life /\ e.refs = slots[i].refs + 1 /\ e.refs > 0
    BY <1>2, <2>1, NumberAssumption DEF SharedSlot, CanRetain, Slot
  <2>3. /\ slots' = [slots EXCEPT ![i] = e]
        /\ owned' = [owned EXCEPT ![p] = owned[o]]
        /\ mapped' = mapped
        /\ issued' = issued
        /\ owned[p] = NoRef /\ owned[o] # NoRef
    BY <1>2 DEF Retain, Retained
  <2>4. \A j \in DOMAIN slots : Cardinality(HoldersIn(owned', j)) =
          IF i = j THEN Cardinality(HoldersIn(owned, j)) + 1
                   ELSE Cardinality(HoldersIn(owned, j))
    <3> SUFFICES ASSUME NEW j \in DOMAIN slots
                 PROVE  Cardinality(HoldersIn([owned EXCEPT ![p] = owned[o]], j)) =
                          IF owned[o].buffer_id = j
                          THEN Cardinality(HoldersIn(owned, j)) + 1
                          ELSE Cardinality(HoldersIn(owned, j))
      BY <2>3
    <3>1. j \in Nat
      BY SlotIndex DEF IInv, TypeOK
    <3> QED
      <4>1. PICK own2 : own2 = [owned EXCEPT ![p] = owned[o]]
        OBVIOUS
      <4>2. PICK r \in BufferRef : r = owned[o]
        BY <2>1
      <4>3. Gains(owned, own2, r, j)
        BY <2>1, <2>3, <3>1, <4>1, <4>2, HoldersGain
      <4> QED
        BY <4>1, <4>2, <4>3 DEF Gains
  <2> HIDE DEF i, e
  <2>5. e.refs = Cardinality(HoldersIn(owned', i))
    BY <2>1, <2>2, <2>4 DEF IInv, RefsCountOwners
  <2>6. \A j \in DOMAIN slots : j # i =>
          Cardinality(HoldersIn(owned', j)) = Cardinality(HoldersIn(owned, j))
    BY <2>4
  <2>7. \A q \in Owner : owned'[q] # NoRef => \E r \in Owner : owned'[q] = owned[r]
    BY <2>1, <2>3
  <2>8. \A q \in Owner : mapped'[q] # NoRef =>
          mapped'[q] = mapped[q] /\ owned'[q] = owned[q]
    <3>1. mapped[p] = NoRef
      BY <2>3 DEF IInv, WindowsFit
    <3> QED
      BY <2>1, <2>3, <3>1
  <2>9. /\ owned' \in [Owner -> BufferRef \cup {NoRef}]
        /\ mapped' \in [Owner -> BufferRef \cup {NoRef}]
    BY <2>1, <2>3 DEF IInv, TypeOK
  <2> QED
    BY <2>1, <2>2, <2>3, <2>5, <2>6, <2>7, <2>8, <2>9, CountedKeeps, Zenon
<1> QED
  BY <1>1, <1>2

\* Dropping one of several references leaves a referenced slot.
LEMMA DroppedShape ==
  ASSUME NEW slot \in Slot, slot.refs \in 2..MaxU32
  PROVE  /\ DroppedSlot(slot) \in Slot
         /\ DroppedSlot(slot).bytes = slot.bytes
         /\ DroppedSlot(slot).generation = slot.generation
         /\ DroppedSlot(slot).life = slot.life
         /\ DroppedSlot(slot).refs = slot.refs - 1
         /\ DroppedSlot(slot).refs > 0
BY NumberAssumption DEF DroppedSlot, Slot

\* release keeps the invariant: a count above one drops by one, and the last
\* owner takes the storage with it.
LEMMA ReleaseKeeps ==
  ASSUME IInv, NEW o \in Owner, Release(o)
  PROVE  IInv'
<1> DEFINE i == owned[o].buffer_id
<1>1. /\ slots \in Seq(Slot)
      /\ owned \in [Owner -> BufferRef \cup {NoRef}]
      /\ mapped \in [Owner -> BufferRef \cup {NoRef}]
      /\ owned[o] # NoRef
      /\ i \in DOMAIN slots
      /\ Resolves(slots, owned[o])
      /\ slots[i] \in Slot
      /\ i \in Nat
  BY SlotIndex DEF IInv, TypeOK, Release, OwnersResolve, Resolves
<1>2. /\ slots' = Released(slots, owned[o])
      /\ owned' = [owned EXCEPT ![o] = NoRef]
      /\ mapped' = [mapped EXCEPT ![o] = NoRef]
      /\ issued' = issued
  BY DEF Release
<1>3. /\ owned' \in [Owner -> BufferRef \cup {NoRef}]
      /\ mapped' \in [Owner -> BufferRef \cup {NoRef}]
  BY <1>1, <1>2
<1>4. \A j \in DOMAIN slots : Cardinality(HoldersIn(owned', j)) =
        IF i = j THEN Cardinality(HoldersIn(owned, j)) - 1
                 ELSE Cardinality(HoldersIn(owned, j))
  <2> SUFFICES ASSUME NEW j \in DOMAIN slots
               PROVE  Cardinality(HoldersIn([owned EXCEPT ![o] = NoRef], j)) =
                        IF owned[o].buffer_id = j
                        THEN Cardinality(HoldersIn(owned, j)) - 1
                        ELSE Cardinality(HoldersIn(owned, j))
    BY <1>2
  <2>1. j \in Nat
    BY <1>1, SlotIndex
  <2>2. PICK own2 : own2 = [owned EXCEPT ![o] = NoRef]
    OBVIOUS
  <2>3. owned \in [Owner -> BufferRef \cup {NoRef}] /\ owned[o] # NoRef
    BY <1>1 DEF IInv, TypeOK
  <2>4. Loses(owned, own2, owned[o], j)
    BY <2>1, <2>2, <2>3, HoldersLose
  <2> QED
    BY <2>2, <2>4 DEF Loses
<1>5. /\ slots[i].refs = Cardinality(HoldersIn(owned, i))
      /\ slots[i].refs > 0
  BY <1>1 DEF IInv, RefsCountOwners, Resolves
<1>6. CASE slots[i].refs # 1
  <2> DEFINE e == DroppedSlot(slots[i])
  <2>1. slots' = [slots EXCEPT ![i] = e]
    BY <1>1, <1>2, <1>5, <1>6 DEF Released
  <2>2. /\ e \in Slot
        /\ e.bytes = slots[i].bytes /\ e.generation = slots[i].generation
        /\ e.life = slots[i].life /\ e.refs = slots[i].refs - 1 /\ e.refs > 0
    <3>1. slots[i].refs \in 2..MaxU32
      <4>1. slots[i].refs \in 0..MaxU32
        BY <1>1 DEF Slot
      <4> QED
        BY <1>5, <1>6, <4>1, NumberAssumption
    <3> QED
      BY <1>1, <3>1, DroppedShape
  <2> HIDE DEF e, i
  <2>3. e.refs = Cardinality(HoldersIn(owned', i))
    BY <1>1, <1>4, <1>5, <2>2
  <2>4. \A j \in DOMAIN slots : j # i =>
          Cardinality(HoldersIn(owned', j)) = Cardinality(HoldersIn(owned, j))
    BY <1>4
  <2>5. \A q \in Owner : owned'[q] # NoRef => \E r \in Owner : owned'[q] = owned[r]
    BY <1>1, <1>2
  <2>6. \A q \in Owner : mapped'[q] # NoRef =>
          mapped'[q] = mapped[q] /\ owned'[q] = owned[q]
    BY <1>1, <1>2
  <2> QED
    BY <1>1, <1>2, <1>3, <2>1, <2>2, <2>3, <2>4, <2>5, <2>6, CountedKeeps, Zenon
<1>7. CASE slots[i].refs = 1
  <2> DEFINE e == FreedSlot(slots[i])
  <2>1. slots' = [slots EXCEPT ![i] = e]
    BY <1>1, <1>2, <1>5, <1>7 DEF Released
  <2>2. Laps(slots[i].life, slots[i].generation)
    BY <1>1 DEF IInv, GenerationCountsLives
  <2>3. /\ e \in Slot
        /\ e.bytes = Null /\ e.refs = 0 /\ e.life = slots[i].life + 1
        /\ Laps(e.life, e.generation)
    <3>1. slots[i].life \in Nat /\ slots[i].generation \in 1..MaxU32
      BY <1>1 DEF Slot
    <3>2. PICK n \in Nat : n = slots[i].life
      BY <3>1
    <3>3. PICK g \in 1..MaxU32 : g = slots[i].generation
      BY <3>1
    <3>4. NextGeneration(g) \in 1..MaxU32 /\ Laps(n + 1, NextGeneration(g))
      BY <2>2, <3>2, <3>3, LapsNext
    <3>5. e = [bytes |-> Null, generation |-> NextGeneration(g), refs |-> 0, life |-> n + 1]
      BY <3>2, <3>3, Zenon DEF FreedSlot
    <3>6. n + 1 \in Nat /\ 0 \in 0..MaxU32
      BY NumberAssumption
    <3> QED
      BY <3>2, <3>4, <3>5, <3>6 DEF Slot
  <2>4. /\ slots' \in Seq(Slot)
        /\ DOMAIN slots' = DOMAIN slots
        /\ slots'[i] = e
        /\ \A j \in DOMAIN slots : j # i => slots'[j] = slots[j]
    BY <1>1, <2>1, <2>3, SlotUpdate
  <2>5. \A p \in Owner : p # o /\ owned[p] # NoRef => owned[p].buffer_id # i
    <3>1. PICK x : HoldersIn(owned, i) = {x}
      BY <1>5, <1>7, FS_Singleton, HoldersFinite
    <3>2. o \in HoldersIn(owned, i)
      BY <1>1 DEF HoldersIn
    <3>3. \A p \in HoldersIn(owned, i) : p = o
      BY <3>1, <3>2
    <3> QED
      BY <3>3 DEF HoldersIn
  <2> HIDE DEF e, i
  <2>6. TypeOK'
    BY <1>1, <1>2, <1>3, <2>4 DEF IInv, TypeOK
  <2>7. RefsCountOwners'
    <3> SUFFICES ASSUME NEW j \in DOMAIN slots
                 PROVE  /\ slots'[j].refs = Cardinality(HoldersIn(owned', j))
                        /\ slots'[j].bytes # Null <=> slots'[j].refs > 0
      BY <2>4 DEF RefsCountOwners
    <3>1. CASE j = i
      <4>1. Cardinality(HoldersIn(owned', i)) = 0
        <5>1. Cardinality(HoldersIn(owned', i)) = Cardinality(HoldersIn(owned, i)) - 1
          BY <1>1, <1>4
        <5>2. Cardinality(HoldersIn(owned, i)) = 1
          BY <1>5, <1>7
        <5> QED
          BY <5>1, <5>2
      <4> QED
        BY <2>3, <2>4, <3>1, <4>1
    <3>2. CASE j # i
      BY <1>4, <2>4, <3>2 DEF IInv, RefsCountOwners
    <3> QED
      BY <3>1, <3>2
  <2>8. OwnersResolve'
    BY <1>1, <1>2, <2>4, <2>5 DEF IInv, OwnersResolve, Resolves
  <2>9. GenerationCountsLives'
    <3>1. \A j \in DOMAIN slots' : Laps(slots'[j].life, slots'[j].generation)
      BY <2>3, <2>4 DEF IInv, GenerationCountsLives
    <3>2. ASSUME NEW ref \in issued
          PROVE  /\ ref.buffer_id \in DOMAIN slots'
                 /\ Laps(ref.life, ref.generation)
                 /\ ref.life <= slots'[ref.buffer_id].life
      <4>1. /\ ref.buffer_id \in DOMAIN slots
            /\ Laps(ref.life, ref.generation)
            /\ ref.life <= slots[ref.buffer_id].life
            /\ ref.life \in Nat
        BY DEF IInv, GenerationCountsLives, TypeOK, BufferRef
      <4>2. slots[i].life \in Nat
        BY <1>1 DEF Slot
      <4> QED
        BY <2>3, <2>4, <4>1, <4>2
    <3> QED
      BY <1>2, <3>1, <3>2 DEF GenerationCountsLives
  <2>10. WindowsFit'
    <3> SUFFICES ASSUME NEW p \in Owner
                 PROVE  /\ owned'[p] # NoRef =>
                             owned'[p].length <= slots'[owned'[p].buffer_id].bytes
                        /\ mapped'[p] # NoRef =>
                             /\ owned'[p] # NoRef
                             /\ mapped'[p].buffer_id = owned'[p].buffer_id
                             /\ mapped'[p].life = owned'[p].life
                             /\ mapped'[p].length <= slots'[owned'[p].buffer_id].bytes
      BY DEF WindowsFit
    <3>1. CASE p = o
      BY <1>1, <1>2, <3>1
    <3>2. CASE p # o
      <4>1. owned'[p] = owned[p] /\ mapped'[p] = mapped[p]
        BY <1>1, <1>2, <3>2
      <4>2. owned[p] # NoRef => slots'[owned[p].buffer_id] = slots[owned[p].buffer_id]
        BY <2>4, <2>5, <3>2 DEF IInv, OwnersResolve, Resolves
      <4> QED
        BY <4>1, <4>2 DEF IInv, WindowsFit
    <3> QED
      BY <3>1, <3>2
  <2> QED
    BY <2>6, <2>7, <2>8, <2>9, <2>10 DEF IInv
<1> QED
  BY <1>6, <1>7

\* Moving a reference through a message keeps the invariant.
LEMMA TransferKeeps ==
  ASSUME IInv, NEW o \in Owner, NEW p \in Owner, Transfer(o, p)
  PROVE  IInv'
<1> DEFINE mid == [owned EXCEPT ![o] = NoRef]
<1>1. /\ owned \in [Owner -> BufferRef \cup {NoRef}]
      /\ mapped \in [Owner -> BufferRef \cup {NoRef}]
      /\ owned[o] # NoRef /\ owned[o] \in BufferRef
      /\ owned[p] = NoRef
      /\ p # o
      /\ slots' = slots /\ issued' = issued
      /\ mapped' = [mapped EXCEPT ![o] = NoRef]
  BY DEF IInv, TypeOK, Transfer
<1>2. /\ mid \in [Owner -> BufferRef \cup {NoRef}]
      /\ mid[p] = NoRef
      /\ owned' = [mid EXCEPT ![p] = owned[o]]
  BY <1>1 DEF Transfer
<1>3. owned'[o] = NoRef /\ owned'[p] = owned[o]
  BY <1>1, <1>2
<1>4. \A q \in Owner : q # o /\ q # p => owned'[q] = owned[q]
  BY <1>1, <1>2
<1>5. ASSUME NEW j \in DOMAIN slots
      PROVE  Cardinality(HoldersIn(owned', j)) = Cardinality(HoldersIn(owned, j))
  <2>1. j \in Nat
    BY SlotIndex DEF IInv, TypeOK
  <2>2. Cardinality(HoldersIn(mid, j)) =
          IF owned[o].buffer_id = j THEN Cardinality(HoldersIn(owned, j)) - 1
                                    ELSE Cardinality(HoldersIn(owned, j))
    <3>1. PICK own2 : own2 = [owned EXCEPT ![o] = NoRef]
      OBVIOUS
    <3>2. Loses(owned, own2, owned[o], j)
      BY <1>1, <2>1, <3>1, HoldersLose
    <3> QED
      BY <3>1, <3>2 DEF Loses
  <2> HIDE DEF mid
  <2>3. Cardinality(HoldersIn([mid EXCEPT ![p] = owned[o]], j)) =
          IF owned[o].buffer_id = j THEN Cardinality(HoldersIn(mid, j)) + 1
                                    ELSE Cardinality(HoldersIn(mid, j))
    <3>1. PICK own2 : own2 = [mid EXCEPT ![p] = owned[o]]
      OBVIOUS
    <3>2. PICK r \in BufferRef : r = owned[o]
      BY <1>1
    <3>3. Gains(mid, own2, r, j)
      BY <1>2, <2>1, <3>1, <3>2, HoldersGain
    <3> QED
      BY <3>1, <3>2, <3>3 DEF Gains
  <2>4. /\ Cardinality(HoldersIn(owned, j)) \in Nat
        /\ Cardinality(HoldersIn(mid, j)) \in Nat
    BY HoldersFinite
  <2> QED
    BY <1>2, <2>2, <2>3, <2>4
<1>6. TypeOK'
  BY <1>1, <1>2 DEF IInv, TypeOK
<1>7. RefsCountOwners'
  BY <1>1, <1>5 DEF IInv, RefsCountOwners
<1>8. OwnersResolve'
  BY <1>1, <1>3, <1>4 DEF IInv, OwnersResolve, Resolves
<1>9. GenerationCountsLives'
  BY <1>1 DEF IInv, GenerationCountsLives
<1>10. WindowsFit'
  <2>1. mapped[p] = NoRef
    BY <1>1 DEF IInv, WindowsFit
  <2>2. mapped'[o] = NoRef /\ \A q \in Owner : q # o => mapped'[q] = mapped[q]
    BY <1>1
  <2> QED
    BY <1>1, <1>3, <1>4, <2>1, <2>2 DEF IInv, WindowsFit
<1> QED
  BY <1>6, <1>7, <1>8, <1>9, <1>10 DEF IInv

\* Describing less of a buffer keeps the invariant.
LEMMA ShortenKeeps ==
  ASSUME IInv, NEW o \in Owner, NEW n \in Length, Shorten(o, n)
  PROVE  IInv'
<1> DEFINE r == [owned[o] EXCEPT !.length = n]
<1>1. /\ owned \in [Owner -> BufferRef \cup {NoRef}]
      /\ owned[o] \in BufferRef /\ owned[o] # NoRef
      /\ n \in Nat /\ n <= owned[o].length
      /\ slots' = slots /\ issued' = issued /\ mapped' = mapped
      /\ owned' = [owned EXCEPT ![o] = r]
  BY LengthAssumption DEF IInv, TypeOK, Shorten
<1>2. /\ r \in BufferRef
      /\ r.buffer_id = owned[o].buffer_id
      /\ r.generation = owned[o].generation
      /\ r.life = owned[o].life
      /\ r.length = n
  BY <1>1 DEF BufferRef
<1> HIDE DEF r
<1>3. r # NoRef
  BY <1>2, NoRefAssumption
<1>4. owned'[o] = r /\ \A q \in Owner : q # o => owned'[q] = owned[q]
  BY <1>1
<1>5. \A j \in DOMAIN slots : HoldersIn(owned', j) = HoldersIn(owned, j)
  BY <1>1, <1>2, <1>3, <1>4 DEF HoldersIn
<1>6. TypeOK'
  BY <1>1, <1>2 DEF IInv, TypeOK
<1>7. RefsCountOwners'
  BY <1>1, <1>5 DEF IInv, RefsCountOwners
<1>8. OwnersResolve'
  BY <1>1, <1>2, <1>3, <1>4 DEF IInv, OwnersResolve, Resolves
<1>9. GenerationCountsLives'
  BY <1>1 DEF IInv, GenerationCountsLives
<1>10. WindowsFit'
  <2>1. owned[o].length <= slots[owned[o].buffer_id].bytes
    BY <1>1 DEF IInv, WindowsFit
  <2>2. /\ slots[owned[o].buffer_id].bytes \in Nat
        /\ owned[o].length \in Nat
    BY <1>1, SlotIndex
    DEF IInv, TypeOK, OwnersResolve, Resolves, Slot, BufferRef
  <2>3. n <= slots[owned[o].buffer_id].bytes
    BY <1>1, <2>1, <2>2
  <2> QED
    BY <1>1, <1>2, <1>3, <1>4, <2>3 DEF IInv, WindowsFit
<1> QED
  BY <1>6, <1>7, <1>8, <1>9, <1>10 DEF IInv

\* Mapping an owned reference keeps the invariant.
LEMMA MapKeeps ==
  ASSUME IInv, NEW o \in Owner, Map(o)
  PROVE  IInv'
<1>1. /\ owned \in [Owner -> BufferRef \cup {NoRef}]
      /\ mapped \in [Owner -> BufferRef \cup {NoRef}]
      /\ slots' = slots /\ owned' = owned /\ issued' = issued
      /\ mapped' = [mapped EXCEPT ![o] = owned[o]]
      /\ owned[o] # NoRef
      /\ owned[o].length <= slots[owned[o].buffer_id].bytes
  BY DEF IInv, TypeOK, Map
<1>2. mapped'[o] = owned[o] /\ \A q \in Owner : q # o => mapped'[q] = mapped[q]
  BY <1>1
<1>3. TypeOK'
  BY <1>1 DEF IInv, TypeOK
<1>4. RefsCountOwners' /\ OwnersResolve' /\ GenerationCountsLives'
  BY <1>1 DEF IInv, RefsCountOwners, OwnersResolve, GenerationCountsLives
<1>5. WindowsFit'
  BY <1>1, <1>2 DEF IInv, WindowsFit
<1> QED
  BY <1>3, <1>4, <1>5 DEF IInv

\* A use of a stale copy changes nothing.
LEMMA StaleStepIsIdle ==
  ASSUME IInv, NEW ref \in issued, StaleStep(ref)
  PROVE  UNCHANGED vars
<1>1. Stale(ref)
  BY DEF StaleStep, StaleRelease, StaleRetain
<1>2. ~Resolves(slots, ref)
  BY <1>1, StaleIsTurnedAway DEF IInv
<1> QED
  BY <1>2 DEF StaleStep, StaleRelease, StaleRetain, Released, Retained,
              CanRetain, vars

\* A step that changes nothing keeps the invariant.
LEMMA IdleKeeps ==
  ASSUME IInv, UNCHANGED vars
  PROVE  IInv'
BY DEF IInv, TypeOK, RefsCountOwners, OwnersResolve, GenerationCountsLives,
       WindowsFit, vars

\* Every step of the pool keeps the invariant.
LEMMA StepKeeps ==
  ASSUME IInv, [Next]_vars
  PROVE  IInv'
<1>1. ASSUME NEW o \in Owner, OwnerStep(o)
      PROVE  IInv'
  <2>1. ASSUME NEW len \in Length, AllocateFails(o, len) PROVE IInv'
    BY <2>1, IdleKeeps DEF AllocateFails
  <2> QED
    BY <1>1, <2>1, AllocateReuseKeeps, AllocateAppendKeeps, MapKeeps,
       ReleaseKeeps, ShortenKeeps, RetainKeeps, TransferKeeps
    DEF OwnerStep
<1>2. ASSUME NEW ref \in issued, StaleStep(ref)
      PROVE  IInv'
  BY <1>2, StaleStepIsIdle, IdleKeeps
<1>3. ASSUME UNCHANGED vars PROVE IInv'
  BY <1>3, IdleKeeps
<1> QED
  BY <1>1, <1>2, <1>3 DEF Next

-----------------------------------------------------------------------------
(* The theorems.                                                           *)

\* The invariant of DataPool holds for every interleaving of its clients.
THEOREM Invariance == Spec => []IInv
<1>1. Init => IInv
  <2> SUFFICES ASSUME Init PROVE IInv
    OBVIOUS
  <2>1. slots = <<>> /\ DOMAIN slots = {} /\ slots \in Seq(Slot)
    BY DEF Init
  <2>2. TypeOK
    BY <2>1 DEF Init, TypeOK
  <2> QED
    BY <2>1, <2>2 DEF Init, IInv, RefsCountOwners, OwnersResolve,
                      GenerationCountsLives, WindowsFit
<1>2. IInv /\ [Next]_vars => IInv'
  BY StepKeeps
<1> QED
  BY <1>1, <1>2, PTL DEF Spec

\* Type correctness of the pool.
THEOREM TypeCorrect == Spec => []TypeOK
<1>1. IInv => TypeOK
  BY DEF IInv
<1> QED
  BY <1>1, Invariance, PTL

\* A slot's count is the number of its owners and storage is there exactly
\* while there is one (DataPool.retain, release).
THEOREM CountsAreExact == Spec => []RefsCountOwners
<1>1. IInv => RefsCountOwners
  BY DEF IInv
<1> QED
  BY <1>1, Invariance, PTL

\* A pointer from DataPool.map stays good until its owner lets go.
THEOREM PointersStayGood == Spec => []MappedStorageLive
<1>1. IInv => MappedStorageLive
  <2> SUFFICES ASSUME IInv, NEW o \in Owner, mapped[o] # NoRef
               PROVE  LET i == mapped[o].buffer_id IN
                        /\ owned[o] # NoRef
                        /\ i \in DOMAIN slots
                        /\ slots[i].bytes # Null
                        /\ slots[i].life = mapped[o].life
                        /\ mapped[o].length <= slots[i].bytes
    BY DEF MappedStorageLive
  <2> QED
    BY DEF IInv, WindowsFit, OwnersResolve, Resolves
<1> QED
  BY <1>1, Invariance, PTL

\* getSlot accepts a reference to a freed buffer only after a whole lap of the
\* generation counter.
THEOREM NoEarlyAlias == Spec => []AliasNeedsFullWrap
<1>1. IInv => AliasNeedsFullWrap
  <2> SUFFICES ASSUME IInv, NEW ref \in issued, Ended(ref), Resolves(slots, ref)
               PROVE  slots[ref.buffer_id].life - ref.life >= MaxU32
    BY DEF AliasNeedsFullWrap
  <2>1. ref \in BufferRef /\ slots[ref.buffer_id] \in Slot
    BY SlotIndex DEF IInv, TypeOK, Resolves
  <2>2. /\ Laps(ref.life, ref.generation)
        /\ Laps(slots[ref.buffer_id].life, ref.generation)
    BY DEF IInv, GenerationCountsLives, Resolves
  <2> QED
    BY <2>1, <2>2, LapsApart DEF Ended, BufferRef, Slot
<1> QED
  BY <1>1, Invariance, PTL

\* No use of a stale copy, in particular no late release, changes a slot.
THEOREM StaleUsesAreHarmless == Spec => OnlyOwnersChangeSlots
<1>1. ASSUME IInv, [Next]_vars
      PROVE  [slots' # slots => owned' # owned]_vars
  <2> SUFFICES ASSUME Next, slots' # slots, owned' = owned
               PROVE  FALSE
    BY <1>1 DEF vars
  <2>1. owned \in [Owner -> BufferRef \cup {NoRef}]
    BY <1>1 DEF IInv, TypeOK
  <2>2. ASSUME NEW ref \in issued, StaleStep(ref) PROVE FALSE
    BY <1>1, <2>2, StaleStepIsIdle DEF vars
  <2>3. PICK o \in Owner : OwnerStep(o)
    BY <2>2 DEF Next
  <2>4. ASSUME NEW i, NEW s, NEW len, Issue(o, i, s, len), owned[o] = NoRef
        PROVE  FALSE
    <3>1. makeRef(i, s, len) # NoRef
      <4>1. IInv'
        BY <1>1, StepKeeps
      <4>2. owned'[o] = makeRef(i, s, len)
        BY <2>1, <2>4 DEF Issue
      <4>3. owned'[o] = NoRef
        BY <2>4
      <4>4. makeRef(i, s, len) \in issued'
        BY <2>4 DEF Issue
      <4>5. issued' \subseteq BufferRef
        BY <4>1 DEF IInv, TypeOK
      <4> QED
        BY <4>4, <4>5, NoRefAssumption
    <3> QED
      BY <2>1, <2>4, <3>1 DEF Issue
  <2>5. ASSUME NEW len \in Length,
               \/ AllocateReuse(o, len)
               \/ AllocateAppend(o, len)
               \/ AllocateFails(o, len)
        PROVE  FALSE
    BY <2>4, <2>5 DEF AllocateReuse, AllocateAppend, AllocateFails, vars
  <2>6. CASE Release(o)
    BY <2>1, <2>6 DEF Release
  <2>7. ASSUME NEW p \in Owner, Retain(o, p) PROVE FALSE
    BY <2>1, <2>7 DEF Retain, Retained
  <2> QED
    BY <2>3, <2>5, <2>6, <2>7 DEF OwnerStep, Map, Shorten, Transfer
<1> QED
  BY <1>1, Invariance, PTL DEF Spec, OnlyOwnersChangeSlots

=============================================================================
