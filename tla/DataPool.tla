------------------------------ MODULE DataPool ------------------------------
(***************************************************************************)
(* The data plane of the engine/host boundary: DataPool of rt/direct.zig.  *)
(*                                                                         *)
(* A pool is a growing array of slots.  A slot carries storage, a 32-bit   *)
(* generation and a 32-bit reference count; a BufferRef names a slot and   *)
(* the generation it was made for, and every use of a reference goes       *)
(* through getSlot, which compares the two.  Every method runs under the   *)
(* pool's mutex (allocate obtains its storage before taking it, from       *)
(* memory nobody else can reach), so each is one step.                     *)
(*                                                                         *)
(* contract.zig says who may use a reference: an owned reference is held   *)
(* in one place (a thread, or a message in a channel), is moved by a       *)
(* successful send and is given up by release.  Owner is the set of those  *)
(* places.  Copies of a reference outlive its ownership (a BufferRef is a  *)
(* plain value); `issued' keeps all that were ever made, and the Stale     *)
(* actions use them again after the buffer is gone.                        *)
(***************************************************************************)
EXTENDS Naturals, Sequences, FiniteSets

CONSTANTS
  Owner,        \* places that can hold one owned reference
  NoRef,        \* an Owner that holds nothing
  Null,         \* a slot without storage (`bytes == null')
  Length,       \* buffer lengths the clients ask for
  MaxU32,       \* maxInt(u32): lengths, generations and refs stop here
  MaxSlots,     \* bound: slots.append fails (out of memory) past this length
  MaxLives,     \* bound: how often one slot is reused
  StaleWindow   \* bound: reuses of its slot a copy of a reference survives

ASSUME OwnerAssumption   == IsFiniteSet(Owner)
ASSUME NullAssumption    == Null \notin Nat
ASSUME LengthAssumption  == Length \subseteq Nat
ASSUME NumberAssumption  == /\ MaxU32 \in Nat \ {0}
                            /\ MaxSlots \in Nat
                            /\ MaxLives \in Nat
ASSUME WindowAssumption  == StaleWindow \in Nat /\ StaleWindow < MaxU32

VARIABLES
  slots,    \* the slot array; `life' counts the times a slot was freed (history)
  owned,    \* the reference each Owner holds
  mapped,   \* the reference whose storage an Owner has a raw pointer into
  issued    \* every reference ever made (history)

vars == <<slots, owned, mapped, issued>>

Slot == [bytes : Nat \cup {Null}, generation : 1..MaxU32, refs : 0..MaxU32,
         life : Nat]

BufferRef == [buffer_id : Nat \ {0}, generation : 1..MaxU32, length : Nat,
              life : Nat]

ASSUME NoRefAssumption == NoRef \notin BufferRef

NewSlot(len) == [bytes |-> len, generation |-> 1, refs |-> 1, life |-> 0]

makeRef(i, s, len) ==
  [buffer_id |-> i, generation |-> s[i].generation, length |-> len,
   life |-> s[i].life]

\* Mutant of Resolves: the generation is not compared.
Resolves_AnyGeneration(s, ref) ==
  ref.buffer_id \in DOMAIN s /\ s[ref.buffer_id].bytes # Null

\* getSlot returns the slot rather than null.
Resolves(s, ref) ==
  /\ ref.buffer_id \in DOMAIN s
  /\ s[ref.buffer_id].bytes # Null
  /\ s[ref.buffer_id].generation = ref.generation

\* Mutants of NextGeneration: no wrap; no bump.
NextGeneration_NoWrap(g) == g + 1
NextGeneration_Same(g) == g

\* `generation +%= 1; if (generation == 0) generation = 1'
NextGeneration(g) == IF g = MaxU32 THEN 1 ELSE g + 1

\* What allocate, retain and release make of the slot they work on.
UsedSlot(slot, len) ==
  [bytes |-> len, generation |-> slot.generation, refs |-> 1, life |-> slot.life]
SharedSlot(slot) == [slot EXCEPT !.refs = @ + 1]
DroppedSlot(slot) == [slot EXCEPT !.refs = @ - 1]

FreedSlot(slot) ==
  [bytes |-> Null, generation |-> NextGeneration(slot.generation),
   refs |-> 0, life |-> slot.life + 1]

CanRetain(s, ref) == Resolves(s, ref) /\ s[ref.buffer_id].refs # MaxU32

\* Mutant of Retained: the count is forgotten.
Retained_Uncounted(s, ref) == s

\* The slot array after retain(ref); unchanged when retain returns false.
Retained(s, ref) ==
  IF CanRetain(s, ref)
  THEN [s EXCEPT ![ref.buffer_id] = SharedSlot(@)]
  ELSE s

\* Mutant of Released: storage goes with the first release.
Released_FreesShared(s, ref) ==
  IF Resolves(s, ref) THEN [s EXCEPT ![ref.buffer_id] = FreedSlot(@)] ELSE s

\* The slot array after release(ref).
Released(s, ref) ==
  IF ~Resolves(s, ref) \/ s[ref.buffer_id].refs = 0 THEN s
  ELSE IF s[ref.buffer_id].refs = 1
       THEN [s EXCEPT ![ref.buffer_id] = FreedSlot(@)]
       ELSE [s EXCEPT ![ref.buffer_id] = DroppedSlot(@)]

IsFirstFree(s, i) ==
  /\ i \in DOMAIN s
  /\ s[i].bytes = Null
  /\ \A j \in DOMAIN s : j < i => s[j].bytes # Null

NoFree(s) == \A i \in DOMAIN s : s[i].bytes # Null

-----------------------------------------------------------------------------

Init ==
  /\ slots = <<>>
  /\ owned = [o \in Owner |-> NoRef]
  /\ mapped = [o \in Owner |-> NoRef]
  /\ issued = {}

\* The caller of allocate becomes the owner of the reference it is handed.
Issue(o, i, s, len) ==
  /\ slots' = s
  /\ owned' = [owned EXCEPT ![o] = makeRef(i, s, len)]
  /\ issued' = issued \cup {makeRef(i, s, len)}
  /\ UNCHANGED mapped

\* allocate, the loop over the slots: the first slot without storage is used.
AllocateReuse(o, len) ==
  /\ owned[o] = NoRef
  /\ len <= MaxU32
  /\ \E i \in DOMAIN slots :
       /\ IsFirstFree(slots, i)
       /\ slots[i].life < MaxLives
       /\ Issue(o, i, [slots EXCEPT ![i] = UsedSlot(@, len)], len)

\* allocate, no free slot: one is appended.
AllocateAppend(o, len) ==
  /\ owned[o] = NoRef
  /\ len <= MaxU32
  /\ NoFree(slots)
  /\ Len(slots) < MaxSlots
  /\ Issue(o, Len(slots) + 1, Append(slots, NewSlot(len)), len)

\* allocate returns false: the length does not fit, or memory is out.
AllocateFails(o, len) ==
  /\ owned[o] = NoRef
  /\ UNCHANGED vars

\* map: a raw pointer the Owner goes on using after the mutex is free again.
Map(o) ==
  /\ owned[o] # NoRef
  /\ Resolves(slots, owned[o])
  /\ owned[o].length <= slots[owned[o].buffer_id].bytes
  /\ mapped' = [mapped EXCEPT ![o] = owned[o]]
  /\ UNCHANGED <<slots, owned, issued>>

\* retain on behalf of another place; at the counter's limit it returns false.
Retain(o, p) ==
  /\ owned[o] # NoRef
  /\ owned[p] = NoRef
  /\ slots' = Retained(slots, owned[o])
  /\ owned' = IF CanRetain(slots, owned[o])
               THEN [owned EXCEPT ![p] = owned[o]] ELSE owned
  /\ UNCHANGED <<mapped, issued>>

\* release: the Owner gives up its reference and the pointer it had with it.
Release(o) ==
  /\ owned[o] # NoRef
  /\ slots' = Released(slots, owned[o])
  /\ owned' = [owned EXCEPT ![o] = NoRef]
  /\ mapped' = [mapped EXCEPT ![o] = NoRef]
  /\ UNCHANGED issued

\* A successful send moves the reference into a message, a receive out of it.
Transfer(o, p) ==
  /\ owned[o] # NoRef
  /\ owned[p] = NoRef
  /\ owned' = [owned EXCEPT ![o] = NoRef, ![p] = owned[o]]
  /\ mapped' = [mapped EXCEPT ![o] = NoRef]
  /\ UNCHANGED <<slots, issued>>

\* A completion may describe less than the buffer holds (a short read).
Shorten(o, n) ==
  /\ owned[o] # NoRef
  /\ n <= owned[o].length
  /\ owned' = [owned EXCEPT ![o].length = n]
  /\ UNCHANGED <<slots, mapped, issued>>

-----------------------------------------------------------------------------
(* Uses of a copy of a reference whose buffer is already gone.             *)

Ended(ref) == ref.life < slots[ref.buffer_id].life

Stale(ref) ==
  Ended(ref) /\ slots[ref.buffer_id].life - ref.life <= StaleWindow

StaleRelease(ref) ==
  /\ Stale(ref)
  /\ slots' = Released(slots, ref)
  /\ UNCHANGED <<owned, mapped, issued>>

StaleRetain(ref, p) ==
  /\ Stale(ref)
  /\ owned[p] = NoRef
  /\ slots' = Retained(slots, ref)
  /\ UNCHANGED <<owned, mapped, issued>>

-----------------------------------------------------------------------------

OwnerStep(o) ==
  \/ \E len \in Length : \/ AllocateReuse(o, len)
                         \/ AllocateAppend(o, len)
                         \/ AllocateFails(o, len)
  \/ Map(o)
  \/ Release(o)
  \/ \E n \in Length : Shorten(o, n)
  \/ \E p \in Owner : Retain(o, p) \/ Transfer(o, p)

StaleStep(ref) ==
  \/ StaleRelease(ref)
  \/ \E p \in Owner : StaleRetain(ref, p)

Next ==
  \/ \E o \in Owner : OwnerStep(o)
  \/ \E ref \in issued : StaleStep(ref)

Spec == Init /\ [][Next]_vars

-----------------------------------------------------------------------------
(* Properties.                                                             *)

HoldersIn(own, i) == {o \in Owner : own[o] # NoRef /\ own[o].buffer_id = i}

\* The state is well typed: slots, references and pointers have their shape.
TypeOK ==
  /\ slots \in Seq(Slot)
  /\ owned \in [Owner -> BufferRef \cup {NoRef}]
  /\ mapped \in [Owner -> BufferRef \cup {NoRef}]
  /\ issued \in SUBSET BufferRef

\* DataPool.release/retain: a slot's count is the number of places that own a
\* reference to it, whatever stale copies are released or retained meanwhile,
\* and a slot has storage exactly while somebody owns it.
RefsCountOwners ==
  \A i \in DOMAIN slots :
    /\ slots[i].refs = Cardinality(HoldersIn(owned, i))
    /\ slots[i].bytes # Null <=> slots[i].refs > 0

\* DataPool.getSlot never turns an owner away: an owned reference names the
\* life of its slot that is current, so map, retain and release act on it.
OwnersResolve ==
  \A o \in Owner : owned[o] # NoRef =>
    /\ Resolves(slots, owned[o])
    /\ owned[o].life = slots[owned[o].buffer_id].life

\* A pointer returned by DataPool.map is used without the mutex: while its
\* owner keeps the reference, the storage is there, is the storage that was
\* mapped, and holds the whole window.
MappedStorageLive ==
  \A o \in Owner : mapped[o] # NoRef =>
    LET i == mapped[o].buffer_id IN
      /\ owned[o] # NoRef
      /\ i \in DOMAIN slots
      /\ slots[i].bytes # Null
      /\ slots[i].life = mapped[o].life
      /\ mapped[o].length <= slots[i].bytes

\* The generation check (with its wrap past zero) accepts a reference to a
\* buffer that was freed only when the slot has been through every one of the
\* MaxU32 generations since.
AliasNeedsFullWrap ==
  \A ref \in issued : Ended(ref) /\ Resolves(slots, ref) =>
    slots[ref.buffer_id].life - ref.life >= MaxU32

\* Only an owner's step changes a slot: releasing or retaining a stale copy
\* leaves every buffer alone.
OnlyOwnersChangeSlots == [][slots' # slots => owned' # owned]_vars

-----------------------------------------------------------------------------
(* The inductive invariant: the properties above and what they rest on.    *)

\* A life number and a generation belong together: the generation has gone
\* round k whole laps of 1..MaxU32 since the slot was made.
Laps(life, g) == \E k \in 0..life : life = k * MaxU32 + g - 1

\* Slots and copies agree on how lives are numbered by generations, and a copy
\* is of this life or of an earlier one.
GenerationCountsLives ==
  /\ \A i \in DOMAIN slots : Laps(slots[i].life, slots[i].generation)
  /\ \A ref \in issued :
       /\ ref.buffer_id \in DOMAIN slots
       /\ Laps(ref.life, ref.generation)
       /\ ref.life <= slots[ref.buffer_id].life

\* A reference describes no more than its storage, and a pointer is into the
\* buffer its holder owns.
WindowsFit ==
  \A o \in Owner :
    /\ owned[o] # NoRef => owned[o].length <= slots[owned[o].buffer_id].bytes
    /\ mapped[o] # NoRef =>
         /\ owned[o] # NoRef
         /\ mapped[o].buffer_id = owned[o].buffer_id
         /\ mapped[o].life = owned[o].life
         /\ mapped[o].length <= slots[owned[o].buffer_id].bytes

IInv ==
  /\ TypeOK
  /\ RefsCountOwners
  /\ OwnersResolve
  /\ GenerationCountsLives
  /\ WindowsFit

=============================================================================
