------------------------ MODULE SessionTable_proofs ------------------------
(***************************************************************************)
(* Proofs about the session table, for every number of slots, every width  *)
(* of the two halves of a connection id and every history of calls.        *)
(*                                                                         *)
(* The argument about old handles: a handle carries the generation its     *)
(* slot had when it was issued, and HandleInv says which generation the    *)
(* slot has now, a function of the two and of how often the slot was       *)
(* vacated since.  Generations cycle through 1 .. GenerationSpan - 1, so   *)
(* the two agree again only after GenerationSpan - 1 vacations.            *)
(***************************************************************************)
EXTENDS SessionTableHistory, SessionLookupTable_proofs

USE TableAssumption DEF TableAssumption

\* The generation reached from g after d vacations, d < GenerationSpan.
Advanced(g, d) ==
  IF g + d < GenerationSpan THEN g + d ELSE g + d - (GenerationSpan - 1)

HandleInv ==
  \A h \in handles :
    /\ GetIndex(h.id) = h.slot
    /\ GetGeneration(h.id) \in Generations
    /\ h.born <= releases[h.slot]
    /\ Age(h) = 0 => slots[h.slot].session = h.session
    /\ Age(h) < GenerationSpan - 1 =>
         slots[h.slot].generation = Advanced(GetGeneration(h.id), Age(h))

IInv == TypeOK /\ FreeListExact /\ HandleInv
-----------------------------------------------------------------------------
(* The handle's and the slot's generation part at the first vacation and   *)
(* meet again only at the GenerationSpan - 1st.                            *)
LEMMA AdvancedSteps ==
  ASSUME NEW g \in Generations, NEW d \in Nat, d < GenerationSpan - 1
  PROVE  /\ Advanced(g, d) \in Generations
         /\ NextGeneration(Advanced(g, d)) = Advanced(g, d + 1)
         /\ Advanced(g, d) = g <=> d = 0
<1>1. Advanced(g, d) \in Generations
  BY DEF Advanced, Generations
<1>2. NextGeneration(Advanced(g, d)) =
        IF Advanced(g, d) = GenerationSpan - 1 THEN 1 ELSE Advanced(g, d) + 1
  BY <1>1, NextGenerationCycles
<1> QED
  BY <1>1, <1>2 DEF Advanced, Generations
-----------------------------------------------------------------------------
(* What one vacation of an occupied slot, counted in releases, preserves:  *)
(* the step Release and the loop of ReleaseByClientId share.               *)
LEMMA VacateKeeps ==
  ASSUME IInv, NEW i \in Indices, Occupied(i), Vacate(i),
         releases' = [releases EXCEPT ![i] = @ + 1],
         handles' = handles
  PROVE  /\ slots' \in [Indices -> [session : Sessions \cup {NoSession},
                                    generation : Generations]]
         /\ freeIndices' \in Seq(Indices)
         /\ releases' \in [Indices -> Nat]
         /\ FreeListExact'
         /\ HandleInv'
<1>2. /\ slots' = [slots EXCEPT ![i] =
                     [session |-> NoSession,
                      generation |-> NextGeneration(slots[i].generation)]]
      /\ slots' \in [Indices -> [session : Sessions \cup {NoSession},
                                 generation : Generations]]
      /\ freeIndices' \in Seq(Indices)
      /\ FreeListExact'
  BY VacateKeepsTable DEF IInv, TypeOK, TableInv
<1>5. releases' \in [Indices -> Nat]
  BY DEF IInv, TypeOK
<1>7. HandleInv'
  <2> SUFFICES ASSUME NEW h \in handles
               PROVE  /\ GetIndex(h.id) = h.slot
                      /\ GetGeneration(h.id) \in Generations
                      /\ h.born <= releases'[h.slot]
                      /\ Age(h)' = 0 => slots'[h.slot].session = h.session
                      /\ Age(h)' < GenerationSpan - 1 =>
                           slots'[h.slot].generation =
                             Advanced(GetGeneration(h.id), Age(h)')
    BY DEF HandleInv, Age, Advanced, GetIndex, GetGeneration, Generations
  <2>1. /\ h.slot \in Indices
        /\ h.born \in Nat
        /\ releases[h.slot] \in Nat
    BY DEF IInv, TypeOK, Handles
  <2>2. /\ GetIndex(h.id) = h.slot
        /\ GetGeneration(h.id) \in Generations
        /\ h.born <= releases[h.slot]
        /\ Age(h) = 0 => slots[h.slot].session = h.session
        /\ Age(h) < GenerationSpan - 1 =>
             slots[h.slot].generation = Advanced(GetGeneration(h.id), Age(h))
    BY DEF IInv, HandleInv
  <2>3. CASE h.slot = i
    <3>1. releases'[h.slot] = releases[h.slot] + 1 /\ Age(h)' = Age(h) + 1
      BY <2>1, <2>3 DEF Age, IInv, TypeOK
    <3>2. Age(h) \in Nat
      BY <2>1, <2>2 DEF Age
    <3>3. Age(h)' < GenerationSpan - 1 =>
            slots'[h.slot].generation = Advanced(GetGeneration(h.id), Age(h)')
      <4> SUFFICES ASSUME Age(h) + 1 < GenerationSpan - 1
                   PROVE  NextGeneration(slots[i].generation)
                            = Advanced(GetGeneration(h.id), Age(h) + 1)
        BY <1>2, <2>3, <3>1 DEF IInv, TypeOK, TableTypeOK
      <4>1. Age(h) < GenerationSpan - 1
        BY <3>2
      <4> QED
        BY <2>2, <2>3, <3>2, <4>1, AdvancedSteps
    <3> QED
      BY <2>1, <2>2, <3>1, <3>2, <3>3
  <2>4. CASE h.slot # i
    <3>1. /\ releases'[h.slot] = releases[h.slot]
          /\ slots'[h.slot] = slots[h.slot]
      BY <1>2, <2>1, <2>4 DEF IInv, TypeOK, TableTypeOK
    <3>2. Age(h)' = Age(h)
      BY <3>1 DEF Age
    <3> QED
      BY <2>2, <3>1, <3>2
  <2> QED
    BY <2>3, <2>4
<1> QED
  BY <1>2, <1>5, <1>7

(* Nothing was issued yet.                                                 *)
LEMMA InitIInv == Init => IInv
<1> SUFFICES ASSUME Init PROVE IInv
  OBVIOUS
<1>1. TableInv
  BY TableInitInv DEF Init
<1>2. releases \in [Indices -> Nat] /\ handles = {}
  BY DEF Init
<1> QED
  BY <1>1, <1>2 DEF IInv, TypeOK, TableInv, HandleInv

(* Allocate takes the head of the free queue and leaves its generation:    *)
(* the handle issued is valid, and the slot's earlier handles, all of them *)
(* older than the last vacation, keep their age.                           *)
LEMMA RegisterKeeps ==
  ASSUME IInv, NEW s \in Sessions, Register(s)
  PROVE  IInv'
<1> DEFINE i == Head(freeIndices)
           new == [id |-> NextConnectionId, slot |-> i,
                   born |-> releases[i], session |-> s]
<1> USE DEF IInv, TypeOK, TableTypeOK
<1>1. /\ freeIndices # <<>>
      /\ slots' = [slots EXCEPT ![i] =
                     [session |-> s, generation |-> slots[i].generation]]
      /\ freeIndices' = Tail(freeIndices)
      /\ handles' = handles \cup {new}
      /\ releases' = releases
      /\ sweepClient' = sweepClient /\ sweepIndex' = sweepIndex
  BY DEF Register, Allocate
<1>2. /\ i \in Indices
      /\ ~Occupied(i)
      /\ TableTypeOK' /\ FreeListExact'
  BY AllocateKeepsTable DEF Register, TableInv
<1>3. i \in 0 .. IndexSpan - 1 /\ slots[i].generation \in Generations
  BY <1>2 DEF Indices
<1>4. /\ NextConnectionId \in ConnectionIds
      /\ NextConnectionId # InvalidConnectionId
      /\ GetIndex(NextConnectionId) = i
      /\ GetGeneration(NextConnectionId) = slots[i].generation
  BY <1>3, IdArithmetic DEF NextConnectionId
<1> HIDE DEF i
<1>6. TypeOK'
  BY <1>1, <1>2, <1>4 DEF Handles
<1>8. HandleInv'
  <2> SUFFICES ASSUME NEW h \in handles'
               PROVE  /\ GetIndex(h.id) = h.slot
                      /\ GetGeneration(h.id) \in Generations
                      /\ h.born <= releases'[h.slot]
                      /\ Age(h)' = 0 => slots'[h.slot].session = h.session
                      /\ Age(h)' < GenerationSpan - 1 =>
                           slots'[h.slot].generation =
                             Advanced(GetGeneration(h.id), Age(h)')
    BY DEF HandleInv, Age, Advanced, GetIndex, GetGeneration, Generations
  <2>1. CASE h = new
    <3>1. /\ h.slot = i /\ h.session = s /\ h.id = NextConnectionId
          /\ h.born = releases[i] /\ releases[i] \in Nat
      BY <1>2, <2>1
    <3>2. Age(h)' = 0
      BY <1>1, <3>1 DEF Age
    <3>3. /\ slots'[i].session = s
          /\ slots'[i].generation = slots[i].generation
      BY <1>1, <1>2
    <3>4. Advanced(slots[i].generation, 0) = slots[i].generation
      BY <1>3 DEF Advanced, Generations
    <3> QED
      BY <1>1, <1>3, <1>4, <3>1, <3>2, <3>3, <3>4
  <2>2. CASE h \in handles
    <3>1. /\ h.slot \in Indices /\ h.session \in Sessions
          /\ Age(h)' = Age(h)
          /\ slots'[h.slot].generation = slots[h.slot].generation
      BY <1>1, <1>2, <2>2 DEF Handles, Age
    <3>2. /\ GetIndex(h.id) = h.slot
          /\ GetGeneration(h.id) \in Generations
          /\ h.born <= releases[h.slot]
          /\ Age(h) = 0 => slots[h.slot].session = h.session
          /\ Age(h) < GenerationSpan - 1 =>
               slots[h.slot].generation = Advanced(GetGeneration(h.id), Age(h))
      BY <2>2 DEF HandleInv
    <3>3. Age(h) = 0 => h.slot # i
      BY <1>2, <3>1, <3>2, TableAssumption DEF Occupied, TableAssumption
    <3> QED
      BY <1>1, <1>2, <3>1, <3>2, <3>3
  <2> QED
    BY <1>1, <2>1, <2>2
<1> QED
  BY <1>2, <1>6, <1>8

LEMMA IInvInductive == IInv /\ [Next]_vars => IInv'
<1> SUFFICES ASSUME IInv, [Next]_vars PROVE IInv'
  OBVIOUS
<1>1. CASE \E s \in Sessions : Register(s)
  BY <1>1, RegisterKeeps
<1>2. ASSUME NEW id \in ConnectionIds, Remove(id)
      PROVE  IInv'
  <2>1. GetIndex(id) \in Indices
    BY <1>2, IdHalves DEF Remove, Release, Releasable, Indices
  <2>2. /\ Occupied(GetIndex(id))
        /\ Vacate(GetIndex(id))
        /\ releases' = [releases EXCEPT ![GetIndex(id)] = @ + 1]
        /\ handles' = handles
        /\ sweepClient' = sweepClient /\ sweepIndex' = sweepIndex
    BY <1>2 DEF Remove, Release, Releasable
  <2> QED
    BY <2>1, <2>2, VacateKeeps DEF IInv, TypeOK, TableTypeOK
<1>3. ASSUME NEW c \in Clients, RemoveClientBegin(c)
      PROVE  IInv'
  BY <1>3 DEF RemoveClientBegin, SweepBegin, IInv, TypeOK, TableTypeOK,
              FreeListExact, Occupied, HandleInv, Age
<1>4. CASE RemoveClientSlot
  <2>1. sweepIndex \in Indices /\ sweepIndex + 1 \in 0 .. SlotCount
    BY <1>4 DEF RemoveClientSlot, SweepSlot, IInv, TypeOK, TableTypeOK, Indices
  <2>2. handles' = handles /\ sweepIndex' = sweepIndex + 1
        /\ sweepClient' = sweepClient
    BY <1>4 DEF RemoveClientSlot, SweepSlot
  <2>3. CASE Swept(sweepIndex)
    <3>1. /\ Occupied(sweepIndex)
          /\ Vacate(sweepIndex)
          /\ releases' = [releases EXCEPT ![sweepIndex] = @ + 1]
      BY <1>4, <2>3 DEF RemoveClientSlot, SweepSlot, Swept
    <3> QED
      BY <2>1, <2>2, <3>1, VacateKeeps DEF IInv, TypeOK, TableTypeOK
  <2>4. CASE ~Swept(sweepIndex)
    <3>1. UNCHANGED <<slots, freeIndices, releases>>
      BY <1>4, <2>4 DEF RemoveClientSlot, SweepSlot
    <3> QED
      BY <2>1, <2>2, <3>1
         DEF IInv, TypeOK, TableTypeOK, FreeListExact, Occupied, HandleInv, Age
  <2> QED
    BY <2>3, <2>4
<1>5. CASE RemoveClientEnd
  BY <1>5 DEF RemoveClientEnd, SweepEnd, IInv, TypeOK, TableTypeOK,
              FreeListExact, Occupied, HandleInv, Age
<1>6. CASE UNCHANGED vars
  BY <1>6 DEF vars, IInv, TypeOK, TableTypeOK, FreeListExact, Occupied,
              HandleInv, Age
<1> QED
  BY <1>1, <1>2, <1>3, <1>4, <1>5, <1>6 DEF Next

LEMMA InvariantIInv == Spec => []IInv
  BY InitIInv, IInvInductive, PTL DEF Spec

(* HandleInv decides what Find answers for a handle.                       *)
LEMMA HandlesResolve == IInv => StaleHandleRejected
<1> SUFFICES ASSUME IInv, NEW h \in handles, Age(h) < GenerationSpan - 1
             PROVE  Find(h.id) = IF Age(h) = 0 THEN h.session ELSE NoSession
  BY DEF StaleHandleRejected
<1>1. /\ h.id # InvalidConnectionId
      /\ h.slot \in Indices
      /\ Age(h) \in Nat
  BY DEF IInv, TypeOK, Handles, HandleInv, Age
<1>2. /\ GetIndex(h.id) = h.slot
      /\ GetGeneration(h.id) \in Generations
      /\ Age(h) = 0 => slots[h.slot].session = h.session
      /\ slots[h.slot].generation = Advanced(GetGeneration(h.id), Age(h))
  BY DEF IInv, HandleInv
<1>3. Advanced(GetGeneration(h.id), Age(h)) = GetGeneration(h.id) <=> Age(h) = 0
  BY <1>1, <1>2, AdvancedSteps
<1>4. ~(h.slot >= SlotCount)
  BY <1>1 DEF Indices
<1> QED
  BY <1>1, <1>2, <1>3, <1>4 DEF Find
-----------------------------------------------------------------------------
(* The table keeps its types, and no id it issues is InvalidConnectionId,  *)
(* through every wrap of a slot's 32-bit generation.                       *)
THEOREM TypeCorrect == Spec => []TypeOK
  BY InvariantIInv, PTL DEF IInv

(* The queue of free indices and the slots never disagree: no slot is      *)
(* handed out twice, none is lost, and the snapshot's reservation is exact.*)
THEOREM FreeListIsExact == Spec => []FreeListExact
  BY InvariantIInv, PTL DEF IInv

(* An id that outlived its session resolves to nothing, for as long as its *)
(* slot is recycled fewer times than there are generations.                *)
THEOREM StaleHandlesAreRejected == Spec => []StaleHandleRejected
  BY InvariantIInv, HandlesResolve, PTL
-----------------------------------------------------------------------------
(* Two ids with the same halves are one id, and an id whose generation a   *)
(* slot can have is not InvalidConnectionId.                               *)
LEMMA IdsEqual ==
  ASSUME NEW a \in ConnectionIds, NEW b \in ConnectionIds,
         GetIndex(a) = GetIndex(b), GetGeneration(a) = GetGeneration(b)
  PROVE  a = b
  BY IdHalves

LEMMA SlotIdIsValid ==
  ASSUME NEW id \in ConnectionIds, GetGeneration(id) \in Generations
  PROVE  id # InvalidConnectionId
  BY IdHalves, IdArithmetic

(* A vacated slot answers no id, and no other slot notices.                *)
LEMMA VacateFind ==
  ASSUME IInv, NEW i \in Indices, Vacate(i), NEW id \in ConnectionIds
  PROVE  Find(id)' = IF GetIndex(id) = i THEN NoSession ELSE Find(id)
<1>1. GetIndex(id) \in Nat /\ SlotCount \in Nat
  BY IdHalves
<1>2. slots' = [slots EXCEPT ![i] =
                  [session |-> NoSession,
                   generation |-> NextGeneration(slots[i].generation)]]
  BY DEF Vacate, IInv, TypeOK, TableTypeOK
<1>3. slots'[i].session = NoSession
  BY <1>2 DEF IInv, TypeOK, TableTypeOK
<1>4. ASSUME NEW j \in Indices, j # i
      PROVE  slots'[j] = slots[j]
  BY <1>2, <1>4 DEF IInv, TypeOK, TableTypeOK
<1>5. GetIndex(id) < SlotCount => GetIndex(id) \in Indices
  BY <1>1 DEF Indices
<1>6. CASE GetIndex(id) = i
  BY <1>3, <1>6 DEF Find, GetIndex, GetGeneration, InvalidConnectionId
<1>7. CASE GetIndex(id) # i
  BY <1>1, <1>4, <1>5, <1>7 DEF Find, GetIndex, GetGeneration, InvalidConnectionId
<1> QED
  BY <1>6, <1>7

LEMMA FindTyped ==
  ASSUME IInv, NEW id \in ConnectionIds
  PROVE  Find(id) \in Sessions \cup {NoSession}
<1>1. GetIndex(id) \in Nat /\ SlotCount \in Nat
  BY IdHalves
<1> QED
  BY <1>1 DEF Find, IInv, TypeOK, TableTypeOK, Indices

LEMMA RegistryInit == Init => Registry!Init
<1> SUFFICES ASSUME Init, NEW id \in ConnectionIds
             PROVE  VisibleSession(id) = NoSession
  BY DEF Init, Registry!Init, Registry!NoCall, InvalidConnectionId
<1>1. GetIndex(id) \in Nat /\ SlotCount \in Nat
  BY IdHalves
<1>2. Find(id) = NoSession
  BY <1>1 DEF Init, TableInit, Find, Indices
<1> QED
  BY <1>2 DEF VisibleSession

(* While the mutex is free a caller sees exactly what Find answers.        *)
LEMMA VisibleWhenFree ==
  ASSUME NEW id, SlotsMutexFree
  PROVE  VisibleSession(id) = Find(id)
  BY DEF VisibleSession, SlotsMutexFree

LEMMA RegisterRefines ==
  ASSUME IInv, NEW s \in Sessions, Register(s)
  PROVE  Registry!Register(NextConnectionId, s)
<1> DEFINE i == Head(freeIndices)
           new == NextConnectionId
<1> USE DEF IInv, TypeOK, TableTypeOK
<1>1. /\ SlotsMutexFree /\ SlotsMutexFree'
      /\ freeIndices # <<>>
      /\ s \notin ActiveSessions
      /\ slots' = [slots EXCEPT ![i] =
                     [session |-> s, generation |-> slots[i].generation]]
  BY DEF Register, Allocate, SlotsMutexFree
<1>2. i \in Indices /\ i = freeIndices[1] /\ Len(freeIndices) \in Nat \ {0}
  BY <1>1
<1>3. i \in 0 .. IndexSpan - 1 /\ slots[i].generation \in Generations
  BY <1>2 DEF Indices
<1>4. /\ new \in ConnectionIds
      /\ new # InvalidConnectionId
      /\ GetIndex(new) = i
      /\ GetGeneration(new) = slots[i].generation
  BY <1>3, IdArithmetic DEF NextConnectionId
<1>5. slots[i].session = NoSession
  BY <1>2 DEF FreeListExact, Occupied
<1> HIDE DEF i, new
<1>6. /\ slots'[i].session = s
      /\ slots'[i].generation = slots[i].generation
      /\ \A j \in Indices : j # i => slots'[j] = slots[j]
  BY <1>1, <1>2
<1>7. ASSUME NEW id \in ConnectionIds
      PROVE  Find(id)' = IF id = new THEN s ELSE Find(id)
  <2>1. GetIndex(id) \in Nat /\ SlotCount \in Nat
    BY IdHalves
  <2>2. GetIndex(id) < SlotCount => GetIndex(id) \in Indices
    BY <2>1 DEF Indices
  <2>3. CASE id = new
    <3>1. ~(i >= SlotCount)
      BY <1>2 DEF Indices
    <3> QED
      BY <1>4, <1>6, <2>3, <3>1
         DEF Find, GetIndex, GetGeneration, InvalidConnectionId
  <2>4. CASE id # new /\ GetIndex(id) = i
    <3>1. GetGeneration(id) # slots[i].generation
      BY <1>4, <2>4, IdsEqual
    <3> QED
      BY <1>6, <2>4, <3>1 DEF Find, GetIndex, GetGeneration, InvalidConnectionId
  <2>5. CASE id # new /\ GetIndex(id) # i
    BY <1>6, <2>1, <2>2, <2>5
       DEF Find, GetIndex, GetGeneration, InvalidConnectionId
  <2> QED
    BY <2>3, <2>4, <2>5
<1>8. Find(new) = NoSession
  BY <1>4, <1>5 DEF Find
<1>9. ASSUME NEW id \in ConnectionIds
      PROVE  Find(id) # s
  <2>1. GetIndex(id) \in Nat /\ SlotCount \in Nat
    BY IdHalves
  <2> QED
    BY <1>1, <2>1, TableAssumption DEF Find, ActiveSessions, Indices
<1>10. s \notin Registry!Registered
  BY <1>1, <1>9, VisibleWhenFree DEF Registry!Registered
<1>11. \A id \in ConnectionIds : VisibleSession(id)' = Find(id)'
  BY <1>1 DEF VisibleSession, SlotsMutexFree
<1>12. \A id \in ConnectionIds : VisibleSession(id) = Find(id)
  BY <1>1, VisibleWhenFree
<1>13. call' = <<"register", new>>
  BY DEF Register, new
<1> QED
  BY <1>4, <1>7, <1>8, <1>10, <1>11, <1>12, <1>13 DEF Registry!Register, new

LEMMA RemoveRefines ==
  ASSUME IInv, NEW id \in ConnectionIds, Remove(id)
  PROVE  Registry!Remove(id)
<1> DEFINE i == GetIndex(id)
<1>1. /\ SlotsMutexFree /\ SlotsMutexFree'
      /\ Releasable(id)
      /\ Vacate(i)
  BY DEF Remove, Release, SlotsMutexFree
<1>2. i \in Indices /\ ~(i >= SlotCount)
  BY <1>1, IdHalves DEF Releasable, Indices
<1>3. slots[i].generation = GetGeneration(id) /\ slots[i].session # NoSession
  BY <1>1 DEF Releasable, Occupied
<1>4. id # InvalidConnectionId
  BY <1>2, <1>3, SlotIdIsValid DEF IInv, TypeOK, TableTypeOK
<1>5. Find(id) # NoSession
  BY <1>2, <1>3, <1>4 DEF Find
<1>6. ASSUME NEW b \in ConnectionIds, b # id, GetIndex(b) = i
      PROVE  Find(b) = NoSession
  BY <1>3, <1>6, IdsEqual DEF Find
<1>7. ASSUME NEW b \in ConnectionIds
      PROVE  Find(b)' = IF b = id THEN NoSession ELSE Find(b)
  BY <1>1, <1>2, <1>6, VacateFind
<1>8. \A b \in ConnectionIds : /\ VisibleSession(b) = Find(b)
                               /\ VisibleSession(b)' = Find(b)'
  BY <1>1 DEF VisibleSession, SlotsMutexFree
<1> QED
  BY <1>5, <1>7, <1>8 DEF Remove, Registry!Remove

(* Taking the mutex is where a client's sessions vanish for its callers.   *)
LEMMA SweepBeginRefines ==
  ASSUME IInv, NEW c \in Clients, RemoveClientBegin(c)
  PROVE  Registry!RemoveClient(c)
<1>1. /\ SlotsMutexFree /\ sweepClient' = c /\ sweepIndex' = 0
      /\ slots' = slots
      /\ c # NoClient
  BY DEF RemoveClientBegin, SweepBegin
<1>2. ASSUME NEW b \in ConnectionIds
      PROVE  VisibleSession(b)' =
               IF VisibleSession(b) \in Sessions /\ Owner[VisibleSession(b)] = c
                 THEN NoSession
                 ELSE VisibleSession(b)
  <2>1. GetIndex(b) \in Nat
    BY IdHalves
  <2>2. Find(b)' = Find(b)
    BY <1>1 DEF Find, GetIndex, GetGeneration, InvalidConnectionId
  <2>3. VisibleSession(b) = Find(b)
    BY <1>1, VisibleWhenFree
  <2> QED
    BY <1>1, <2>1, <2>2, <2>3 DEF VisibleSession, GetIndex
<1> QED
  BY <1>2 DEF RemoveClientBegin, Registry!RemoveClient

(* The loop and the unlock change nothing a caller can see.                *)
LEMMA SweepSlotStutters ==
  ASSUME IInv, RemoveClientSlot, NEW b \in ConnectionIds
  PROVE  VisibleSession(b)' = VisibleSession(b)
<1>1. /\ sweepClient # NoClient
      /\ sweepIndex < SlotCount
      /\ sweepIndex' = sweepIndex + 1 /\ sweepClient' = sweepClient
      /\ sweepIndex \in Indices
  BY DEF RemoveClientSlot, SweepSlot, IInv, TypeOK, TableTypeOK, Indices
<1>2. GetIndex(b) \in Nat /\ sweepIndex \in Nat
  BY <1>1, IdHalves DEF Indices
<1>3. CASE Swept(sweepIndex)
  <2>1. Vacate(sweepIndex)
    BY <1>3 DEF RemoveClientSlot, SweepSlot
  <2>2. Find(b)' = IF GetIndex(b) = sweepIndex THEN NoSession ELSE Find(b)
    BY <1>1, <2>1, VacateFind
  <2>3. CASE GetIndex(b) = sweepIndex
    <3>1. Find(b) \in Sessions => Owner[Find(b)] = sweepClient
      BY <1>3, <2>3, TableAssumption DEF Swept, Find
    <3>2. VisibleSession(b) = NoSession
      BY <1>1, <1>2, <2>3, <3>1, FindTyped DEF VisibleSession
    <3> QED
      BY <2>2, <2>3, <3>2 DEF VisibleSession, GetIndex
  <2>4. CASE GetIndex(b) # sweepIndex
    <3>1. GetIndex(b) >= sweepIndex' <=> GetIndex(b) >= sweepIndex
      BY <1>1, <1>2, <2>4
    <3> QED
      BY <1>1, <2>2, <2>4, <3>1 DEF VisibleSession, GetIndex
  <2> QED
    BY <2>3, <2>4
<1>4. CASE ~Swept(sweepIndex)
  <2>1. slots' = slots
    BY <1>4 DEF RemoveClientSlot, SweepSlot
  <2>2. Find(b)' = Find(b)
    BY <2>1 DEF Find, GetIndex, GetGeneration, InvalidConnectionId
  <2>3. CASE GetIndex(b) = sweepIndex
    <3>1. ~(Find(b) \in Sessions /\ Owner[Find(b)] = sweepClient)
      BY <1>4, <2>3, TableAssumption DEF Swept, Occupied, Find
    <3> QED
      BY <1>1, <2>2, <3>1 DEF VisibleSession
  <2>4. CASE GetIndex(b) # sweepIndex
    <3>1. GetIndex(b) >= sweepIndex' <=> GetIndex(b) >= sweepIndex
      BY <1>1, <1>2, <2>4
    <3> QED
      BY <1>1, <2>2, <3>1 DEF VisibleSession, GetIndex
  <2> QED
    BY <2>3, <2>4
<1> QED
  BY <1>3, <1>4

LEMMA SweepEndStutters ==
  ASSUME IInv, RemoveClientEnd, NEW b \in ConnectionIds
  PROVE  VisibleSession(b)' = VisibleSession(b)
<1>1. /\ sweepIndex = SlotCount /\ sweepClient' = NoClient /\ slots' = slots
  BY DEF RemoveClientEnd, SweepEnd
<1>2. GetIndex(b) \in Nat /\ SlotCount \in Nat
  BY IdHalves
<1>3. Find(b)' = Find(b)
  BY <1>1 DEF Find, GetIndex, GetGeneration, InvalidConnectionId
<1>4. GetIndex(b) >= sweepIndex => Find(b) = NoSession
  BY <1>1 DEF Find
<1> QED
  BY <1>1, <1>3, <1>4, TableAssumption DEF VisibleSession

LEMMA StepRefines ==
  IInv /\ [Next]_vars =>
    [Registry!Next]_(Registry!vars)
<1> DEFINE reg == [id \in ConnectionIds |-> VisibleSession(id)]
<1> SUFFICES ASSUME IInv, [Next]_vars
             PROVE  Registry!Next \/ (reg' = reg /\ call' = call)
  BY DEF Registry!vars
<1>1. ASSUME NEW s \in Sessions, Register(s)
      PROVE  Registry!Next
  <2>1. Registry!Register(NextConnectionId, s)
    BY <1>1, RegisterRefines
  <2>2. freeIndices # <<>>
    BY <1>1 DEF Register, Allocate
  <2>3. /\ Head(freeIndices) \in 0 .. IndexSpan - 1
        /\ slots[Head(freeIndices)].generation \in Generations
    BY <2>2 DEF IInv, TypeOK, TableTypeOK, Indices
  <2>4. NextConnectionId \in ConnectionIds
    BY <2>3, IdArithmetic DEF NextConnectionId
  <2> QED
    BY <2>1, <2>4 DEF Registry!Next
<1>2. ASSUME NEW id \in ConnectionIds, Remove(id)
      PROVE  Registry!Next
  BY <1>2, RemoveRefines DEF Registry!Next
<1>3. ASSUME NEW c \in Clients, RemoveClientBegin(c)
      PROVE  Registry!Next
  BY <1>3, SweepBeginRefines DEF Registry!Next
<1>4. CASE RemoveClientSlot
  <2>1. \A b \in ConnectionIds : VisibleSession(b)' = VisibleSession(b)
    BY <1>4, SweepSlotStutters
  <2> QED
    BY <1>4, <2>1 DEF ConnectionIds, RemoveClientSlot
<1>5. CASE RemoveClientEnd
  <2>1. \A b \in ConnectionIds : VisibleSession(b)' = VisibleSession(b)
    BY <1>5, SweepEndStutters
  <2> QED
    BY <1>5, <2>1 DEF ConnectionIds, RemoveClientEnd
<1>6. CASE UNCHANGED vars
  BY <1>6 DEF vars, VisibleSession, Find, GetIndex, GetGeneration,
              ConnectionIds, InvalidConnectionId
<1> QED
  BY <1>1, <1>2, <1>3, <1>4, <1>5, <1>6 DEF Next

(* Slots, generations and the free queue implement the map of connection   *)
(* ids to sessions: an id maps to nothing when it is issued, a removal     *)
(* touches one id, and a client's removal is atomic for every caller.      *)
THEOREM TableImplementsRegistry == Spec => ImplementsRegistry
  BY InvariantIInv, RegistryInit, StepRefines, PTL
     DEF Spec, ImplementsRegistry, Registry!Spec
=============================================================================
