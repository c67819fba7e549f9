--------------------- MODULE SessionLookupTable_proofs ---------------------
(***************************************************************************)
(* What the session table's operations do to a table that is in order, for *)
(* every number of slots and every width of the two halves of an id.  The  *)
(* proofs about the specifications that use the table rest on it.          *)
(***************************************************************************)
EXTENDS SessionLookupTable, TLAPS

USE TableAssumption DEF TableAssumption

(* The two halves of a connection id can be read back from it.             *)
LEMMA IdArithmetic ==
  ASSUME NEW i \in 0 .. IndexSpan - 1, NEW g \in Generations
  PROVE  /\ MakeConnectionId(i, g) \in ConnectionIds
         /\ MakeConnectionId(i, g) # InvalidConnectionId
         /\ GetIndex(MakeConnectionId(i, g)) = i
         /\ GetGeneration(MakeConnectionId(i, g)) = g
<1>1. g * IndexSpan \in Nat /\ g * IndexSpan >= IndexSpan
  BY SMTT(30) DEF Generations
<1>2. g * IndexSpan <= (GenerationSpan - 1) * IndexSpan
  BY SMTT(30) DEF Generations
<1>3. (GenerationSpan - 1) * IndexSpan = GenerationSpan * IndexSpan - IndexSpan
  BY SMTT(30)
<1>4. GenerationSpan * IndexSpan \in Nat
  BY SMTT(30)
<1>5. (g * IndexSpan + i) % IndexSpan = i
  BY SMTT(30) DEF Generations
<1>6. (g * IndexSpan + i) \div IndexSpan = g
  BY SMTT(30) DEF Generations
<1>7. g * IndexSpan + i \in 0 .. GenerationSpan * IndexSpan - 1
  BY <1>1, <1>2, <1>3, <1>4
<1> QED
  BY <1>1, <1>5, <1>6, <1>7
     DEF MakeConnectionId, ConnectionIds, InvalidConnectionId,
         GetIndex, GetGeneration

(* An id is determined by its two halves, and both are natural numbers.    *)
LEMMA IdHalves ==
  ASSUME NEW id \in ConnectionIds
  PROVE  /\ GetIndex(id) \in 0 .. IndexSpan - 1
         /\ GetGeneration(id) \in 0 .. GenerationSpan - 1
         /\ id = MakeConnectionId(GetIndex(id), GetGeneration(id))
<1>1. GenerationSpan * IndexSpan \in Nat
  BY SMTT(30)
<1>2. id \in Nat
  BY <1>1 DEF ConnectionIds
<1> DEFINE q == id \div IndexSpan
           r == id % IndexSpan
<1>3. q \in Int /\ r \in 0 .. IndexSpan - 1
  BY <1>2, SMTT(30)
<1>4. id = q * IndexSpan + r
  BY <1>2, SMTT(30)
<1>5. q * IndexSpan < GenerationSpan * IndexSpan
  BY <1>1, <1>3, <1>4, SMTT(30) DEF ConnectionIds
<1>6. q >= 0
  BY <1>2, <1>3, <1>4, SMTT(30)
<1> HIDE DEF q, r
<1>7. q < GenerationSpan
  BY <1>3, <1>5, SMTT(30)
<1> QED
  BY <1>3, <1>4, <1>6, <1>7 DEF GetIndex, GetGeneration, MakeConnectionId, q, r

(* Vacating steps through the generations 1 .. GenerationSpan - 1 in a     *)
(* cycle: 0 is never one of them.                                          *)
LEMMA NextGenerationCycles ==
  ASSUME NEW g \in Generations
  PROVE  /\ NextGeneration(g) \in Generations
         /\ NextGeneration(g) = IF g = GenerationSpan - 1 THEN 1 ELSE g + 1
<1>1. g + 1 < GenerationSpan => (g + 1) % GenerationSpan = g + 1
  BY SMTT(30) DEF Generations
<1>2. GenerationSpan % GenerationSpan = 0
  BY SMTT(30)
<1> QED
  BY <1>1, <1>2 DEF NextGeneration, Generations
-----------------------------------------------------------------------------
TableInv == TableTypeOK /\ FreeListExact

(* The constructor's table: every slot vacant and listed once.             *)
LEMMA TableInitInv == TableInit => TableInv
<1> SUFFICES ASSUME TableInit  PROVE TableInv
  OBVIOUS
<1> USE DEF TableInit
<1>1. /\ freeIndices \in Seq(Indices)
      /\ Len(freeIndices) = SlotCount
      /\ \A k \in 1 .. SlotCount : freeIndices[k] = k - 1
  BY DEF Indices
<1>2. TableTypeOK
  BY <1>1 DEF TableTypeOK, Indices, Generations
<1>3. FreeListExact
  <2>1. ASSUME NEW i \in Indices
        PROVE  i + 1 \in 1 .. SlotCount /\ freeIndices[i + 1] = i
    BY <1>1 DEF Indices
  <2>2. \A i \in Indices : ~Occupied(i)
    BY DEF Occupied
  <2>3. \A k, l \in 1 .. Len(freeIndices) :
          freeIndices[k] = freeIndices[l] => k = l
    BY <1>1
  <2>4. \A i \in Indices : \E k \in 1 .. Len(freeIndices) : freeIndices[k] = i
    BY <1>1, <2>1
  <2> HIDE DEF TableInit
  <2> QED
    BY <2>2, <2>3, <2>4 DEF FreeListExact
<1> QED
  BY <1>2, <1>3 DEF TableInv

(* Allocate fills the slot at the head of the free queue, which was vacant,*)
(* and leaves its generation.                                              *)
LEMMA AllocateKeepsTable ==
  ASSUME TableInv, NEW s \in Sessions, Allocate(s), NEW i, i = Head(freeIndices)
  PROVE  /\ TableInv' /\ i \in Indices /\ ~Occupied(i)
         /\ slots' = [slots EXCEPT ![i] =
                        [session |-> s, generation |-> slots[i].generation]]
<1> USE DEF TableTypeOK, TableInv
<1>1. /\ freeIndices # <<>>
      /\ slots' = [slots EXCEPT ![i] =
                     [session |-> s, generation |-> slots[i].generation]]
      /\ freeIndices' = Tail(freeIndices)
      /\ sweepClient' = sweepClient /\ sweepIndex' = sweepIndex
  BY DEF Allocate
<1>2. /\ i \in Indices
      /\ i = freeIndices[1]
      /\ Len(freeIndices) \in Nat \ {0}
      /\ Len(freeIndices') = Len(freeIndices) - 1
      /\ freeIndices' \in Seq(Indices)
      /\ \A k \in 1 .. Len(freeIndices') : freeIndices'[k] = freeIndices[k + 1]
  BY <1>1
<1>3. ~Occupied(i)
  BY <1>2 DEF FreeListExact
<1>4. TableTypeOK'
  BY <1>1, <1>2
<1>5. FreeListExact'
  <2>1. \A k, l \in 1 .. Len(freeIndices) :
          freeIndices[k] = freeIndices[l] => k = l
    BY DEF FreeListExact
  <2>2. ASSUME NEW k \in 1 .. Len(freeIndices')
        PROVE  /\ k + 1 \in 1 .. Len(freeIndices)
               /\ freeIndices'[k] = freeIndices[k + 1]
               /\ freeIndices'[k] # i
    <3>1. k + 1 \in 1 .. Len(freeIndices) /\ 1 \in 1 .. Len(freeIndices)
      BY <1>2
    <3>2. k + 1 # 1 /\ freeIndices'[k] = freeIndices[k + 1]
      BY <1>2
    <3> QED
      BY <1>2, <2>1, <3>1, <3>2
  <2>3. \A k \in 1 .. Len(freeIndices) :
          k = 1 \/ (k - 1 \in 1 .. Len(freeIndices')
                      /\ freeIndices'[k - 1] = freeIndices[k])
    BY <1>2
  <2>4. \A k, l \in 1 .. Len(freeIndices') :
          freeIndices'[k] = freeIndices'[l] => k = l
    BY <2>1, <2>2
  <2>5. ASSUME NEW j \in Indices
        PROVE  (\E k \in 1 .. Len(freeIndices') : freeIndices'[k] = j)
                 <=> ~Occupied(j)'
    <3>1. CASE j = i
      <4>1. Occupied(j)'
        BY <1>1, <1>2, <3>1, TableAssumption DEF Occupied, TableAssumption
      <4> QED
        BY <2>2, <3>1, <4>1
    <3>2. CASE j # i
      <4>1. Occupied(j)' <=> Occupied(j)
        BY <1>1, <1>2, <3>2 DEF Occupied
      <4>2. (\E k \in 1 .. Len(freeIndices') : freeIndices'[k] = j)
              <=> \E k \in 1 .. Len(freeIndices) : freeIndices[k] = j
        <5>1. ASSUME NEW k \in 1 .. Len(freeIndices'), freeIndices'[k] = j
              PROVE  \E l \in 1 .. Len(freeIndices) : freeIndices[l] = j
          BY <2>2, <5>1
        <5>2. ASSUME NEW k \in 1 .. Len(freeIndices), freeIndices[k] = j
              PROVE  \E l \in 1 .. Len(freeIndices') : freeIndices'[l] = j
          BY <1>2, <2>3, <3>2, <5>2
        <5> QED
          BY <5>1, <5>2
      <4> QED
        BY <4>1, <4>2 DEF FreeListExact
    <3> QED
      BY <3>1, <3>2
  <2> QED
    BY <2>4, <2>5 DEF FreeListExact
<1> QED
  BY <1>1, <1>2, <1>3, <1>4, <1>5

(* Vacate empties an occupied slot, gives it its next generation and lists *)
(* it as the last.                                                         *)
LEMMA VacateKeepsTable ==
  ASSUME TableInv, NEW i \in Indices, Occupied(i), Vacate(i)
  PROVE  /\ slots' = [slots EXCEPT ![i] =
                        [session |-> NoSession,
                         generation |-> NextGeneration(slots[i].generation)]]
         /\ slots' \in [Indices -> [session : Sessions \cup {NoSession},
                                    generation : Generations]]
         /\ freeIndices' \in Seq(Indices)
         /\ FreeListExact'
<1> USE DEF TableTypeOK, TableInv
<1>1. slots[i].generation \in Generations
  OBVIOUS
<1>2. slots' = [slots EXCEPT ![i] =
                  [session |-> NoSession,
                   generation |-> NextGeneration(slots[i].generation)]]
  BY DEF Vacate
<1>3. slots' \in [Indices -> [session : Sessions \cup {NoSession},
                              generation : Generations]]
  BY <1>1, <1>2, NextGenerationCycles
<1>4. /\ freeIndices' \in Seq(Indices)
      /\ Len(freeIndices') = Len(freeIndices) + 1
      /\ \A k \in 1 .. Len(freeIndices) : freeIndices'[k] = freeIndices[k]
      /\ freeIndices'[Len(freeIndices) + 1] = i
  BY DEF Vacate
<1>5. FreeListExact'
  <2>1. \A k \in 1 .. Len(freeIndices) : freeIndices[k] # i
    BY DEF FreeListExact
  <2>a. Len(freeIndices) \in Nat
    OBVIOUS
  <2>b. \A k \in 1 .. Len(freeIndices') :
          \/ k \in 1 .. Len(freeIndices) /\ freeIndices'[k] = freeIndices[k]
          \/ k = Len(freeIndices) + 1 /\ freeIndices'[k] = i
    BY <1>4, <2>a
  <2>c. \A k, l \in 1 .. Len(freeIndices) :
          freeIndices[k] = freeIndices[l] => k = l
    BY DEF FreeListExact
  <2>2. \A k, l \in 1 .. Len(freeIndices') :
          freeIndices'[k] = freeIndices'[l] => k = l
    BY <2>1, <2>b, <2>c
  <2>3. ASSUME NEW j \in Indices
        PROVE  (\E k \in 1 .. Len(freeIndices') : freeIndices'[k] = j)
                 <=> ~Occupied(j)'
    <3>1. CASE j = i
      <4>1. ~Occupied(j)'
        BY <1>2, <3>1 DEF Occupied
      <4>2. Len(freeIndices) + 1 \in 1 .. Len(freeIndices')
        BY <1>4
      <4> QED
        BY <1>4, <3>1, <4>1, <4>2
    <3>2. CASE j # i
      <4>1. Occupied(j)' <=> Occupied(j)
        BY <1>2, <3>2 DEF Occupied
      <4>2. (\E k \in 1 .. Len(freeIndices') : freeIndices'[k] = j)
              <=> \E k \in 1 .. Len(freeIndices) : freeIndices[k] = j
        BY <1>4, <2>a, <2>b, <3>2
      <4> QED
        BY <4>1, <4>2 DEF FreeListExact
    <3> QED
      BY <3>1, <3>2
  <2> QED
    BY <2>2, <2>3 DEF FreeListExact
<1> QED
  BY <1>2, <1>3, <1>4, <1>5

(* Release of a registered id vacates its slot.                            *)
LEMMA ReleaseKeepsTable ==
  ASSUME TableInv, NEW id \in ConnectionIds, Release(id), NEW i, i = GetIndex(id)
  PROVE  /\ TableInv' /\ i \in Indices /\ Occupied(i)
         /\ slots[i].generation = GetGeneration(id)
         /\ slots' = [slots EXCEPT ![i] =
                        [session |-> NoSession,
                         generation |-> NextGeneration(slots[i].generation)]]
<1>1. i \in Indices
  BY IdHalves DEF Release, Releasable, Indices
<1>2. /\ Occupied(i) /\ Vacate(i) /\ slots[i].generation = GetGeneration(id)
      /\ sweepClient' = sweepClient /\ sweepIndex' = sweepIndex
  BY DEF Release, Releasable
<1> QED
  BY <1>1, <1>2, VacateKeepsTable DEF TableInv, TableTypeOK
=============================================================================
