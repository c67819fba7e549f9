------------------------- MODULE SessionLookupTable -------------------------
(***************************************************************************)
(* SessionLookupTable (SessionLookupTable.h/.cpp): a vector of slots, each *)
(* a session pointer and a generation, and a FIFO queue of free indices.   *)
(* A connection id is a 64-bit word, the generation above the slot index.  *)
(* Every operation runs under slotsMutex.  Allocate and Release are one    *)
(* action each; ReleaseByClientId, the only loop that changes the table,   *)
(* is an action per slot, with the mutex held from SweepBegin to SweepEnd. *)
(***************************************************************************)
EXTENDS Integers, Sequences

CONSTANTS
  SlotCount,       \* maxSessionCount
  IndexSpan,       \* 2^32 in the code: index values, the id's low half
  GenerationSpan,  \* 2^32 in the code: generation values, the id's high half
  Sessions, NoSession,
  Clients, NoClient,
  Owner            \* Session::clientId, fixed by the constructor

ASSUME TableAssumption ==
  /\ SlotCount \in Nat
  /\ IndexSpan \in Nat \ {0} /\ SlotCount <= IndexSpan
  /\ GenerationSpan \in Nat /\ GenerationSpan >= 2
  /\ NoSession \notin Sessions
  /\ NoClient \notin Clients
  /\ Owner \in [Sessions -> Clients]

VARIABLES
  slots,           \* [Indices -> [session, generation]]
  freeIndices,     \* queue of indices
  sweepClient,     \* the client ReleaseByClientId is running for, or NoClient
  sweepIndex       \* the slot its loop has reached

tableVars == <<slots, freeIndices, sweepClient, sweepIndex>>

Indices == 0 .. SlotCount - 1
Generations == 1 .. GenerationSpan - 1
ConnectionIds == 0 .. GenerationSpan * IndexSpan - 1
InvalidConnectionId == 0
-----------------------------------------------------------------------------
MakeConnectionId(index, generation) == generation * IndexSpan + index
GetIndex(id) == id % IndexSpan
GetGeneration(id) == id \div IndexSpan

\* Mutants of the two operators below: the wrapped value 0 kept, and the
\* generation comparison forgotten.
NextGenerationKeepingZero(g) == (g + 1) % GenerationSpan
FindIgnoringGeneration(id) ==
  IF id = InvalidConnectionId \/ GetIndex(id) >= SlotCount
    THEN NoSession
    ELSE slots[GetIndex(id)].session

\* ++generation on a 32-bit word, then once more when it wrapped to 0.
NextGeneration(g) ==
  LET bumped == (g + 1) % GenerationSpan
  IN  IF bumped = 0 THEN bumped + 1 ELSE bumped

Find(id) ==
  IF \/ id = InvalidConnectionId
     \/ GetIndex(id) >= SlotCount
     \/ slots[GetIndex(id)].generation # GetGeneration(id)
    THEN NoSession
    ELSE slots[GetIndex(id)].session

Occupied(i) == slots[i].session # NoSession
ActiveSessions == {slots[i].session : i \in Indices} \ {NoSession}

\* What SnapshotActiveSessions copies out: the id and the session of every
\* occupied slot.
ActiveSnapshot ==
  {<<MakeConnectionId(i, slots[i].generation), slots[i].session>> :
     i \in {j \in Indices : Occupied(j)}}

SlotsMutexFree == sweepClient = NoClient
-----------------------------------------------------------------------------
TableInit ==
  /\ slots = [i \in Indices |-> [session |-> NoSession, generation |-> 1]]
  /\ freeIndices = [k \in 1 .. SlotCount |-> k - 1]
  /\ sweepClient = NoClient
  /\ sweepIndex = 0

\* The id the next Allocate returns.
NextConnectionId ==
  MakeConnectionId(Head(freeIndices), slots[Head(freeIndices)].generation)

\* RegisterClientSession builds the session it passes, so the object is in
\* no slot yet.  With no free index Allocate changes nothing and returns
\* InvalidConnectionId.
Allocate(s) ==
  /\ SlotsMutexFree
  /\ freeIndices # <<>>
  /\ s \notin ActiveSessions
  /\ slots' = [slots EXCEPT ![Head(freeIndices)] =
                 [session |-> s, generation |-> @.generation]]
  /\ freeIndices' = Tail(freeIndices)
  /\ UNCHANGED <<sweepClient, sweepIndex>>

\* The tail common to Release and to an iteration of ReleaseByClientId.
Vacate(i) ==
  /\ slots' = [slots EXCEPT ![i] =
                 [session |-> NoSession,
                  generation |-> NextGeneration(@.generation)]]
  /\ freeIndices' = Append(freeIndices, i)

\* Mutants: whatever generation the id names is released, and a vacant slot
\* whose generation matches is released again.
ReleasableAnyGeneration(id) ==
  /\ GetIndex(id) < SlotCount
  /\ Occupied(GetIndex(id))
ReleasableWhenVacant(id) ==
  /\ GetIndex(id) < SlotCount
  /\ slots[GetIndex(id)].generation = GetGeneration(id)

Releasable(id) ==
  /\ GetIndex(id) < SlotCount
  /\ Occupied(GetIndex(id))
  /\ slots[GetIndex(id)].generation = GetGeneration(id)

Release(id) ==
  /\ SlotsMutexFree
  /\ Releasable(id)
  /\ Vacate(GetIndex(id))
  /\ UNCHANGED <<sweepClient, sweepIndex>>

\* ReleaseByClientId: lock, visit the slots in index order, unlock.
SweepBegin(c) ==
  /\ SlotsMutexFree
  /\ sweepClient' = c
  /\ sweepIndex' = 0
  /\ UNCHANGED <<slots, freeIndices>>

\* Mutant: the client of the session is not compared.
SweptAnyOwner(i) == Occupied(i)

Swept(i) == Occupied(i) /\ Owner[slots[i].session] = sweepClient

SweepSlot ==
  /\ sweepClient # NoClient
  /\ sweepIndex < SlotCount
  /\ \/ Swept(sweepIndex) /\ Vacate(sweepIndex)
     \/ ~Swept(sweepIndex) /\ UNCHANGED <<slots, freeIndices>>
  /\ sweepIndex' = sweepIndex + 1
  /\ UNCHANGED sweepClient

SweepEnd ==
  /\ sweepClient # NoClient
  /\ sweepIndex = SlotCount
  /\ sweepClient' = NoClient
  /\ sweepIndex' = 0
  /\ UNCHANGED <<slots, freeIndices>>
-----------------------------------------------------------------------------
TableTypeOK ==
  /\ slots \in [Indices -> [session : Sessions \cup {NoSession},
                            generation : Generations]]
  /\ freeIndices \in Seq(Indices)
  /\ sweepClient \in Clients \cup {NoClient}
  /\ sweepIndex \in 0 .. SlotCount

(* The free queue lists every vacant slot exactly once and no occupied one, *)
(* so a session is never overwritten, no slot leaks, and the size           *)
(* SnapshotActiveSessions reserves (slots - free indices) is the number of  *)
(* sessions it copies, never a wrapped unsigned difference.                 *)
FreeListExact ==
  /\ \A k, l \in 1 .. Len(freeIndices) :
       freeIndices[k] = freeIndices[l] => k = l
  /\ \A i \in Indices :
       (\E k \in 1 .. Len(freeIndices) : freeIndices[k] = i) <=> ~Occupied(i)
=============================================================================
