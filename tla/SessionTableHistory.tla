------------------------ MODULE SessionTableHistory ------------------------
(***************************************************************************)
(* The session table driven by any sequence of legal calls, with history   *)
(* variables: every handle (connection id) Allocate ever returned, and how *)
(* often each slot was recycled.  Callers keep handles as long as they     *)
(* like: a peer stamps them on datagrams, a disconnect task queues one, an *)
(* application stores one.  The history states what an old one resolves to.*)
(***************************************************************************)
EXTENDS SessionLookupTable

CONSTANT MaxReleases   \* bound: a slot recycled so often is not reused

ASSUME HistoryAssumption == MaxReleases \in Nat

VARIABLES
  handles,             \* {[id, slot, born, session]}: what Allocate returned
  releases,            \* [Indices -> Nat]: times the slot was vacated
  call                 \* the last call that changed the table

vars ==
  <<slots, freeIndices, sweepClient, sweepIndex, handles, releases, call>>

Init ==
  /\ TableInit
  /\ handles = {}
  /\ releases = [i \in Indices |-> 0]
  /\ call = <<"none", InvalidConnectionId>>

Register(s) ==
  /\ Allocate(s)
  /\ releases[Head(freeIndices)] < MaxReleases
  /\ handles' = handles \cup
       {[id |-> NextConnectionId, slot |-> Head(freeIndices),
         born |-> releases[Head(freeIndices)], session |-> s]}
  /\ call' = <<"register", NextConnectionId>>
  /\ UNCHANGED releases

Remove(id) ==
  /\ Release(id)
  /\ releases' = [releases EXCEPT ![GetIndex(id)] = @ + 1]
  /\ call' = <<"remove", id>>
  /\ UNCHANGED handles

RemoveClientBegin(c) ==
  /\ SweepBegin(c)
  /\ call' = <<"removeClient", c>>
  /\ UNCHANGED <<handles, releases>>

RemoveClientSlot ==
  /\ SweepSlot
  /\ \/ Swept(sweepIndex) /\ releases' = [releases EXCEPT ![sweepIndex] = @ + 1]
     \/ ~Swept(sweepIndex) /\ UNCHANGED releases
  /\ UNCHANGED <<handles, call>>

RemoveClientEnd == SweepEnd /\ UNCHANGED <<handles, releases, call>>

Next ==
  \/ \E s \in Sessions : Register(s)
  \/ \E id \in ConnectionIds : Remove(id)
  \/ \E c \in Clients : RemoveClientBegin(c)
  \/ RemoveClientSlot
  \/ RemoveClientEnd

Spec == Init /\ [][Next]_vars
-----------------------------------------------------------------------------
Handles ==
  [id : ConnectionIds, slot : Indices, born : Nat, session : Sessions]

(* Slots, free queue, loop position and histories have their types; no id  *)
(* handed out is InvalidConnectionId, whatever the generation wrapped to.  *)
TypeOK ==
  /\ TableTypeOK
  /\ handles \subseteq Handles
  /\ \A h \in handles : h.id # InvalidConnectionId
  /\ releases \in [Indices -> Nat]

Age(h) == releases[h.slot] - h.born

(* Find on a handle, for as long as its slot has been recycled fewer times *)
(* than there are generations (2^32 - 1 in the code): the session it was   *)
(* handed out for while that is registered, nothing afterwards, and never  *)
(* the slot's later occupant.                                              *)
StaleHandleRejected ==
  \A h \in handles :
    Age(h) < GenerationSpan - 1 =>
      Find(h.id) = IF Age(h) = 0 THEN h.session ELSE NoSession

\* The map a caller sees.  While a client's sessions are being swept under
\* the mutex, the ones the loop has not reached yet already count as gone.
VisibleSession(id) ==
  IF /\ Find(id) \in Sessions
     /\ sweepClient # NoClient
     /\ GetIndex(id) >= sweepIndex
     /\ Owner[Find(id)] = sweepClient
    THEN NoSession
    ELSE Find(id)

Registry == INSTANCE SessionRegistry WITH
  registry <- [id \in ConnectionIds |-> VisibleSession(id)]

(* The slots, generations and free indices implement the map: an id given  *)
(* out maps to nothing before, a removal touches that id alone, and a      *)
(* client's removal takes exactly its sessions.                            *)
ImplementsRegistry == Registry!Spec
=============================================================================
