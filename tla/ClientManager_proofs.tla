------------------------ MODULE ClientManager_proofs ------------------------
(***************************************************************************)
(* Proofs about ClientManager, for any numbers of threads, ids and calls.  *)
(* The inductive invariant follows a client from the thread that adds it,  *)
(* through its entry, to the thread that destroys it: who has it at each   *)
(* step, what its entry then says, and that an id nobody was given yet is  *)
(* nowhere.                                                                *)
(***************************************************************************)
EXTENDS ClientManager, TLAPS

\* Thread t has the client in its hands, outside the client's entry.
Carries(t, id) == pc[t] \in {"created", "destroy"} /\ target[t] = id

\* An id that was not issued is not in use anywhere.
IdsAreFresh ==
  \A id \in ClientIds \ Issued :
    /\ id \notin clients \cup destroyed
    /\ ~hasClient[id] /\ ~removing[id]
    /\ \A t \in Threads : target[t] # id

\* A client is carried by one thread, or in its entry, or destroyed.
OwnerInv ==
  /\ \A id \in Issued :
       hasClient[id] \/ id \in destroyed \/ \E t \in Threads : Carries(t, id)
  /\ \A id \in ClientIds : ~(hasClient[id] /\ id \in destroyed)
  /\ \A t \in Threads : pc[t] \in {"created", "destroy"} =>
       /\ ~hasClient[target[t]] /\ target[t] \notin destroyed
       /\ \A u \in Threads : Carries(u, target[t]) => u = t

\* What an entry says of its client: in the map, taken out of it by one
\* removal, marked, or marked while a visitor is to destroy it.
EntryInv ==
  /\ \A id \in clients : hasClient[id] /\ ~removing[id]
  /\ \A t \in Threads : \A id \in pending[t] :
       /\ hasClient[id] /\ ~removing[id] /\ id \notin clients
       /\ \A u \in Threads : id \in pending[u] => u = t
  /\ \A t \in Threads : pc[t] = "created" => ~removing[target[t]]
  /\ \A id \in ClientIds :
       removing[id] /\ hasClient[id] => visitor[id] # NoThread
  /\ \A t \in Threads : \A id \in left[t] : removing[id]

\* A visit, as its thread and the entry see it, and the visits to come.
VisitInv ==
  /\ \A t \in Threads : visiting[t] # InvalidClientId =>
       visitor[visiting[t]] = t /\ hasClient[visiting[t]]
  /\ \A id \in ClientIds :
       visitor[id] # NoThread => visiting[visitor[id]] = id
  /\ \A t \in Threads : pc[t] \in {"enter", "waiting"} =>
       /\ visiting[t] = InvalidClientId
       /\ hasClient[target[t]] \/ removing[target[t]]

IInv ==
  /\ TypeOK /\ IdsAreFresh /\ OwnerInv /\ EntryInv /\ VisitInv /\ NoLostWakeup
-----------------------------------------------------------------------------
(* Issuing an id adds that id, a new one, to those issued, although the    *)
(* counter wraps to InvalidClientId with the last.                         *)
LEMMA IssuedGrows ==
  ASSUME TypeOK, ClientIdLeft, nextClientId' = (nextClientId + 1) % IdSpan
  PROVE  /\ nextClientId \in ClientIds \ Issued
         /\ Issued' = Issued \cup {nextClientId}
         /\ nextClientId' \in 0 .. IdSpan - 1
<1>1. /\ IdSpan \in Nat \ {0} /\ nextClientId \in 0 .. IdSpan - 1
      /\ nextClientId # 0
  BY ManagerAssumption DEF TypeOK, ClientIdLeft, InvalidClientId
<1>2. \/ nextClientId + 1 < IdSpan /\ nextClientId' = nextClientId + 1
      \/ nextClientId + 1 = IdSpan /\ nextClientId' = 0
  BY <1>1
<1> QED
  BY <1>1, <1>2 DEF Issued, ClientIds

LEMMA InitIInv == Init => IInv
<1> SUFFICES ASSUME Init PROVE IInv
  OBVIOUS
<1>1. IdSpan \in Nat \ {0} /\ 1 % IdSpan \in 0 .. IdSpan - 1
  BY ManagerAssumption
<1>2. TypeOK
  BY <1>1 DEF Init, TypeOK, Pcs, ClientIds, InvalidClientId
<1>3. Issued = {}
  <2>1. CASE IdSpan = 1
    BY <2>1 DEF Issued, ClientIds
  <2>2. CASE IdSpan > 1
    <3>1. 1 % IdSpan = 1
      BY <1>1, <2>2
    <3> QED
      BY <3>1 DEF Init, Issued, ClientIds
  <2> QED
    BY <1>1, <2>1, <2>2
<1>4. IdsAreFresh /\ OwnerInv
  BY <1>3 DEF Init, IdsAreFresh, OwnerInv, Carries, ClientIds,
       InvalidClientId
<1>5. EntryInv /\ VisitInv /\ NoLostWakeup
  BY DEF Init, EntryInv, VisitInv, NoLostWakeup, Waiting
<1> QED
  BY <1>2, <1>4, <1>5 DEF IInv
-----------------------------------------------------------------------------
LEMMA AddAllocateKeeps ==
  ASSUME IInv, NEW t \in Threads, AddAllocate(t)
  PROVE  IInv'
<1> USE DEF InvalidClientId
<1>1. /\ nextClientId \in ClientIds \ Issued /\ nextClientId # 0
      /\ Issued' = Issued \cup {nextClientId}
      /\ nextClientId' \in 0 .. IdSpan - 1
  BY IssuedGrows DEF IInv, AddAllocate, ClientIdLeft
<1>2. /\ pc[t] = "out" /\ pc' = [pc EXCEPT ![t] = "created"]
      /\ target' = [target EXCEPT ![t] = nextClientId]
      /\ UNCHANGED <<clients, hasClient, removing, visitor, pending, visiting,
                     destroyed, left>>
  BY DEF AddAllocate, Call, entryVars
<1>3. TypeOK'
  BY <1>1, <1>2 DEF IInv, TypeOK, AddAllocate, Call, Pcs
<1>4. /\ pc \in [Threads -> Pcs] /\ target \in [Threads -> ClientIds \cup {0}]
      /\ \A u \in Threads : target[u] # nextClientId
  BY <1>1 DEF IInv, TypeOK, IdsAreFresh
<1>5. IdsAreFresh'
  BY <1>1, <1>2, <1>4 DEF IInv, IdsAreFresh
<1>6. OwnerInv'
  <2>1. \A u \in Threads, id \in ClientIds :
          Carries(u, id)' <=>
            Carries(u, id) \/ (u = t /\ id = nextClientId)
    BY <1>1, <1>2, <1>4 DEF Carries
  <2>2. ~hasClient[nextClientId] /\ nextClientId \notin destroyed
    BY <1>1 DEF IInv, IdsAreFresh
  <2> QED
    BY <1>1, <1>2, <1>4, <2>1, <2>2 DEF IInv, OwnerInv, Carries
<1>7. EntryInv'
  BY <1>1, <1>2, <1>4 DEF IInv, EntryInv, IdsAreFresh
<1>8. VisitInv'
  BY <1>2, <1>4 DEF IInv, VisitInv
<1>9. NoLostWakeup'
  BY <1>2, <1>4 DEF IInv, NoLostWakeup, Waiting
<1> QED
  BY <1>3, <1>5, <1>6, <1>7, <1>8, <1>9 DEF IInv

LEMMA AddEmplaceKeeps ==
  ASSUME IInv, NEW t \in Threads, AddEmplace(t)
  PROVE  IInv'
<1> USE DEF InvalidClientId
<1> DEFINE new == target[t]
<1>1. /\ pc[t] = "created" /\ pc' = [pc EXCEPT ![t] = "out"]
      /\ clients' = clients \cup {new}
      /\ hasClient' = [hasClient EXCEPT ![new] = TRUE]
      /\ UNCHANGED <<nextClientId, removing, visitor, target, pending,
                     visiting, destroyed, left>>
  BY DEF AddEmplace
<1>2. /\ pc \in [Threads -> Pcs] /\ target \in [Threads -> ClientIds \cup {0}]
      /\ hasClient \in [ClientIds -> BOOLEAN] /\ new \in ClientIds
      /\ pending \in [Threads -> SUBSET ClientIds]
      /\ visiting \in [Threads -> ClientIds \cup {0}]
  BY <1>1 DEF IInv, TypeOK
<1>3. TypeOK'
  BY <1>1, <1>2 DEF IInv, TypeOK, AddEmplace, Pcs
<1>4. Issued' = Issued
  BY <1>1 DEF Issued
<1>5. new \in Issued
  BY <1>2 DEF IInv, IdsAreFresh
<1>6. /\ ~hasClient[new] /\ ~removing[new] /\ new \notin destroyed
      /\ \A u \in Threads : Carries(u, new) => u = t
  BY <1>1 DEF IInv, OwnerInv, EntryInv
<1>7. IdsAreFresh'
  BY <1>1, <1>2, <1>4, <1>5 DEF IInv, IdsAreFresh
<1>8. OwnerInv'
  <2>1. \A u \in Threads, id \in ClientIds :
          Carries(u, id)' <=> Carries(u, id) /\ u # t
    BY <1>1, <1>2 DEF Carries
  <2>2. \A u \in Threads : pc'[u] \in {"created", "destroy"} =>
          /\ pc[u] \in {"created", "destroy"} /\ target[u] \in ClientIds
          /\ target[u] # new
    BY <1>1, <1>2, <1>6 DEF Carries, IInv, TypeOK
  <2> QED
    BY <1>1, <1>2, <1>4, <1>6, <2>1, <2>2 DEF IInv, OwnerInv, Carries
<1>9. EntryInv'
  BY <1>1, <1>2, <1>6 DEF IInv, EntryInv
<1>10. VisitInv'
  BY <1>1, <1>2 DEF IInv, VisitInv, TypeOK
<1>11. NoLostWakeup'
  BY <1>1, <1>2 DEF IInv, NoLostWakeup, Waiting
<1> QED
  BY <1>3, <1>7, <1>8, <1>9, <1>10, <1>11 DEF IInv
-----------------------------------------------------------------------------
(* A step that takes no client out of an entry or out of a thread's hands  *)
(* leaves the owners as they are.                                          *)
LEMMA OwnersKept ==
  ASSUME TypeOK', OwnerInv, UNCHANGED <<nextClientId, hasClient, destroyed>>,
         \A u \in Threads, id \in ClientIds : Carries(u, id)' <=> Carries(u, id)
  PROVE  OwnerInv'
<1>1. Issued' = Issued /\ Issued \subseteq ClientIds
  BY DEF Issued
<1>2. \A u \in Threads : pc'[u] \in {"created", "destroy"} =>
        /\ target'[u] \in ClientIds /\ target'[u] = target[u]
        /\ pc[u] \in {"created", "destroy"}
  BY DEF TypeOK, Carries, InvalidClientId
<1> QED
  BY <1>1, <1>2 DEF OwnerInv

LEMMA VisitFindKeeps ==
  ASSUME IInv, NEW t \in Threads, NEW id \in ClientIds, VisitFind(t, id)
  PROVE  IInv'
<1> USE DEF InvalidClientId
<1>1. /\ pc[t] = "out" /\ pc' = [pc EXCEPT ![t] = "enter"]
      /\ target' = [target EXCEPT ![t] = id]
      /\ visiting[t] = 0 /\ id \in clients
      /\ UNCHANGED <<nextClientId, clients, hasClient, removing, visitor,
                     pending, visiting, destroyed, left>>
  BY DEF VisitFind, Call, IsVisiting, entryVars
<1>2. /\ pc \in [Threads -> Pcs] /\ target \in [Threads -> ClientIds \cup {0}]
      /\ id # 0 /\ hasClient[id] /\ ~removing[id]
  BY <1>1 DEF IInv, TypeOK, EntryInv, ClientIds
<1>3. TypeOK'
  BY <1>1, <1>2 DEF IInv, TypeOK, VisitFind, Call, Pcs
<1>4. Issued' = Issued
  BY <1>1 DEF Issued
<1>5. IdsAreFresh'
  BY <1>1, <1>2, <1>4 DEF IInv, IdsAreFresh
<1>6. OwnerInv'
  <2>1. \A u \in Threads, i \in ClientIds : Carries(u, i)' <=> Carries(u, i)
    BY <1>1, <1>2 DEF Carries
  <2> QED
    BY <1>1, <1>3, <2>1, OwnersKept DEF IInv
<1>7. EntryInv'
  BY <1>1, <1>2 DEF IInv, EntryInv
<1>8. VisitInv'
  BY <1>1, <1>2 DEF IInv, VisitInv
<1>9. NoLostWakeup'
  BY <1>1, <1>2 DEF IInv, NoLostWakeup, Waiting
<1> QED
  BY <1>3, <1>5, <1>6, <1>7, <1>8, <1>9 DEF IInv

LEMMA VisitEnterKeeps ==
  ASSUME IInv, NEW t \in Threads, VisitEnter(t)
  PROVE  IInv'
<1> USE DEF InvalidClientId
<1> DEFINE id == target[t]
<1>1. /\ pc[t] = "enter" /\ visiting[t] = 0
      /\ UNCHANGED <<nextClientId, clients, hasClient, removing, target,
                     pending, calls, destroyed, left>>
  BY DEF VisitEnter, IInv, VisitInv
<1>2. /\ pc \in [Threads -> Pcs] /\ target \in [Threads -> ClientIds \cup {0}]
      /\ visitor \in [ClientIds -> Threads \cup {NoThread}]
      /\ visiting \in [Threads -> ClientIds \cup {0}]
      /\ id \in ClientIds /\ NoThread \notin Threads /\ 0 \notin ClientIds
  BY <1>1, ManagerAssumption DEF IInv, TypeOK, ClientIds
<1>3. \E at \in {"waiting", "out"} : pc' = [pc EXCEPT ![t] = at]
  BY DEF VisitEnter
<1>4. \/ /\ visitor[id] # NoThread /\ ~removing[id]
         /\ pc' = [pc EXCEPT ![t] = "waiting"]
         /\ UNCHANGED <<visitor, visiting>>
      \/ /\ removing[id] \/ ~hasClient[id]
         /\ pc' = [pc EXCEPT ![t] = "out"]
         /\ UNCHANGED <<visitor, visiting>>
      \/ /\ visitor[id] = NoThread /\ ~removing[id] /\ hasClient[id]
         /\ pc' = [pc EXCEPT ![t] = "out"]
         /\ visitor' = [visitor EXCEPT ![id] = t]
         /\ visiting' = [visiting EXCEPT ![t] = id]
  BY DEF VisitEnter, Ready, Enterable
<1>5. TypeOK'
  BY <1>1, <1>2, <1>4 DEF IInv, TypeOK, Pcs
<1>6. Issued' = Issued
  BY <1>1 DEF Issued
<1>7. IdsAreFresh'
  BY <1>1, <1>6 DEF IInv, IdsAreFresh
<1>8. OwnerInv'
  <2>1. \A u \in Threads, i \in ClientIds : Carries(u, i)' <=> Carries(u, i)
    BY <1>1, <1>2, <1>3 DEF Carries
  <2> QED
    BY <1>1, <1>5, <2>1, OwnersKept DEF IInv
<1>9. EntryInv'
  <2>1. \A i \in ClientIds : visitor[i] # NoThread => visitor'[i] # NoThread
    BY <1>2, <1>4
  <2>2. \A u \in Threads : pc'[u] = "created" => pc[u] = "created"
    BY <1>2, <1>3
  <2> QED
    BY <1>1, <2>1, <2>2 DEF IInv, EntryInv
<1>10. VisitInv'
  <2>1. CASE UNCHANGED <<visitor, visiting>>
    BY <1>1, <1>2, <1>3, <2>1 DEF IInv, VisitInv
  <2>2. CASE /\ visitor[id] = NoThread /\ ~removing[id] /\ hasClient[id]
             /\ pc' = [pc EXCEPT ![t] = "out"]
             /\ visitor' = [visitor EXCEPT ![id] = t]
             /\ visiting' = [visiting EXCEPT ![t] = id]
    BY <1>1, <1>2, <2>2 DEF IInv, VisitInv
  <2> QED
    BY <1>4, <2>1, <2>2
<1>11. NoLostWakeup'
  <2> SUFFICES ASSUME NEW i \in ClientIds, NEW w \in Threads,
                      pc'[w] = "waiting", target[w] = i
               PROVE  /\ ~removing[i]
                      /\ \/ visitor'[i] # NoThread
                         \/ \E u \in Threads : pc'[u] = "enter" /\ target[u] = i
    BY <1>1 DEF NoLostWakeup, Waiting
  <2>1. CASE w = t
    BY <1>2, <1>4, <2>1
  <2>2. CASE w # t
    <3>1. /\ ~removing[i]
          /\ \/ visitor[i] # NoThread
             \/ \E u \in Threads : pc[u] = "enter" /\ target[u] = i
      BY <1>2, <1>3, <2>2 DEF IInv, NoLostWakeup, Waiting
    <3>2. CASE i = id
      BY <1>1, <1>2, <1>4, <3>1, <3>2 DEF IInv, VisitInv
    <3>3. CASE i # id
      BY <1>2, <1>4, <3>1, <3>3
    <3> QED
      BY <3>2, <3>3
  <2> QED
    BY <2>1, <2>2
<1> QED
  BY <1>5, <1>7, <1>8, <1>9, <1>10, <1>11 DEF IInv

LEMMA SpuriousWakeupKeeps ==
  ASSUME IInv, NEW t \in Threads, SpuriousWakeup(t)
  PROVE  IInv'
<1> USE DEF InvalidClientId
<1>1. /\ pc[t] = "waiting" /\ pc' = [pc EXCEPT ![t] = "enter"]
      /\ UNCHANGED <<nextClientId, clients, hasClient, removing, visitor,
                     target, pending, visiting, calls, destroyed, left>>
  BY DEF SpuriousWakeup, entryVars
<1>2. /\ pc \in [Threads -> Pcs] /\ target \in [Threads -> ClientIds \cup {0}]
  BY DEF IInv, TypeOK
<1>3. TypeOK'
  BY <1>1, <1>2 DEF IInv, TypeOK, Pcs
<1>4. Issued' = Issued
  BY <1>1 DEF Issued
<1>5. IdsAreFresh'
  BY <1>1, <1>4 DEF IInv, IdsAreFresh
<1>6. OwnerInv'
  <2>1. \A u \in Threads, i \in ClientIds : Carries(u, i)' <=> Carries(u, i)
    BY <1>1, <1>2 DEF Carries
  <2> QED
    BY <1>1, <1>3, <2>1, OwnersKept DEF IInv
<1>7. EntryInv' /\ VisitInv'
  BY <1>1, <1>2 DEF IInv, EntryInv, VisitInv
<1>8. NoLostWakeup'
  BY <1>1, <1>2 DEF IInv, NoLostWakeup, Waiting
<1> QED
  BY <1>3, <1>5, <1>6, <1>7, <1>8 DEF IInv
(* A thread moves to at, and of the others only those woken do.            *)
LEMMA MovesWake ==
  ASSUME TypeOK, NEW t \in Threads, NEW at \in Pcs, NEW woken,
         \A u \in woken : u \in Threads /\ pc[u] = "waiting",
         Moves(t, at, woken)
  PROVE  /\ pc' \in [Threads -> Pcs] /\ pc'[t] = at
         /\ \A u \in Threads \ {t} :
              /\ u \in woken => pc'[u] = "enter"
              /\ u \notin woken => pc'[u] = pc[u]
BY DEF TypeOK, Moves, Pcs

LEMMA VisitFinishKeeps ==
  ASSUME IInv, NEW t \in Threads, VisitFinish(t)
  PROVE  IInv'
<1> USE DEF InvalidClientId
<1> DEFINE id == visiting[t]
<1>1. /\ pc[t] = "out" /\ id # 0
      /\ visitor' = [visitor EXCEPT ![id] = NoThread]
      /\ visiting' = [visiting EXCEPT ![t] = 0]
      /\ UNCHANGED <<nextClientId, clients, removing, pending, calls,
                     destroyed, left>>
  BY DEF VisitFinish
<1>2. PICK woken \in NotifyOne(id) :
        \/ /\ removing[id] /\ hasClient[id]
           /\ hasClient' = [hasClient EXCEPT ![id] = FALSE]
           /\ target' = [target EXCEPT ![t] = id]
           /\ Moves(t, "destroy", woken)
        \/ /\ ~(removing[id] /\ hasClient[id])
           /\ UNCHANGED <<hasClient, target>>
           /\ Moves(t, "out", woken)
  BY DEF VisitFinish, LeftToVisitor, TakeClient
<1>3. /\ pc \in [Threads -> Pcs] /\ target \in [Threads -> ClientIds \cup {0}]
      /\ visitor \in [ClientIds -> Threads \cup {NoThread}]
      /\ visiting \in [Threads -> ClientIds \cup {0}]
      /\ hasClient \in [ClientIds -> BOOLEAN]
      /\ removing \in [ClientIds -> BOOLEAN]
      /\ id \in ClientIds /\ NoThread \notin Threads /\ 0 \notin ClientIds
      /\ visitor[id] = t /\ hasClient[id]
  BY <1>1, ManagerAssumption DEF IInv, TypeOK, ClientIds, VisitInv
<1>4. /\ \A u \in woken : u \in Threads /\ pc[u] = "waiting" /\ target[u] = id
      /\ (\E u \in Threads : pc[u] = "waiting" /\ target[u] = id) =>
           \E u \in woken : TRUE
  BY <1>2 DEF NotifyOne, Waiting
<1>5. /\ pc' \in [Threads -> Pcs]
      /\ pc'[t] = IF removing[id] THEN "destroy" ELSE "out"
      /\ \A u \in Threads \ {t} :
           /\ u \in woken => pc'[u] = "enter"
           /\ u \notin woken => pc'[u] = pc[u]
  BY <1>2, <1>3, <1>4, MovesWake DEF IInv, Pcs
<1>6. /\ target' \in [Threads -> ClientIds \cup {0}]
      /\ \A u \in Threads \ {t} : target'[u] = target[u]
      /\ target'[t] = IF removing[id] THEN id ELSE target[t]
  BY <1>2, <1>3
<1>7. /\ hasClient' \in [ClientIds -> BOOLEAN]
      /\ \A i \in ClientIds \ {id} : hasClient'[i] = hasClient[i]
      /\ hasClient'[id] = ~removing[id]
  BY <1>2, <1>3
<1> HIDE DEF id
<1>8. TypeOK'
  <2>1. \A u \in Threads :
          pc'[u] \in {"created", "enter", "waiting", "destroy"} => target'[u] # 0
    BY <1>1, <1>3, <1>4, <1>5, <1>6 DEF IInv, TypeOK
  <2>2. /\ visitor' \in [ClientIds -> Threads \cup {NoThread}]
        /\ visiting' \in [Threads -> ClientIds \cup {0}]
    BY <1>1, <1>3
  <2> QED
    BY <1>1, <1>5, <1>6, <1>7, <2>1, <2>2 DEF IInv, TypeOK
<1>9. Issued' = Issued /\ id \in Issued /\ Issued \subseteq ClientIds
  BY <1>1, <1>3 DEF IInv, IdsAreFresh, Issued
<1>10. IdsAreFresh'
  BY <1>1, <1>6, <1>7, <1>9 DEF IInv, IdsAreFresh
<1>11. OwnerInv'
  <2>1. CASE removing[id]
    <3>1. \A u \in Threads, i \in ClientIds :
            Carries(u, i)' <=> Carries(u, i) \/ (u = t /\ i = id)
      BY <1>1, <1>3, <1>4, <1>5, <1>6, <2>1 DEF Carries
    <3>2. \A u \in Threads : pc'[u] \in {"created", "destroy"} =>
            \/ u = t
            \/ /\ pc[u] \in {"created", "destroy"} /\ target'[u] = target[u]
               /\ target[u] \in ClientIds \ {id}
      BY <1>3, <1>4, <1>5, <1>6 DEF IInv, OwnerInv, TypeOK
    <3>3. /\ ~hasClient'[id] /\ id \notin destroyed /\ target'[t] = id
          /\ \A u \in Threads : ~Carries(u, id)
      BY <1>3, <1>6, <1>7, <2>1 DEF IInv, OwnerInv, Carries
    <3> QED
      BY <1>1, <1>3, <1>7, <1>9, <3>1, <3>2, <3>3 DEF IInv, OwnerInv
  <2>2. CASE ~removing[id]
    <3>1. \A u \in Threads, i \in ClientIds : Carries(u, i)' <=> Carries(u, i)
      BY <1>1, <1>3, <1>4, <1>5, <1>6, <2>2 DEF Carries
    <3>2. UNCHANGED hasClient
      BY <1>2, <2>2 DEF id
    <3> QED
      BY <1>1, <1>8, <3>1, <3>2, OwnersKept DEF IInv
  <2> QED
    BY <2>1, <2>2
<1>12. EntryInv'
  <2>1. \A i \in ClientIds : hasClient[i] /\ ~removing[i] => hasClient'[i]
    BY <1>3, <1>7
  <2>2. \A u \in Threads : pc'[u] = "created" =>
          pc[u] = "created" /\ target'[u] = target[u]
    BY <1>5, <1>6
  <2>3. \A i \in ClientIds :
          removing[i] /\ hasClient'[i] => visitor'[i] # NoThread
    BY <1>1, <1>3, <1>7 DEF IInv, EntryInv
  <2> QED
    BY <1>1, <2>1, <2>2, <2>3 DEF IInv, EntryInv, TypeOK
<1>13. VisitInv'
  <2>1. \A u \in Threads : visiting'[u] # 0 =>
          visitor'[visiting'[u]] = u /\ hasClient'[visiting'[u]]
    BY <1>1, <1>3, <1>7 DEF IInv, VisitInv, id
  <2>2. \A i \in ClientIds : visitor'[i] # NoThread => visiting'[visitor'[i]] = i
    BY <1>1, <1>3 DEF IInv, VisitInv, id
  <2>3. \A u \in Threads : pc'[u] \in {"enter", "waiting"} =>
          /\ visiting'[u] = 0
          /\ hasClient'[target'[u]] \/ removing[target'[u]]
    <3> SUFFICES ASSUME NEW u \in Threads, pc'[u] \in {"enter", "waiting"}
                 PROVE  /\ visiting'[u] = 0
                        /\ hasClient'[target'[u]] \/ removing[target'[u]]
      OBVIOUS
    <3>1. u # t /\ pc[u] \in {"enter", "waiting"} /\ target'[u] = target[u]
      BY <1>4, <1>5, <1>6
    <3>2. target[u] \in ClientIds
      BY <1>3, <3>1 DEF IInv, TypeOK
    <3>3. hasClient[target[u]] \/ removing[target[u]]
      BY <3>1 DEF IInv, VisitInv
    <3> QED
      BY <1>1, <1>3, <1>7, <3>1, <3>2, <3>3 DEF IInv, VisitInv
  <2> QED
    BY <1>1, <2>1, <2>2, <2>3 DEF VisitInv
<1>14. NoLostWakeup'
  <2> SUFFICES ASSUME NEW i \in ClientIds, NEW w \in Threads,
                      pc'[w] = "waiting", target'[w] = i
               PROVE  /\ ~removing[i]
                      /\ \/ visitor'[i] # NoThread
                         \/ \E u \in Threads : pc'[u] = "enter" /\ target'[u] = i
    BY <1>1 DEF NoLostWakeup, Waiting
  <2>1. pc[w] = "waiting" /\ target[w] = i
    BY <1>5, <1>6
  <2>2. /\ ~removing[i]
        /\ \/ visitor[i] # NoThread
           \/ \E u \in Threads : pc[u] = "enter" /\ target[u] = i
    BY <2>1 DEF IInv, NoLostWakeup, Waiting
  <2>3. CASE i = id
    BY <1>1, <1>4, <1>5, <1>6, <2>1, <2>2, <2>3
  <2>4. CASE i # id
    BY <1>1, <1>3, <1>5, <1>6, <2>2, <2>4
  <2> QED
    BY <2>3, <2>4
<1> QED
  BY <1>8, <1>10, <1>11, <1>12, <1>13, <1>14 DEF IInv
-----------------------------------------------------------------------------
(* What both removals do: t takes some of the map's clients out of it.     *)
LEMMA TakeOutKeeps ==
  ASSUME IInv, NEW t \in Threads, NEW ids \in SUBSET clients,
         NEW id \in ClientIds \cup {InvalidClientId}, Call(t, "mark", id),
         id \in Issued \cup {InvalidClientId},
         clients' = clients \ ids, pending' = [pending EXCEPT ![t] = ids],
         UNCHANGED <<nextClientId, entryVars, visiting, destroyed, left>>
  PROVE  IInv'
<1> USE DEF InvalidClientId
<1>1. /\ pc[t] = "out" /\ pc' = [pc EXCEPT ![t] = "mark"]
      /\ target' = [target EXCEPT ![t] = id]
      /\ UNCHANGED <<nextClientId, hasClient, removing, visitor, visiting,
                     destroyed, left>>
  BY DEF Call, entryVars
<1>2. /\ pc \in [Threads -> Pcs] /\ target \in [Threads -> ClientIds \cup {0}]
      /\ pending \in [Threads -> SUBSET ClientIds] /\ ids \subseteq ClientIds
      /\ 0 \notin ClientIds
  BY DEF IInv, TypeOK, ClientIds
<1>3. TypeOK'
  BY <1>1, <1>2 DEF IInv, TypeOK, Call, Pcs
<1>4. Issued' = Issued
  BY <1>1 DEF Issued
<1>5. IdsAreFresh'
  BY <1>1, <1>2, <1>4 DEF IInv, IdsAreFresh
<1>6. OwnerInv'
  <2>1. \A u \in Threads, i \in ClientIds : Carries(u, i)' <=> Carries(u, i)
    BY <1>1, <1>2 DEF Carries
  <2> QED
    BY <1>1, <1>3, <2>1, OwnersKept DEF IInv
<1>7. EntryInv'
  <2>1. \A u \in Threads : \A i \in pending'[u] :
          /\ hasClient[i] /\ ~removing[i] /\ i \notin clients'
          /\ \A v \in Threads : i \in pending'[v] => v = u
    BY <1>2 DEF IInv, EntryInv
  <2>2. \A u \in Threads : pc'[u] = "created" =>
          pc[u] = "created" /\ target'[u] = target[u]
    BY <1>1, <1>2
  <2> QED
    BY <1>1, <2>1, <2>2 DEF IInv, EntryInv
<1>8. VisitInv'
  BY <1>1, <1>2 DEF IInv, VisitInv
<1>9. NoLostWakeup'
  BY <1>1, <1>2 DEF IInv, NoLostWakeup, Waiting
<1> QED
  BY <1>3, <1>5, <1>6, <1>7, <1>8, <1>9 DEF IInv

LEMMA RemoveFindKeeps ==
  ASSUME IInv, NEW t \in Threads, NEW id \in ClientIds, RemoveFind(t, id)
  PROVE  IInv'
<1>1. id \in Issued
  BY DEF RemoveFind, IInv, IdsAreFresh
<1> QED
  BY <1>1, TakeOutKeeps, {id} \in SUBSET clients DEF RemoveFind

LEMMA RemoveAllKeeps ==
  ASSUME IInv, NEW t \in Threads, RemoveAll(t)
  PROVE  IInv'
<1>1. clients \in SUBSET clients /\ clients' = clients \ clients
  BY DEF RemoveAll
<1> QED
  BY <1>1, TakeOutKeeps DEF RemoveAll

LEMMA MarkKeeps ==
  ASSUME IInv, NEW t \in Threads, Mark(t)
  PROVE  IInv'
<1> USE DEF InvalidClientId
<1>1. PICK id \in pending[t] :
        /\ pc[t] = "mark"
        /\ removing' = [removing EXCEPT ![id] = TRUE]
        /\ pending' = [pending EXCEPT ![t] = @ \ {id}]
        /\ target' = [target EXCEPT ![t] = id]
        /\ \/ /\ visitor[id] = NoThread /\ hasClient[id]
              /\ hasClient' = [hasClient EXCEPT ![id] = FALSE]
              /\ Moves(t, "destroy", Waiting(id))
              /\ UNCHANGED left
           \/ /\ ~(visitor[id] = NoThread /\ hasClient[id])
              /\ Moves(t, AfterEntry(pending[t] \ {id}), Waiting(id))
              /\ left' = [left EXCEPT ![t] = @ \cup {id}]
              /\ UNCHANGED hasClient
        /\ UNCHANGED <<nextClientId, clients, visitor, visiting, calls,
                       destroyed>>
  BY DEF Mark, Takeable, TakeClient
<1>2. /\ pc \in [Threads -> Pcs] /\ target \in [Threads -> ClientIds \cup {0}]
      /\ pending \in [Threads -> SUBSET ClientIds]
      /\ left \in [Threads -> SUBSET ClientIds]
      /\ hasClient \in [ClientIds -> BOOLEAN]
      /\ removing \in [ClientIds -> BOOLEAN]
      /\ id \in ClientIds /\ 0 \notin ClientIds
      /\ hasClient[id] /\ ~removing[id] /\ id \notin clients
      /\ \A u \in Threads : id \in pending[u] => u = t
  BY <1>1 DEF IInv, TypeOK, ClientIds, EntryInv
<1>3. \A u \in Waiting(id) : u \in Threads /\ pc[u] = "waiting"
  BY DEF Waiting
<1>4. /\ pc' \in [Threads -> Pcs]
      /\ \/ visitor[id] = NoThread /\ pc'[t] = "destroy"
         \/ visitor[id] # NoThread /\ pc'[t] \in {"out", "mark"}
      /\ \A u \in Threads \ {t} :
           /\ u \in Waiting(id) => pc'[u] = "enter"
           /\ u \notin Waiting(id) => pc'[u] = pc[u]
  <2>1. AfterEntry(pending[t] \ {id}) \in {"out", "mark"}
    BY DEF AfterEntry
  <2>2. "destroy" \in Pcs /\ {"out", "mark"} \subseteq Pcs /\ TypeOK
    BY DEF Pcs, IInv
  <2>3. CASE visitor[id] = NoThread
    BY <1>1, <1>2, <1>3, <2>2, <2>3, MovesWake
  <2>4. CASE visitor[id] # NoThread
    BY <1>1, <1>2, <1>3, <2>1, <2>2, <2>4, MovesWake
  <2> QED
    BY <2>3, <2>4
<1>5. /\ hasClient' \in [ClientIds -> BOOLEAN]
      /\ \A i \in ClientIds \ {id} : hasClient'[i] = hasClient[i]
      /\ hasClient'[id] <=> visitor[id] # NoThread
  BY <1>1, <1>2
<1>6. /\ target' \in [Threads -> ClientIds \cup {0}] /\ target'[t] = id
      /\ \A u \in Threads \ {t} : target'[u] = target[u]
      /\ removing' \in [ClientIds -> BOOLEAN] /\ removing'[id]
      /\ \A i \in ClientIds \ {id} : removing'[i] = removing[i]
      /\ pending' \in [Threads -> SUBSET ClientIds]
      /\ left' \in [Threads -> SUBSET ClientIds]
      /\ \A u \in Threads : left'[u] \subseteq left[u] \cup {id}
  BY <1>1, <1>2
<1>7. \A u \in Threads \ {t} : u \in Waiting(id) <=>
        pc[u] = "waiting" /\ target[u] = id
  BY DEF Waiting
<1>8. TypeOK'
  <2>1. \A u \in Threads :
          pc'[u] \in {"created", "enter", "waiting", "destroy"} => target'[u] # 0
    BY <1>2, <1>4, <1>6, <1>7 DEF IInv, TypeOK
  <2> QED
    BY <1>1, <1>4, <1>5, <1>6, <2>1 DEF IInv, TypeOK
<1>9. Issued' = Issued /\ id \in Issued /\ Issued \subseteq ClientIds
  BY <1>1, <1>2 DEF IInv, IdsAreFresh, Issued
<1>10. IdsAreFresh'
  BY <1>1, <1>5, <1>6, <1>9 DEF IInv, IdsAreFresh
<1>11. OwnerInv'
  <2>1. CASE visitor[id] = NoThread
    <3>1. \A u \in Threads, i \in ClientIds :
            Carries(u, i)' <=> Carries(u, i) \/ (u = t /\ i = id)
      BY <1>1, <1>4, <1>6, <1>7, <2>1 DEF Carries
    <3>2. \A u \in Threads : pc'[u] \in {"created", "destroy"} =>
            \/ u = t
            \/ /\ pc[u] \in {"created", "destroy"} /\ target'[u] = target[u]
               /\ target[u] \in ClientIds \ {id}
      BY <1>2, <1>4, <1>6, <1>7 DEF IInv, OwnerInv, TypeOK
    <3>3. /\ ~hasClient'[id] /\ id \notin destroyed
          /\ \A u \in Threads : ~Carries(u, id)
      BY <1>2, <1>5, <2>1 DEF IInv, OwnerInv, Carries
    <3> QED
      BY <1>1, <1>2, <1>5, <1>6, <1>9, <3>1, <3>2, <3>3 DEF IInv, OwnerInv
  <2>2. CASE visitor[id] # NoThread
    <3>1. \A u \in Threads, i \in ClientIds : Carries(u, i)' <=> Carries(u, i)
      BY <1>1, <1>2, <1>4, <1>6, <1>7, <2>2 DEF Carries
    <3>2. UNCHANGED hasClient
      BY <1>1, <2>2
    <3> QED
      BY <1>1, <1>8, <3>1, <3>2, OwnersKept DEF IInv
  <2> QED
    BY <2>1, <2>2
<1>12. EntryInv'
  <2>1. \A i \in clients : hasClient'[i] /\ ~removing'[i]
    BY <1>2, <1>5, <1>6 DEF IInv, EntryInv, TypeOK
  <2>2. \A u \in Threads : \A i \in pending'[u] :
          /\ i \in pending[u] /\ i \in ClientIds \ {id}
          /\ \A v \in Threads : i \in pending'[v] => i \in pending[v]
    BY <1>1, <1>2
  <2>3. \A u \in Threads : pc'[u] = "created" =>
          pc[u] = "created" /\ target'[u] \in ClientIds \ {id}
          /\ target'[u] = target[u]
    <3> SUFFICES ASSUME NEW u \in Threads, pc'[u] = "created"
                 PROVE  /\ pc[u] = "created" /\ target'[u] = target[u]
                        /\ target[u] \in ClientIds \ {id}
      OBVIOUS
    <3>1. u # t /\ pc[u] = "created" /\ target'[u] = target[u]
      BY <1>4, <1>6
    <3> QED
      BY <1>2, <3>1 DEF IInv, TypeOK, OwnerInv
  <2>4. \A i \in ClientIds :
          removing'[i] /\ hasClient'[i] => visitor[i] # NoThread
    BY <1>5, <1>6 DEF IInv, EntryInv
  <2>5. \A u \in Threads : \A i \in left'[u] : removing'[i]
    BY <1>2, <1>6 DEF IInv, EntryInv
  <2> QED
    BY <1>1, <1>5, <1>6, <2>1, <2>2, <2>3, <2>4, <2>5 DEF IInv, EntryInv
<1>13. VisitInv'
  <2>1. \A u \in Threads : visiting[u] # 0 =>
          visitor[visiting[u]] = u /\ hasClient'[visiting[u]]
    <3> SUFFICES ASSUME NEW u \in Threads, visiting[u] # 0
                 PROVE  visitor[visiting[u]] = u /\ hasClient'[visiting[u]]
      OBVIOUS
    <3>1. /\ visiting[u] \in ClientIds /\ visitor[visiting[u]] = u
          /\ hasClient[visiting[u]] /\ u # NoThread
      BY ManagerAssumption DEF IInv, TypeOK, VisitInv
    <3> QED
      BY <1>5, <3>1
  <2>2. \A u \in Threads : pc'[u] \in {"enter", "waiting"} =>
          /\ visiting[u] = 0
          /\ hasClient'[target'[u]] \/ removing'[target'[u]]
    <3> SUFFICES ASSUME NEW u \in Threads, pc'[u] \in {"enter", "waiting"}
                 PROVE  /\ visiting[u] = 0
                        /\ hasClient'[target'[u]] \/ removing'[target'[u]]
      OBVIOUS
    <3>1. u # t /\ pc[u] \in {"enter", "waiting"} /\ target'[u] = target[u]
      BY <1>4, <1>6, <1>7
    <3>2. target[u] \in ClientIds
      BY <1>2, <3>1 DEF IInv, TypeOK
    <3>3. visiting[u] = 0 /\ (hasClient[target[u]] \/ removing[target[u]])
      BY <3>1 DEF IInv, VisitInv
    <3> QED
      BY <1>5, <1>6, <3>1, <3>2, <3>3
  <2> QED
    BY <1>1, <2>1, <2>2 DEF IInv, VisitInv
<1>14. NoLostWakeup'
  <2> SUFFICES ASSUME NEW i \in ClientIds, NEW w \in Threads,
                      pc'[w] = "waiting", target'[w] = i
               PROVE  /\ ~removing'[i]
                      /\ \/ visitor[i] # NoThread
                         \/ \E u \in Threads : pc'[u] = "enter" /\ target'[u] = i
    BY <1>1 DEF NoLostWakeup, Waiting
  <2>1. w # t /\ pc[w] = "waiting" /\ target[w] = i /\ i # id
    BY <1>4, <1>6, <1>7
  <2>2. /\ ~removing[i]
        /\ \/ visitor[i] # NoThread
           \/ \E u \in Threads : pc[u] = "enter" /\ target[u] = i
    BY <2>1 DEF IInv, NoLostWakeup, Waiting
  <2> QED
    BY <1>1, <1>4, <1>6, <1>7, <2>1, <2>2
<1> QED
  BY <1>8, <1>10, <1>11, <1>12, <1>13, <1>14 DEF IInv

LEMMA DestroyKeeps ==
  ASSUME IInv, NEW t \in Threads, Destroy(t)
  PROVE  IInv'
<1> USE DEF InvalidClientId
<1> DEFINE id == target[t]
<1>1. /\ pc[t] = "destroy"
      /\ destroyed' = destroyed \cup {id}
      /\ pc' = [pc EXCEPT ![t] = AfterEntry(pending[t])]
      /\ UNCHANGED <<nextClientId, clients, hasClient, removing, visitor,
                     target, pending, visiting, calls, left>>
  BY DEF Destroy, entryVars
<1>2. AfterEntry(pending[t]) \in {"out", "mark"}
  BY DEF AfterEntry
<1>3. /\ pc \in [Threads -> Pcs] /\ target \in [Threads -> ClientIds \cup {0}]
      /\ id \in ClientIds /\ id \in Issued
  BY <1>1 DEF IInv, TypeOK, IdsAreFresh
<1>4. TypeOK'
  BY <1>1, <1>2, <1>3 DEF IInv, TypeOK, Pcs
<1>5. Issued' = Issued /\ Issued \subseteq ClientIds
  BY <1>1 DEF Issued
<1>6. /\ ~hasClient[id] /\ \A u \in Threads : Carries(u, id) => u = t
  BY <1>1 DEF IInv, OwnerInv
<1>7. IdsAreFresh'
  BY <1>1, <1>3, <1>5 DEF IInv, IdsAreFresh
<1>8. OwnerInv'
  <2>1. \A u \in Threads, i \in ClientIds :
          Carries(u, i)' <=> Carries(u, i) /\ u # t
    BY <1>1, <1>2, <1>3 DEF Carries
  <2>2. \A u \in Threads : pc'[u] \in {"created", "destroy"} =>
          /\ pc[u] \in {"created", "destroy"} /\ u # t
          /\ target[u] \in ClientIds \ {id}
    BY <1>1, <1>2, <1>3, <1>6 DEF IInv, TypeOK, Carries
  <2>3. Carries(t, id)
    BY <1>1 DEF Carries
  <2> HIDE DEF id
  <2> QED
    BY <1>1, <1>3, <1>5, <1>6, <2>1, <2>2, <2>3 DEF IInv, OwnerInv, Carries
<1>9. EntryInv' /\ VisitInv'
  BY <1>1, <1>2, <1>3 DEF IInv, EntryInv, VisitInv
<1>10. NoLostWakeup'
  BY <1>1, <1>2, <1>3 DEF IInv, NoLostWakeup, Waiting
<1> QED
  BY <1>4, <1>7, <1>8, <1>9, <1>10 DEF IInv
-----------------------------------------------------------------------------
LEMMA StutterKeeps ==
  ASSUME IInv, UNCHANGED vars
  PROVE  IInv'
<1>1. UNCHANGED <<nextClientId, clients, hasClient, removing, visitor, pc,
                  target, pending, visiting, calls, destroyed, left>>
  BY DEF vars, entryVars
<1>2. TypeOK'
  BY <1>1 DEF IInv, TypeOK
<1>3. Issued' = Issued
  BY <1>1 DEF Issued
<1>4. IdsAreFresh' /\ OwnerInv'
  BY <1>1, <1>3 DEF IInv, IdsAreFresh, OwnerInv, Carries
<1>5. EntryInv' /\ VisitInv' /\ NoLostWakeup'
  BY <1>1 DEF IInv, EntryInv, VisitInv, NoLostWakeup, Waiting
<1> QED
  BY <1>2, <1>4, <1>5 DEF IInv

LEMMA NextKeeps == IInv /\ [Next]_vars => IInv'
<1> SUFFICES ASSUME IInv, [Next]_vars PROVE IInv'
  OBVIOUS
<1>1. CASE UNCHANGED vars
  BY <1>1, StutterKeeps
<1>2. ASSUME NEW t \in Threads, AddAllocate(t) PROVE IInv'
  BY <1>2, AddAllocateKeeps
<1>3. ASSUME NEW t \in Threads, NEW id \in ClientIds, VisitFind(t, id)
      PROVE  IInv'
  BY <1>3, VisitFindKeeps
<1>4. ASSUME NEW t \in Threads, NEW id \in ClientIds, RemoveFind(t, id)
      PROVE  IInv'
  BY <1>4, RemoveFindKeeps
<1>5. ASSUME NEW t \in Threads, RemoveAll(t) PROVE IInv'
  BY <1>5, RemoveAllKeeps
<1>6. ASSUME NEW t \in Threads, SpuriousWakeup(t) PROVE IInv'
  BY <1>6, SpuriousWakeupKeeps
<1>7. ASSUME NEW t \in Threads, AddEmplace(t) PROVE IInv'
  BY <1>7, AddEmplaceKeeps
<1>8. ASSUME NEW t \in Threads, VisitEnter(t) PROVE IInv'
  BY <1>8, VisitEnterKeeps
<1>9. ASSUME NEW t \in Threads, VisitFinish(t) PROVE IInv'
  BY <1>9, VisitFinishKeeps
<1>10. ASSUME NEW t \in Threads, Mark(t) PROVE IInv'
  BY <1>10, MarkKeeps
<1>11. ASSUME NEW t \in Threads, Destroy(t) PROVE IInv'
  BY <1>11, DestroyKeeps
<1> QED
  BY <1>1, <1>2, <1>3, <1>4, <1>5, <1>6, <1>7, <1>8, <1>9, <1>10, <1>11
  DEF Next, ThreadStep

LEMMA InvCorrect == Spec => []IInv
BY InitIInv, NextKeeps, PTL DEF Spec
-----------------------------------------------------------------------------
(* The variables have the types the code gives them, and a call that       *)
(* creates, enters, waits for or destroys a client names one.              *)
THEOREM TypeCorrect == Spec => []TypeOK
<1>1. IInv => TypeOK
  BY DEF IInv
<1> QED
  BY <1>1, InvCorrect, PTL

(* Every client added has one owner: the thread adding it, its entry, the  *)
(* one thread that took it, from RemoveClient, RemoveAllClients or the end *)
(* of a visit, or nobody once OnClientDestroyed was called, once.          *)
THEOREM OneOwner == Spec => []ClientHasOneOwner
<1>1. IInv => ClientHasOneOwner
  <2> SUFFICES ASSUME IInv, NEW id \in Issued
               PROVE  \E owner \in Owners(id) : Owners(id) = {owner}
    BY DEF ClientHasOneOwner
  <2>1. id \in ClientIds
    BY DEF Issued
  <2>2. CASE \E t \in Threads : Carries(t, id)
    <3>1. PICK t \in Threads : Carries(t, id)
      BY <2>2
    <3>2. /\ ~hasClient[id] /\ id \notin destroyed
          /\ \A u \in Threads : Carries(u, id) => u = t
      BY <3>1 DEF IInv, OwnerInv, Carries
    <3>3. CASE pc[t] = "created"
      <4>1. Creating(id) = {t} /\ Destroying(id) = {}
        BY <3>1, <3>2, <3>3 DEF Carries, Creating, Destroying
      <4>2. Owners(id) = {<<"creating", t>>}
        BY <3>2, <4>1 DEF Owners
      <4> QED
        BY <4>2
    <3>4. CASE pc[t] = "destroy"
      <4>1. Creating(id) = {} /\ Destroying(id) = {t}
        BY <3>1, <3>2, <3>4 DEF Carries, Creating, Destroying
      <4>2. Owners(id) = {<<"destroying", t>>}
        BY <3>2, <4>1 DEF Owners
      <4> QED
        BY <4>2
    <3> QED
      BY <3>1, <3>3, <3>4 DEF Carries
  <2>3. CASE \A t \in Threads : ~Carries(t, id)
    <3>1. Creating(id) = {} /\ Destroying(id) = {}
      BY <2>3 DEF Carries, Creating, Destroying
    <3>2. hasClient[id] <=> id \notin destroyed
      BY <2>1, <2>3 DEF IInv, OwnerInv
    <3> QED
      BY <3>1, <3>2 DEF Owners
  <2> QED
    BY <2>2, <2>3
<1> QED
  BY <1>1, InvCorrect, PTL

(* Two threads never run a visitor on the same client, and no client is    *)
(* taken to be destroyed from under its visitor.                           *)
THEOREM VisitsExclude == Spec => []VisitsAreExclusive
<1>1. IInv => VisitsAreExclusive
  BY DEF IInv, VisitInv, VisitsAreExclusive
<1> QED
  BY <1>1, InvCorrect, PTL

(* A thread waits on an entry's condition variable only while a visit is   *)
(* on, whose end notifies, or while another thread is about to look at the *)
(* entry; never on an entry marked for removal.                            *)
THEOREM WakeupsAreNotLost == Spec => []NoLostWakeup
<1>1. IInv => NoLostWakeup
  BY DEF IInv
<1> QED
  BY <1>1, InvCorrect, PTL

(* A removal that left a client to its visitor has ended the visits: none  *)
(* starts after it, whoever had found the entry before.                    *)
THEOREM RemovalEndsVisits == Spec => NoVisitAfterRemoval
<1>1. IInv /\ [Next]_vars =>
        [\A t, u \in Threads : \A id \in left[u] :
           visiting'[t] = id => visiting[t] = id]_vars
  <2> SUFFICES ASSUME IInv, Next, NEW t \in Threads, NEW u \in Threads,
                      NEW id \in left[u], visiting'[t] = id
               PROVE  visiting[t] = id
    OBVIOUS
  <2>1. id \in ClientIds /\ id # 0 /\ removing[id]
    BY DEF IInv, TypeOK, EntryInv, ClientIds
  <2>2. visiting \in [Threads -> ClientIds \cup {0}]
    BY DEF IInv, TypeOK, InvalidClientId
  <2>3. CASE \E v \in Threads : VisitEnter(v)
    BY <2>1, <2>2, <2>3 DEF VisitEnter, Enterable
  <2>4. CASE \E v \in Threads : VisitFinish(v)
    BY <2>1, <2>2, <2>4 DEF VisitFinish, InvalidClientId
  <2>5. CASE UNCHANGED visiting
    BY <2>5
  <2> QED
    BY <2>3, <2>4, <2>5 DEF Next, ThreadStep, AddAllocate, AddEmplace,
         VisitFind, SpuriousWakeup, RemoveFind, RemoveAll, Mark, Destroy
<1> QED
  BY <1>1, InvCorrect, PTL DEF Spec, NoVisitAfterRemoval
-----------------------------------------------------------------------------
(***************************************************************************)
(* The refinement: AddEmplace is Add, a removal taking entries out of the  *)
(* map is Remove, VisitEnter with the visit and VisitFinish are its begin  *)
(* and end, Destroy is Destroy, and the rest is not seen.                  *)
(***************************************************************************)
Unused == (ClientIds \ Issued) \cup {id \in ClientIds : Creating(id) # {}}
Alive == {id \in ClientIds : hasClient[id] \/ Destroying(id) # {}}

Adds(t, id) == pc[t] = "created" /\ target[t] = id
Destroys(t, id) == pc[t] = "destroy" /\ target[t] = id

LEMMA ViewMembers ==
  /\ \A id : id \in Unused <=>
       /\ id \in ClientIds
       /\ id \notin Issued \/ \E t \in Threads : Adds(t, id)
  /\ \A id : id \in Alive <=>
       id \in ClientIds /\ (hasClient[id] \/ \E t \in Threads : Destroys(t, id))
BY DEF Unused, Alive, Creating, Destroying, Adds, Destroys

LEMMA ViewMembersNext ==
  /\ \A id : (id \in Unused)' <=>
       /\ id \in ClientIds
       /\ id \notin Issued' \/ \E t \in Threads : Adds(t, id)'
  /\ \A id : (id \in Alive)' <=>
       id \in ClientIds /\ (hasClient'[id] \/ \E t \in Threads : Destroys(t, id)')
BY DEF Unused, Alive, Creating, Destroying, Adds, Destroys

(* A step that moves no client from one owner to another is not seen in    *)
(* the ids that are unused nor in the clients that are alive.              *)
LEMMA SameView ==
  ASSUME UNCHANGED <<nextClientId, hasClient>>,
         \A t \in Threads, id \in ClientIds :
           /\ Adds(t, id)' <=> Adds(t, id)
           /\ Destroys(t, id)' <=> Destroys(t, id)
  PROVE  UNCHANGED <<Unused, Alive>>
<1>1. Issued' = Issued
  BY DEF Issued
<1> QED
  BY <1>1, ViewMembers, ViewMembersNext

LEMMA AddEmplaceIsAdd ==
  ASSUME IInv, NEW t \in Threads, AddEmplace(t)
  PROVE  \E id \in ClientIds : Registry!Add(id)
<1>0. PICK id \in ClientIds : id = target[t]
  BY DEF AddEmplace, IInv, TypeOK, InvalidClientId
<1>1. /\ pc[t] = "created" /\ pc' = [pc EXCEPT ![t] = "out"]
      /\ clients' = clients \cup {id}
      /\ hasClient' = [hasClient EXCEPT ![id] = TRUE]
      /\ UNCHANGED <<nextClientId, target, visiting>>
  BY <1>0 DEF AddEmplace
<1>2. /\ pc \in [Threads -> Pcs] /\ hasClient \in [ClientIds -> BOOLEAN]
  BY DEF IInv, TypeOK
<1>3. id \in Issued /\ Issued' = Issued
  BY <1>0, <1>1 DEF IInv, IdsAreFresh, Issued
<1>4. \A u \in Threads : Adds(u, id) => u = t
  BY <1>0, <1>1 DEF IInv, OwnerInv, Carries, Adds
<1>5. \A u \in Threads : \A i \in ClientIds :
        /\ Adds(u, i)' <=> Adds(u, i) /\ u # t
        /\ Destroys(u, i)' <=> Destroys(u, i)
  BY <1>1, <1>2 DEF Adds, Destroys
<1>6. Adds(t, id)
  BY <1>0, <1>1 DEF Adds
<1>7. Unused' = Unused \ {id}
  <2>1. \A i \in ClientIds : (\E u \in Threads : Adds(u, i)') <=>
          i # id /\ \E u \in Threads : Adds(u, i)
    BY <1>4, <1>5, <1>6 DEF Adds
  <2> QED
    BY <1>3, <2>1, ViewMembers, ViewMembersNext
<1>8. Alive' = Alive \cup {id}
  BY <1>1, <1>2, <1>5, ViewMembers, ViewMembersNext
<1>9. id \in Unused
  BY <1>6, ViewMembers
<1> QED
  BY <1>1, <1>7, <1>8, <1>9 DEF Registry!Add, Unused, Alive

LEMMA DestroyIsDestroy ==
  ASSUME IInv, NEW t \in Threads, Destroy(t)
  PROVE  \E id \in ClientIds : Registry!Destroy(id)
<1>0. PICK id \in ClientIds : id = target[t]
  BY DEF Destroy, IInv, TypeOK, InvalidClientId
<1>1. /\ pc[t] = "destroy"
      /\ pc' = [pc EXCEPT ![t] = AfterEntry(pending[t])]
      /\ UNCHANGED <<nextClientId, hasClient, clients, target, visiting>>
  BY DEF Destroy, entryVars
<1>2. AfterEntry(pending[t]) \in {"out", "mark"}
  BY DEF AfterEntry
<1>3. /\ pc \in [Threads -> Pcs]
      /\ visiting \in [Threads -> ClientIds \cup {0}]
  BY DEF IInv, TypeOK, InvalidClientId
<1>4. /\ ~hasClient[id] /\ id \notin clients
      /\ \A u \in Threads : Destroys(u, id) => u = t
  BY <1>0, <1>1 DEF IInv, OwnerInv, EntryInv, Carries, Destroys
<1>5. \A u \in Threads : visiting[u] # id
  BY <1>3, <1>4 DEF IInv, VisitInv, InvalidClientId, ClientIds
<1>6. \A u \in Threads : \A i \in ClientIds :
        /\ Adds(u, i)' <=> Adds(u, i)
        /\ Destroys(u, i)' <=> Destroys(u, i) /\ u # t
  BY <1>1, <1>2, <1>3 DEF Adds, Destroys
<1>7. Destroys(t, id) /\ Issued' = Issued
  BY <1>0, <1>1 DEF Destroys, Issued
<1>8. Unused' = Unused
  BY <1>6, <1>7, ViewMembers, ViewMembersNext
<1>9. Alive' = Alive \ {id}
  <2>1. \A i \in ClientIds : (\E u \in Threads : Destroys(u, i)') <=>
          i # id /\ \E u \in Threads : Destroys(u, i)
    BY <1>4, <1>6, <1>7 DEF Destroys
  <2> QED
    BY <1>1, <1>4, <2>1, ViewMembers, ViewMembersNext
<1>10. id \in Alive
  BY <1>7, ViewMembers
<1> QED
  BY <1>1, <1>4, <1>5, <1>8, <1>9, <1>10
  DEF Registry!Destroy, Unused, Alive

LEMMA VisitEnterIsBegin ==
  ASSUME IInv, NEW t \in Threads, VisitEnter(t)
  PROVE  \/ \E id \in ClientIds : Registry!VisitBegin(t, id)
         \/ UNCHANGED Registry!vars
<1>0. PICK id \in ClientIds : id = target[t]
  BY DEF VisitEnter, IInv, TypeOK, InvalidClientId
<1>1. /\ pc[t] = "enter"
      /\ UNCHANGED <<nextClientId, clients, hasClient, target>>
      /\ \E at \in {"waiting", "out"} : pc' = [pc EXCEPT ![t] = at]
      /\ \/ UNCHANGED visiting
         \/ /\ visitor[id] = NoThread /\ hasClient[id]
            /\ visiting' = [visiting EXCEPT ![t] = id]
  BY <1>0 DEF VisitEnter, Ready, Enterable
<1>2. /\ pc \in [Threads -> Pcs] /\ visiting[t] = 0
      /\ NoThread \notin Threads /\ 0 \notin ClientIds
  BY <1>1, ManagerAssumption DEF IInv, TypeOK, VisitInv, InvalidClientId,
       ClientIds
<1>3. \A u \in Threads, i \in ClientIds :
        /\ Adds(u, i)' <=> Adds(u, i)
        /\ Destroys(u, i)' <=> Destroys(u, i)
  BY <1>1, <1>2 DEF Adds, Destroys
<1>4. UNCHANGED <<Unused, Alive>>
  BY <1>1, <1>3, SameView
<1>5. CASE UNCHANGED visiting
  BY <1>1, <1>4, <1>5 DEF Registry!vars, Unused, Alive
<1>6. CASE /\ visitor[id] = NoThread /\ hasClient[id]
           /\ visiting' = [visiting EXCEPT ![t] = id]
  <2>1. \A u \in Threads : visiting[u] # id
    BY <1>2, <1>6 DEF IInv, VisitInv, InvalidClientId
  <2>2. id \in Alive
    BY <1>2, <1>6, ViewMembers
  <2> QED
    BY <1>1, <1>2, <1>4, <1>6, <2>1, <2>2
    DEF Registry!VisitBegin, Unused, Alive, InvalidClientId
<1> QED
  BY <1>1, <1>5, <1>6

LEMMA VisitFinishIsEnd ==
  ASSUME IInv, NEW t \in Threads, VisitFinish(t)
  PROVE  Registry!VisitEnd(t)
<1>0. PICK id \in ClientIds : id = visiting[t]
  BY DEF VisitFinish, IInv, TypeOK
<1>1. /\ pc[t] = "out" /\ visiting[t] # InvalidClientId
      /\ visiting' = [visiting EXCEPT ![t] = InvalidClientId]
      /\ UNCHANGED <<nextClientId, clients>>
  BY DEF VisitFinish
<1>2. PICK woken \in NotifyOne(id) :
        \/ /\ hasClient[id]
           /\ hasClient' = [hasClient EXCEPT ![id] = FALSE]
           /\ target' = [target EXCEPT ![t] = id]
           /\ Moves(t, "destroy", woken)
        \/ /\ UNCHANGED <<hasClient, target>>
           /\ Moves(t, "out", woken)
  BY <1>0 DEF VisitFinish, LeftToVisitor, TakeClient
<1>3. \A u \in woken : u \in Threads /\ pc[u] = "waiting"
  BY <1>2 DEF NotifyOne, Waiting
<1>4. /\ TypeOK /\ "destroy" \in Pcs /\ "out" \in Pcs
      /\ hasClient \in [ClientIds -> BOOLEAN]
      /\ target \in [Threads -> ClientIds \cup {InvalidClientId}]
  BY DEF IInv, TypeOK, Pcs
<1>5. Issued' = Issued
  BY <1>1 DEF Issued
<1>6. UNCHANGED <<Unused, Alive>>
  <2>1. CASE Moves(t, "out", woken) /\ UNCHANGED <<hasClient, target>>
    <3>1. /\ pc'[t] = "out"
          /\ \A u \in Threads \ {t} :
               /\ u \in woken => pc'[u] = "enter"
               /\ u \notin woken => pc'[u] = pc[u]
      BY <1>3, <1>4, <2>1, MovesWake
    <3>2. \A u \in Threads, i \in ClientIds :
            /\ Adds(u, i)' <=> Adds(u, i)
            /\ Destroys(u, i)' <=> Destroys(u, i)
      BY <1>1, <1>3, <2>1, <3>1 DEF Adds, Destroys
    <3> QED
      BY <1>1, <2>1, <3>2, SameView
  <2>2. CASE /\ hasClient[id]
             /\ hasClient' = [hasClient EXCEPT ![id] = FALSE]
             /\ target' = [target EXCEPT ![t] = id]
             /\ Moves(t, "destroy", woken)
    <3>1. /\ pc'[t] = "destroy"
          /\ \A u \in Threads \ {t} :
               /\ u \in woken => pc'[u] = "enter"
               /\ u \notin woken => pc'[u] = pc[u]
      BY <1>3, <1>4, <2>2, MovesWake
    <3>2. \A u \in Threads, i \in ClientIds :
            /\ Adds(u, i)' <=> Adds(u, i)
            /\ Destroys(u, i)' <=> Destroys(u, i) \/ (u = t /\ i = id)
      BY <1>1, <1>3, <1>4, <2>2, <3>1 DEF Adds, Destroys
    <3>3. Destroys(t, id)'
      BY <3>2
    <3> QED
      BY <1>4, <1>5, <2>2, <3>2, <3>3, ViewMembers, ViewMembersNext
  <2> QED
    BY <1>2, <2>1, <2>2
<1> QED
  BY <1>1, <1>6 DEF Registry!VisitEnd, Unused, Alive

LEMMA MarkIsUnseen ==
  ASSUME IInv, NEW t \in Threads, Mark(t)
  PROVE  UNCHANGED Registry!vars
<1>1. PICK id \in pending[t] :
        /\ pc[t] = "mark"
        /\ target' = [target EXCEPT ![t] = id]
        /\ \/ /\ hasClient[id]
              /\ hasClient' = [hasClient EXCEPT ![id] = FALSE]
              /\ Moves(t, "destroy", Waiting(id))
           \/ /\ Moves(t, AfterEntry(pending[t] \ {id}), Waiting(id))
              /\ UNCHANGED hasClient
        /\ UNCHANGED <<nextClientId, clients, visiting>>
  BY DEF Mark, Takeable, TakeClient
<1>2. \A u \in Waiting(id) : u \in Threads /\ pc[u] = "waiting"
  BY DEF Waiting
<1>3. /\ TypeOK /\ "destroy" \in Pcs /\ {"out", "mark"} \subseteq Pcs
      /\ hasClient \in [ClientIds -> BOOLEAN] /\ id \in ClientIds
      /\ target \in [Threads -> ClientIds \cup {InvalidClientId}]
  BY <1>1 DEF IInv, TypeOK, Pcs
<1>4. AfterEntry(pending[t] \ {id}) \in {"out", "mark"}
  BY DEF AfterEntry
<1>5. Issued' = Issued
  BY <1>1 DEF Issued
<1>6. UNCHANGED <<Unused, Alive>>
  <2>1. CASE /\ Moves(t, AfterEntry(pending[t] \ {id}), Waiting(id))
             /\ UNCHANGED hasClient
    <3>1. /\ pc'[t] \in {"out", "mark"}
          /\ \A u \in Threads \ {t} :
               /\ u \in Waiting(id) => pc'[u] = "enter"
               /\ u \notin Waiting(id) => pc'[u] = pc[u]
      BY <1>2, <1>3, <1>4, <2>1, MovesWake
    <3>2. \A u \in Threads, i \in ClientIds :
            /\ Adds(u, i)' <=> Adds(u, i)
            /\ Destroys(u, i)' <=> Destroys(u, i)
      BY <1>1, <1>2, <1>3, <3>1 DEF Adds, Destroys
    <3> QED
      BY <1>1, <2>1, <3>2, SameView
  <2>2. CASE /\ hasClient[id]
             /\ hasClient' = [hasClient EXCEPT ![id] = FALSE]
             /\ Moves(t, "destroy", Waiting(id))
    <3>1. /\ pc'[t] = "destroy"
          /\ \A u \in Threads \ {t} :
               /\ u \in Waiting(id) => pc'[u] = "enter"
               /\ u \notin Waiting(id) => pc'[u] = pc[u]
      BY <1>2, <1>3, <2>2, MovesWake
    <3>2. \A u \in Threads, i \in ClientIds :
            /\ Adds(u, i)' <=> Adds(u, i)
            /\ Destroys(u, i)' <=> Destroys(u, i) \/ (u = t /\ i = id)
      BY <1>1, <1>2, <1>3, <3>1 DEF Adds, Destroys
    <3>3. Destroys(t, id)'
      BY <1>3, <3>2
    <3> QED
      BY <1>3, <1>5, <2>2, <3>2, <3>3, ViewMembers, ViewMembersNext
  <2> QED
    BY <1>1, <2>1, <2>2
<1> QED
  BY <1>1, <1>6 DEF Registry!vars, Unused, Alive

(* AddClient until the client is in the map, the search for an entry and a *)
(* spurious wakeup.                                                        *)
LEMMA AddAllocateIsUnseen ==
  ASSUME IInv, NEW t \in Threads, AddAllocate(t)
  PROVE  UNCHANGED Registry!vars
<1>1. /\ nextClientId \in ClientIds \ Issued
      /\ Issued' = Issued \cup {nextClientId}
  BY IssuedGrows DEF IInv, AddAllocate
<1>2. /\ pc[t] = "out" /\ pc' = [pc EXCEPT ![t] = "created"]
      /\ target' = [target EXCEPT ![t] = nextClientId]
      /\ UNCHANGED <<clients, hasClient, visiting>>
      /\ pc \in [Threads -> Pcs]
      /\ target \in [Threads -> ClientIds \cup {InvalidClientId}]
  BY DEF AddAllocate, Call, entryVars, IInv, TypeOK
<1>3. \A u \in Threads, i \in ClientIds :
        /\ Adds(u, i)' <=> Adds(u, i) \/ (u = t /\ i = nextClientId)
        /\ Destroys(u, i)' <=> Destroys(u, i)
  BY <1>1, <1>2 DEF Adds, Destroys
<1>4. \A i \in ClientIds : i = nextClientId => Adds(t, i)'
  BY <1>1, <1>3
<1>5. Unused' = Unused
  <2>1. \A i \in ClientIds :
          (\E u \in Threads : Adds(u, i)') <=>
            (i = nextClientId \/ \E u \in Threads : Adds(u, i))
    BY <1>3, <1>4
  <2> QED
    BY <1>1, <2>1, ViewMembers, ViewMembersNext
<1>6. Alive' = Alive
  BY <1>2, <1>3, ViewMembers, ViewMembersNext
<1> QED
  BY <1>2, <1>5, <1>6 DEF Registry!vars, Unused, Alive

LEMMA LookupIsUnseen ==
  ASSUME IInv, NEW t \in Threads,
         \/ \E id \in ClientIds : VisitFind(t, id)
         \/ SpuriousWakeup(t)
  PROVE  UNCHANGED Registry!vars
<1>1. /\ pc[t] \in {"out", "waiting"} /\ pc' = [pc EXCEPT ![t] = "enter"]
      /\ \E i : target' = [target EXCEPT ![t] = i]
      /\ UNCHANGED <<nextClientId, clients, hasClient, visiting>>
      /\ pc \in [Threads -> Pcs]
      /\ target \in [Threads -> ClientIds \cup {InvalidClientId}]
  <2>1. CASE \E id \in ClientIds : VisitFind(t, id)
    BY <2>1 DEF VisitFind, Call, entryVars, IInv, TypeOK
  <2>2. CASE SpuriousWakeup(t)
    <3>1. target = [target EXCEPT ![t] = target[t]]
      BY DEF IInv, TypeOK
    <3> QED
      BY <2>2, <3>1 DEF SpuriousWakeup, entryVars, IInv, TypeOK
  <2> QED
    BY <2>1, <2>2
<1>2. \A u \in Threads, i \in ClientIds :
        /\ Adds(u, i)' <=> Adds(u, i)
        /\ Destroys(u, i)' <=> Destroys(u, i)
  BY <1>1 DEF Adds, Destroys
<1> QED
  BY <1>1, <1>2, SameView DEF Registry!vars, Unused, Alive

LEMMA TakeOutIsRemove ==
  ASSUME IInv, NEW t \in Threads,
         \/ \E id \in ClientIds : RemoveFind(t, id)
         \/ RemoveAll(t)
  PROVE  \E ids \in SUBSET clients : Registry!Remove(ids)
<1>1. PICK ids \in SUBSET clients : clients' = clients \ ids
  <2>1. CASE \E id \in ClientIds : RemoveFind(t, id)
    <3>1. PICK id \in clients : clients' = clients \ {id}
      BY <2>1 DEF RemoveFind
    <3> QED
      BY <3>1, {id} \in SUBSET clients
  <2>2. CASE RemoveAll(t)
    BY <2>2, clients \in SUBSET clients, clients \ clients = {} DEF RemoveAll
  <2> QED
    BY <2>1, <2>2
<1>2. /\ pc[t] = "out" /\ pc' = [pc EXCEPT ![t] = "mark"]
      /\ \E i : target' = [target EXCEPT ![t] = i]
      /\ UNCHANGED <<nextClientId, hasClient, visiting>>
      /\ pc \in [Threads -> Pcs]
      /\ target \in [Threads -> ClientIds \cup {InvalidClientId}]
  BY DEF RemoveFind, RemoveAll, Call, entryVars, IInv, TypeOK
<1>3. \A u \in Threads, i \in ClientIds :
        /\ Adds(u, i)' <=> Adds(u, i)
        /\ Destroys(u, i)' <=> Destroys(u, i)
  BY <1>2 DEF Adds, Destroys
<1> QED
  BY <1>1, <1>2, <1>3, SameView DEF Registry!Remove, Unused, Alive

LEMMA StepIsRegistry ==
  ASSUME IInv, [Next]_vars
  PROVE  [Registry!Next]_(Registry!vars)
<1>1. CASE UNCHANGED vars
  <2>1. UNCHANGED <<nextClientId, clients, hasClient, pc, target, visiting>>
    BY <1>1 DEF vars, entryVars
  <2>2. UNCHANGED <<Unused, Alive>>
    BY <2>1, SameView DEF Adds, Destroys
  <2> QED
    BY <2>1, <2>2 DEF Registry!vars, Unused, Alive
<1>2. ASSUME NEW t \in Threads, AddEmplace(t) PROVE Registry!Next
  BY <1>2, AddEmplaceIsAdd DEF Registry!Next
<1>3. ASSUME NEW t \in Threads, Destroy(t) PROVE Registry!Next
  BY <1>3, DestroyIsDestroy DEF Registry!Next
<1>4. ASSUME NEW t \in Threads, VisitEnter(t)
      PROVE  [Registry!Next]_(Registry!vars)
  BY <1>4, VisitEnterIsBegin DEF Registry!Next
<1>5. ASSUME NEW t \in Threads, VisitFinish(t) PROVE Registry!Next
  BY <1>5, VisitFinishIsEnd DEF Registry!Next
<1>6. ASSUME NEW t \in Threads,
             RemoveAll(t) \/ \E id \in ClientIds : RemoveFind(t, id)
      PROVE  Registry!Next
  BY <1>6, TakeOutIsRemove DEF Registry!Next
<1>7. ASSUME NEW t \in Threads, Mark(t) PROVE UNCHANGED Registry!vars
  BY <1>7, MarkIsUnseen
<1>8. ASSUME NEW t \in Threads, AddAllocate(t) PROVE UNCHANGED Registry!vars
  BY <1>8, AddAllocateIsUnseen
<1>9. ASSUME NEW t \in Threads,
             SpuriousWakeup(t) \/ \E id \in ClientIds : VisitFind(t, id)
      PROVE  UNCHANGED Registry!vars
  BY <1>9, LookupIsUnseen
<1> QED
  BY <1>1, <1>2, <1>3, <1>4, <1>5, <1>6, <1>7, <1>8, <1>9 DEF Next, ThreadStep

(* Entries, mutexes and condition variables give what ClientRegistry       *)
(* promises: an id is used once, visits to a client exclude one another, a *)
(* removal waits for none, and a client goes when it is out of the map and *)
(* no visitor is inside.                                                   *)
THEOREM ManagerImplementsRegistry == Spec => ImplementsClientRegistry
<1>1. Init => Registry!Init
  <2> SUFFICES ASSUME Init PROVE Registry!Init
    OBVIOUS
  <2>1. IInv
    BY InitIInv
  <2>2. \A id \in ClientIds : id \notin Issued
    BY <2>1 DEF Init, IInv, OwnerInv, Carries
  <2>3. Unused = ClientIds /\ Alive = {}
    BY <2>2, ViewMembers DEF Init, Destroys
  <2> QED
    BY <2>3 DEF Init, Registry!Init, Unused, Alive
<1>2. IInv /\ [Next]_vars => [Registry!Next]_(Registry!vars)
  BY StepIsRegistry
<1> QED
  BY <1>1, <1>2, InvCorrect, PTL DEF Spec, ImplementsClientRegistry, Registry!Spec
=============================================================================
