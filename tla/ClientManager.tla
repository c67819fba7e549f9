--------------------------- MODULE ClientManager ---------------------------
(***************************************************************************)
(* ClientManager (ClientManager.h/.cpp): the map of clients and, for each  *)
(* client, an entry that serializes the visits to it and decides which     *)
(* thread destroys it.  Any thread may call any operation, from inside a   *)
(* visitor too: a packet handler that removes its own client, another one, *)
(* or all of them.  Each critical section under clientsMutex or under an   *)
(* entry's mutex is an action.                                             *)
(*                                                                         *)
(* An entry outlives its place in the map in the shared_ptr of every       *)
(* thread that found it.  Entries are named by their client ids, which are *)
(* never used twice.                                                       *)
(***************************************************************************)
EXTENDS Integers, FiniteSets

CONSTANTS
  Threads,
  IdSpan,          \* 2^64 in the code: values of a ClientId
  MaxCalls,        \* bound: calls a thread makes
  NoThread

ASSUME ManagerAssumption ==
  /\ IdSpan \in Nat \ {0}
  /\ MaxCalls \in Nat
  /\ NoThread \notin Threads

InvalidClientId == 0
ClientIds == 1 .. IdSpan - 1

VARIABLES
  nextClientId,    \* 0 once the ids are used up
  clients,         \* the map's keys
  hasClient,       \* [ClientIds -> BOOLEAN]: entry.client is not null
  removing,        \* [ClientIds -> BOOLEAN]: entry.removing
  visitor,         \* [ClientIds -> thread]: entry.visitingThreadId, or NoThread
                   \*   while visitActive is false
  pc,              \* [Threads -> where its call is]
  target,          \* [Threads -> the client its call is about]
  pending,         \* [Threads -> SUBSET ids]: removedEntries still to mark
  visiting,        \* [Threads -> the client whose visitor it runs, or 0]
  calls,           \* [Threads -> Nat]: calls made, for MaxCalls
  destroyed,       \* history: clients that got OnClientDestroyed
  left             \* history: [Threads -> SUBSET ids]: the clients this
                   \*   thread removed and left to their visitor to destroy

entryVars == <<hasClient, removing, visitor>>
vars == <<nextClientId, clients, entryVars, pc, target, pending, visiting,
          calls, destroyed, left>>

\* A thread's program counter, "out" when it is in no call of the manager:
\* in its own code or, if it is visiting, in the visitor's.
Pcs == {"out", "created", "enter", "waiting", "mark", "destroy"}

Waiting(id) == {t \in Threads : pc[t] = "waiting" /\ target[t] = id}

\* isVisitingClient, a thread_local of the visiting thread.  The mutant
\* knows only of a visit to the same client, as the entry does.
IsVisitingSame(t, id) == visiting[t] = id
IsVisiting(t, id) == visiting[t] # InvalidClientId

Init ==
  /\ nextClientId = 1 % IdSpan
  /\ clients = {}
  /\ hasClient = [id \in ClientIds |-> FALSE]
  /\ removing = [id \in ClientIds |-> FALSE]
  /\ visitor = [id \in ClientIds |-> NoThread]
  /\ pc = [t \in Threads |-> "out"]
  /\ target = [t \in Threads |-> InvalidClientId]
  /\ pending = [t \in Threads |-> {}]
  /\ visiting = [t \in Threads |-> InvalidClientId]
  /\ calls = [t \in Threads |-> 0]
  /\ destroyed = {}
  /\ left = [t \in Threads |-> {}]

\* A new call of thread t, at pc and about client id.
Call(t, at, id) ==
  /\ pc[t] = "out"
  /\ calls[t] < MaxCalls
  /\ calls' = [calls EXCEPT ![t] = @ + 1]
  /\ pc' = [pc EXCEPT ![t] = at]
  /\ target' = [target EXCEPT ![t] = id]
-----------------------------------------------------------------------------
\* Mutant: the wrapped counter is not noticed.
ClientIdLeftUnchecked == TRUE
ClientIdLeft == nextClientId # InvalidClientId

\* AddClient: an id under clientsMutex, or InvalidClientId and no change
\* when they are used up; ...
AddAllocate(t) ==
  /\ ClientIdLeft
  /\ Call(t, "created", nextClientId)
  /\ nextClientId' = (nextClientId + 1) % IdSpan
  /\ UNCHANGED <<clients, entryVars, pending, visiting, destroyed, left>>

\* ... then, after OnClientCreated with no mutex held, the entry.
AddEmplace(t) ==
  /\ pc[t] = "created"
  /\ clients' = clients \cup {target[t]}
  /\ hasClient' = [hasClient EXCEPT ![target[t]] = TRUE]
  /\ pc' = [pc EXCEPT ![t] = "out"]
  /\ UNCHANGED <<nextClientId, removing, visitor, target, pending, visiting,
                 calls, destroyed, left>>
-----------------------------------------------------------------------------
\* VisitClient looks the entry up; a nested visit and an id that is not in
\* the map are refused without a change.
VisitFind(t, id) ==
  /\ ~IsVisiting(t, id)
  /\ id \in clients
  /\ Call(t, "enter", id)
  /\ UNCHANGED <<nextClientId, clients, entryVars, pending, visiting,
                 destroyed, left>>

\* The predicate of the entry's condition variable.
Ready(id) == visitor[id] = NoThread \/ removing[id]

\* Mutant: the state of the entry is not looked at again after the wait.
EnterableOnceReady(id) == visitor[id] = NoThread
Enterable(id) == ~removing[id] /\ hasClient[id]

\* Under the entry's mutex: wait, or give up, or start the visit.
VisitEnter(t) ==
  LET id == target[t]
  IN  /\ pc[t] = "enter"
      /\ \/ /\ ~Ready(id)
            /\ pc' = [pc EXCEPT ![t] = "waiting"]
            /\ UNCHANGED <<visitor, visiting>>
         \/ /\ Ready(id) /\ ~Enterable(id)
            /\ pc' = [pc EXCEPT ![t] = "out"]
            /\ UNCHANGED <<visitor, visiting>>
         \/ /\ Ready(id) /\ Enterable(id)
            /\ visitor' = [visitor EXCEPT ![id] = t]
            /\ visiting' = [visiting EXCEPT ![t] = id]
            /\ pc' = [pc EXCEPT ![t] = "out"]
      /\ UNCHANGED <<nextClientId, clients, hasClient, removing, target,
                     pending, calls, destroyed, left>>

\* A condition variable may wake a thread that nobody notified.
SpuriousWakeup(t) ==
  /\ pc[t] = "waiting"
  /\ pc' = [pc EXCEPT ![t] = "enter"]
  /\ UNCHANGED <<nextClientId, clients, entryVars, target, pending, visiting,
                 calls, destroyed, left>>

\* The program counters after t goes to at and the threads in woken awake.
Moves(t, at, woken) ==
  pc' = [u \in Threads |-> IF u = t THEN at
                           ELSE IF u \in woken THEN "enter" ELSE pc[u]]

\* Mutant: the pointer is copied instead of moved.
TakeClientByCopy(id) == UNCHANGED hasClient
TakeClient(id) == hasClient' = [hasClient EXCEPT ![id] = FALSE]

\* Mutant: the end of a visit does not see that it has a client to destroy.
LeftToNobody(id) == FALSE
LeftToVisitor(id) == removing[id] /\ hasClient[id]

\* Mutant: nobody is notified.  notify_one wakes one waiter, any of them.
NotifyNobody(id) == {{}}
NotifyOne(id) == IF Waiting(id) = {} THEN {{}} ELSE {{u} : u \in Waiting(id)}

\* FinishClientVisit, when the visitor has returned or thrown: notify_one,
\* and take the client along if its removal came during the visit.
VisitFinish(t) ==
  LET id == visiting[t]
  IN  /\ pc[t] = "out"
      /\ id # InvalidClientId
      /\ visitor' = [visitor EXCEPT ![id] = NoThread]
      /\ visiting' = [visiting EXCEPT ![t] = InvalidClientId]
      /\ \E woken \in NotifyOne(id) :
           \/ /\ LeftToVisitor(id)
              /\ TakeClient(id)
              /\ target' = [target EXCEPT ![t] = id]
              /\ Moves(t, "destroy", woken)
           \/ /\ ~LeftToVisitor(id)
              /\ Moves(t, "out", woken)
              /\ UNCHANGED <<hasClient, target>>
      /\ UNCHANGED <<nextClientId, clients, removing, pending, calls,
                     destroyed, left>>
-----------------------------------------------------------------------------
\* RemoveClient takes the entry out of the map.
RemoveFind(t, id) ==
  /\ id \in clients
  /\ Call(t, "mark", id)
  /\ clients' = clients \ {id}
  /\ pending' = [pending EXCEPT ![t] = {id}]
  /\ UNCHANGED <<nextClientId, entryVars, visiting, destroyed, left>>

\* RemoveAllClients takes out every entry at once.
RemoveAll(t) ==
  /\ clients # {}
  /\ Call(t, "mark", InvalidClientId)
  /\ clients' = {}
  /\ pending' = [pending EXCEPT ![t] = clients]
  /\ UNCHANGED <<nextClientId, entryVars, visiting, destroyed, left>>

\* Where a removal is once it is done with one entry.
AfterEntry(rest) == IF rest = {} THEN "out" ELSE "mark"

\* Mutant: the client is taken from under its visitor.
TakeableAlways(id) == hasClient[id]
Takeable(id) == visitor[id] = NoThread /\ hasClient[id]

\* MarkClientForRemoval: notify_all, and take the client unless a visit is
\* on, whose thread will.
Mark(t) ==
  \E id \in pending[t] :
    /\ pc[t] = "mark"
    /\ removing' = [removing EXCEPT ![id] = TRUE]
    /\ pending' = [pending EXCEPT ![t] = @ \ {id}]
    /\ target' = [target EXCEPT ![t] = id]
    /\ \/ /\ Takeable(id)
          /\ TakeClient(id)
          /\ Moves(t, "destroy", Waiting(id))
          /\ UNCHANGED left
       \/ /\ ~Takeable(id)
          /\ Moves(t, AfterEntry(pending[t] \ {id}), Waiting(id))
          /\ left' = [left EXCEPT ![t] = @ \cup {id}]
          /\ UNCHANGED hasClient
    /\ UNCHANGED <<nextClientId, clients, visitor, visiting, calls, destroyed>>

\* DestroyClient: OnClientDestroyed, then the object goes, with no mutex
\* held.  The client was taken by a removal or at the end of a visit.
Destroy(t) ==
  /\ pc[t] = "destroy"
  /\ destroyed' = destroyed \cup {target[t]}
  /\ pc' = [pc EXCEPT ![t] = AfterEntry(pending[t])]
  /\ UNCHANGED <<nextClientId, clients, entryVars, target, pending, visiting,
                 calls, left>>
-----------------------------------------------------------------------------
ThreadStep(t) ==
  \/ AddEmplace(t)
  \/ VisitEnter(t)
  \/ VisitFinish(t)
  \/ Mark(t)
  \/ Destroy(t)

Next ==
  \E t \in Threads :
    \/ AddAllocate(t)
    \/ \E id \in ClientIds : VisitFind(t, id) \/ RemoveFind(t, id)
    \/ RemoveAll(t)
    \/ SpuriousWakeup(t)
    \/ ThreadStep(t)

(***************************************************************************)
(* A thread that is not blocked runs, and a visitor ends.  Nobody has to   *)
(* call anything, and no waiter may count on waking up unnotified.         *)
(***************************************************************************)
Fairness == \A t \in Threads : WF_vars(ThreadStep(t))

Spec == Init /\ [][Next]_vars /\ Fairness
-----------------------------------------------------------------------------
(* Types; nobody waits for, marks or destroys a client without naming it.  *)
TypeOK ==
  /\ nextClientId \in 0 .. IdSpan - 1
  /\ clients \subseteq ClientIds
  /\ hasClient \in [ClientIds -> BOOLEAN]
  /\ removing \in [ClientIds -> BOOLEAN]
  /\ visitor \in [ClientIds -> Threads \cup {NoThread}]
  /\ pc \in [Threads -> Pcs]
  /\ target \in [Threads -> ClientIds \cup {InvalidClientId}]
  /\ \A t \in Threads :
       pc[t] \in {"created", "enter", "waiting", "destroy"} =>
         target[t] # InvalidClientId
  /\ pending \in [Threads -> SUBSET ClientIds]
  /\ visiting \in [Threads -> ClientIds \cup {InvalidClientId}]
  /\ calls \in [Threads -> Nat]
  /\ destroyed \subseteq ClientIds
  /\ left \in [Threads -> SUBSET ClientIds]

Issued == {id \in ClientIds : id < nextClientId \/ nextClientId = 0}
Creating(id) == {t \in Threads : pc[t] = "created" /\ target[t] = id}
Destroying(id) == {t \in Threads : pc[t] = "destroy" /\ target[t] = id}

Owners(id) ==
  ({"creating"} \X Creating(id))
  \cup ({"destroying"} \X Destroying(id))
  \cup (IF hasClient[id] THEN {<<"entry", id>>} ELSE {})
  \cup (IF id \in destroyed THEN {<<"nobody", id>>} ELSE {})

(* A client has one owner at a time: the thread adding it, its entry, the  *)
(* one thread that took it to destroy it, or nobody once it is destroyed.  *)
(* So whichever of a removal and the end of a visit comes last destroys    *)
(* it, once.                                                               *)
ClientHasOneOwner ==
  \A id \in Issued : \E owner \in Owners(id) : Owners(id) = {owner}

(* Visits to a client exclude one another, and the client a visitor runs   *)
(* on is in its entry until that visitor is done.                          *)
VisitsAreExclusive ==
  \A t \in Threads : visiting[t] # InvalidClientId =>
    /\ visitor[visiting[t]] = t
    /\ hasClient[visiting[t]]
    /\ \A u \in Threads \ {t} : visiting[u] # visiting[t]

(* No wakeup is lost: as long as a thread waits, either the visit it waits *)
(* for is still on and will notify, or some thread is about to look at the *)
(* entry again and will notify in its turn; and none waits for a client    *)
(* that is being removed.                                                  *)
NoLostWakeup ==
  \A id \in ClientIds : Waiting(id) # {} =>
    /\ ~removing[id]
    /\ \/ visitor[id] # NoThread
       \/ \E t \in Threads : pc[t] = "enter" /\ target[t] = id

(* Once a removal is done with a client no visit to it starts, not even by *)
(* a thread that had found its entry before and was waiting: at most the   *)
(* visit already on goes on.                                               *)
NoVisitAfterRemoval ==
  [][\A t, u \in Threads : \A id \in left[u] :
       visiting'[t] = id => visiting[t] = id]_vars

(* Every call returns: a waiter gets its turn or is sent away, although    *)
(* others may overtake it, nested visits wait for nobody, and a removal    *)
(* from inside a visitor does not wait for that visitor.  Visits are       *)
(* finitely many here; under an endless stream of them a waiter could be   *)
(* overtaken for ever.                                                     *)
EveryCallReturns == \A t \in Threads : pc[t] # "out" ~> pc[t] = "out"

(* A removed client is destroyed in the end, by whoever.                   *)
RemovedClientIsDestroyed ==
  \A id \in ClientIds : removing[id] ~> id \in destroyed

(* The manager keeps its promise, ClientRegistry: an id counts as unused   *)
(* until its client is in the map, and a client as alive until whoever     *)
(* took it has destroyed it.                                               *)
Registry == INSTANCE ClientRegistry WITH
  NoClient <- InvalidClientId,
  unused <- (ClientIds \ Issued) \cup {id \in ClientIds : Creating(id) # {}},
  alive <- {id \in ClientIds : hasClient[id] \/ Destroying(id) # {}}

ImplementsClientRegistry == Registry!Spec
=============================================================================
