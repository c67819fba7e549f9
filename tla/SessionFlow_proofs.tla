------------------------- MODULE SessionFlow_proofs -------------------------
(***************************************************************************)
(* Proofs about the life of a session under traffic, in four layers:       *)
(*   IdInv      whose slot and whose task it is: the id of the session in  *)
(*              a slot is made of the slot's generation, and a thread      *)
(*              holds a session with the id in its task;                   *)
(*   FlowInv    what the queues and the threads have made sure of: all     *)
(*              packets of an endpoint are with one thread, so that what   *)
(*              was accepted is dispatched in order, and a disconnect is   *)
(*              asked for after the data ahead of it, unless the client    *)
(*              was gone by then;                                          *)
(*   ClientInv  a session in the table has a client: RemoveClient takes    *)
(*              the client away after the last of its sessions;            *)
(*   LastingInv one session for an id.  A slot's generation exceeds those  *)
(*              of all the sessions that left it, until it wraps: the      *)
(*              theorems that need it say there are too few sessions for   *)
(*              that.                                                      *)
(***************************************************************************)
EXTENDS SessionFlow, SessionLookupTable_proofs, FiniteSetTheorems,
        WellFoundedInduction

USE TableAssumption, FlowAssumption DEF TableAssumption, FlowAssumption

Registered(s) == connection[s] # InvalidConnectionId

\* The session in a slot has the id of the slot's present generation.
OccupantInv ==
  \A i \in Indices :
    Occupied(i) =>
      connection[slots[i].session] = MakeConnectionId(i, slots[i].generation)

\* A thread's session is the one its task is addressed to.
HoldInv ==
  \A p \in LogicProcessors : \A s \in Sessions :
    worker[p].session = s =>
      Registered(s) /\ connection[s] = worker[p].task.connection

\* The sessions that left slot i.
Retired(i) ==
  {s \in Sessions :
     /\ Registered(s)
     /\ GetIndex(connection[s]) = i
     /\ slots[i].session # s}

\* A slot's generation is that of all who left it exceeded, and grew by no
\* more than one for each.
GenerationInv ==
  \A i \in Indices :
    /\ slots[i].generation <= 1 + Cardinality(Retired(i))
    /\ \A s \in Retired(i) : GetGeneration(connection[s]) < slots[i].generation

UniqueInv ==
  \A s, t \in Sessions :
    Registered(s) /\ connection[s] = connection[t] => s = t

\* A session in the table has a client, and RemoveClient takes the client away
\* when it has taken its last session.
ClientInv ==
  /\ leaving \in clients \cup {NoClient}
  /\ sweepClient \in {leaving, NoClient}
  /\ \A i \in Indices : Occupied(i) =>
       /\ Owner[slots[i].session] \in clients
       /\ leaving # NoClient /\ (sweepClient = NoClient \/ i < sweepIndex) =>
            Owner[slots[i].session] # leaving

\* PeerLeft, but for what the client did not get because it was removed.
PeerSaidSo(s) ==
  \E k \in DOMAIN accepted[s] :
    /\ PacketTypeOf(s, accepted[s][k]) = "disconnect"
    /\ Owner[s] \in clients => DataBefore(s, k)

\* A packet waits at its endpoint's processor, a timeout request at its id's,
\* and a disconnect request follows from its peer's packet.
Justified(p, task) ==
  /\ task.kind = "packet" => PacketAffinity[task.sender] = p
  /\ task.kind = "timeout" => DisconnectAffinity(task.connection) = p
  /\ task.kind = "disconnect" =>
       \E s \in Sessions :
         Registered(s) /\ connection[s] = task.connection /\ PeerSaidSo(s)

QueueInv ==
  \A p \in LogicProcessors : \A k \in DOMAIN queue[p] :
    Justified(p, queue[p][k])

Handling == {"accept", "mark", "dispatch"}

\* What a thread has made sure of on the way to where it is.
WorkOk(p) ==
  /\ Justified(p, worker[p].task)
  /\ worker[p].pc \in Handling =>
       PeerOf[worker[p].session] = worker[p].task.sender
  /\ worker[p].pc \in {"mark", "dispatch"} =>
       LET a == accepted[worker[p].session]
       IN  a # <<>> /\ a[Len(a)] = worker[p].task.sequence

WorkInv == \A p \in LogicProcessors : WorkOk(p)

\* No packet of a session is handled between its second check and its removal
\* if they run on one thread.
TimeOk(p) ==
  \A s \in Sessions :
    /\ worker[p].pc = "release" /\ worker[p].task.kind = "timeout"
    /\ worker[p].session = s /\ CoLocated(s)
    => HasTimedOut(s, worker[p].task.requested)

TimeoutInv == \A p \in LogicProcessors : TimeOk(p)

FlowInv ==
  QueueInv /\ WorkInv /\ TimeoutInv /\ DispatchFollowsAcceptance
-----------------------------------------------------------------------------
(* The operators the actions are made of.                                  *)

LEMMA IdsAreNaturals == ConnectionIds \subseteq Nat
<1>1. GenerationSpan * IndexSpan \in Int
  OBVIOUS
<1> QED
  BY <1>1 DEF ConnectionIds

LEMMA AffinityTyped ==
  ASSUME NEW id \in ConnectionIds
  PROVE  DisconnectAffinity(id) \in LogicProcessors
<1>1. id \in Nat
  BY IdsAreNaturals
<1>2. id % LogicCount \in 0 .. LogicCount - 1
  BY <1>1, SMTT(30)
<1> QED
  BY <1>2 DEF DisconnectAffinity, LogicProcessors

(* What AcceptSequence leaves behind is a window again.                    *)
LEMMA WindowTyped ==
  ASSUME NEW w \in Windows, NEW n \in Nat, Acceptable(w, n)
  PROVE  Accepted(w, n) \in Windows
<1>1. w.highest \in Nat /\ w.bits \subseteq Distances /\ 0 \in Distances
  BY WindowAssumption DEF Windows, Distances, WindowAssumption
<1>2. CASE w.highest = 0
  BY <1>1, <1>2 DEF Accepted, Windows
<1>3. CASE w.highest # 0 /\ n > w.highest
  <2>1. Advanced(w.bits, n - w.highest) \subseteq Distances
    BY <1>1 DEF Advanced, ShiftLeft
  <2> QED
    BY <1>3, <2>1 DEF Accepted, Windows
<1>4. CASE w.highest # 0 /\ ~(n > w.highest)
  <2>1. w.highest - n \in Distances
    BY <1>1, <1>4, WindowAssumption DEF Acceptable, Distances, WindowAssumption
  <2>2. w.bits \cup {w.highest - n} \subseteq Distances
    BY <1>1, <2>1
  <2> QED
    BY <1>1, <1>4, <2>2 DEF Accepted, Windows
<1> QED
  BY <1>2, <1>3, <1>4

LEMMA SnapshotTyped ==
  ASSUME TableTypeOK
  PROVE  ActiveSnapshot \subseteq ConnectionIds \X Sessions
<1> SUFFICES ASSUME NEW i \in Indices, Occupied(i)
             PROVE  /\ MakeConnectionId(i, slots[i].generation) \in ConnectionIds
                    /\ slots[i].session \in Sessions
  BY DEF ActiveSnapshot
<1>1. i \in 0 .. IndexSpan - 1
  BY TableAssumption DEF TableAssumption, Indices
<1>2. slots[i].generation \in Generations
  BY DEF TableTypeOK
<1>3. slots[i].session \in Sessions
  BY DEF TableTypeOK, Occupied
<1> QED
  BY <1>1, <1>2, <1>3, IdArithmetic

(* The scan's next target is one of those it has left.                     *)
LEMMA NextTargetIsOne ==
  ASSUME heartbeat.targets \subseteq ConnectionIds \X Sessions,
         heartbeat.targets # {}
  PROVE  /\ NextTarget \in heartbeat.targets
         /\ NextTarget[1] \in ConnectionIds /\ NextTarget[2] \in Sessions
<1>1. \A t \in heartbeat.targets : GetIndex(t[1]) \in Nat
  BY IdHalves
<1> DEFINE N == {GetIndex(t[1]) : t \in heartbeat.targets}
<1>2. N \in SUBSET Nat
  BY <1>1
<1>3. PICK n \in N : TRUE
  OBVIOUS
<1>4. PICK m \in N : \A k \in N : m <= k
  <2> HIDE DEF N
  <2> DEFINE R == OpToRel(<, Nat)
  <2>1. \A x, y \in Nat : <<y, x>> \in R <=> y < x
    BY DEF OpToRel
  <2>2. IsWellFoundedOn(R, Nat)
    BY NatLessThanWellFounded
  <2> HIDE DEF R
  <2>3. PICK x \in N : \A y \in N : ~(<<y, x>> \in R)
    BY <1>2, <1>3, <2>2, WFMin
  <2>4. ASSUME NEW y \in N
        PROVE  x <= y
    <3>1. x \in Nat /\ y \in Nat /\ ~(<<y, x>> \in R)
      BY <1>2, <2>3
    <3>2. ~(y < x)
      BY <2>1, <3>1
    <3> QED
      BY <3>1, <3>2
  <2> QED
    BY <2>4
<1>5. PICK t \in heartbeat.targets : m = GetIndex(t[1])
  OBVIOUS
<1>6. \A u \in heartbeat.targets : GetIndex(t[1]) <= GetIndex(u[1])
  BY <1>4, <1>5
<1>7. NextTarget \in heartbeat.targets
  BY <1>6 DEF NextTarget
<1> QED
  BY <1>7

(* Push appends to one queue.                                              *)
LEMMA PushTyped ==
  ASSUME queue \in [LogicProcessors -> Seq(Tasks)],
         NEW p \in LogicProcessors, NEW task \in Tasks, Push(p, task)
  PROVE  queue' \in [LogicProcessors -> Seq(Tasks)]
  BY DEF Push

LEMMA PushKeeps ==
  ASSUME queue \in [LogicProcessors -> Seq(Tasks)],
         NEW p \in LogicProcessors, NEW task \in Tasks, Push(p, task),
         NEW q \in LogicProcessors, NEW k \in DOMAIN queue'[q]
  PROVE  \/ k \in DOMAIN queue[q] /\ queue'[q][k] = queue[q][k]
         \/ q = p /\ queue'[q][k] = task
<1>1. CASE q # p
  BY <1>1 DEF Push
<1>2. CASE q = p
  <2>1. queue'[q] = Append(queue[q], task)
    BY <1>2 DEF Push
  <2>2. queue[q] \in Seq(Tasks)
    OBVIOUS
  <2> QED
    BY <1>2, <2>1, <2>2
<1> QED
  BY <1>1, <1>2

(* A thread's record is one of its six shapes.                             *)
LEMMA WorkShapes ==
  ASSUME TypeOK, NEW p \in LogicProcessors
  PROVE  /\ worker[p].pc = "idle" => worker[p] = Idle
         /\ worker[p].pc \in {"accept", "mark", "dispatch"} =>
              worker[p].task \in PacketTasks /\ worker[p].session \in Sessions
         /\ worker[p].pc = "validate" =>
              worker[p].task \in TimeoutRequests /\ worker[p].session \in Sessions
         /\ worker[p].pc = "release" =>
              \/ /\ worker[p].task \in TimeoutRequests
                 /\ worker[p].session \in Sessions
              \/ /\ worker[p].task \in DisconnectTasks
                 /\ worker[p].session = NoSession
         /\ worker[p].pc \in {"idle", "accept", "mark", "dispatch", "validate",
                              "release"}
<1>1. worker[p] \in {Idle} \cup Works
  BY DEF TypeOK
<1>2. CASE worker[p] = Idle
  BY <1>2 DEF Idle
<1>3. CASE worker[p] \in Works
  BY <1>3 DEF Works
<1> QED
  BY <1>1, <1>2, <1>3

LEMMA IdleShape ==
  /\ Idle.pc = "idle" /\ Idle.task = NoTask /\ Idle.session = NoSession
  /\ NoTask.kind = "none"
  BY DEF Idle, NoTask

LEMMA GotoSteps ==
  ASSUME TypeOK, NEW p \in LogicProcessors, NEW pc, Goto(p, pc),
         worker[p] # Idle
  PROVE  /\ worker' = [worker EXCEPT ![p] = worker'[p]]
         /\ worker'[p] = [pc |-> pc, task |-> worker[p].task,
                          session |-> worker[p].session]
         /\ \A q \in LogicProcessors : q # p => worker'[q] = worker[q]
<1>1. worker \in [LogicProcessors -> {Idle} \cup Works] /\ worker[p] \in Works
  BY DEF TypeOK
<1>2. worker' = [worker EXCEPT ![p] = [worker[p] EXCEPT !.pc = pc]]
  BY DEF Goto
<1>3. [worker[p] EXCEPT !.pc = pc] =
        [pc |-> pc, task |-> worker[p].task, session |-> worker[p].session]
  BY <1>1 DEF Works
<1> QED
  BY <1>1, <1>2, <1>3

LEMMA FinishSteps ==
  ASSUME TypeOK, NEW p \in LogicProcessors, Finish(p)
  PROVE  /\ worker' \in [LogicProcessors -> {Idle} \cup Works]
         /\ worker'[p] = Idle
         /\ \A q \in LogicProcessors : q # p => worker'[q] = worker[q]
  BY DEF TypeOK, Finish
-----------------------------------------------------------------------------
(* Types and the table.                                                    *)

Base == TypeOK /\ FreeListExact

LEMMA TableStays ==
  ASSUME TableTypeOK, FreeListExact, UNCHANGED tableVars
  PROVE  TableTypeOK' /\ FreeListExact'
  BY DEF tableVars, TableTypeOK, FreeListExact, Occupied

LEMMA InitBase == Init => Base
<1> SUFFICES ASSUME Init PROVE Base
  OBVIOUS
<1>1. TableTypeOK /\ FreeListExact
  BY TableInitInv DEF Init, TableInv
<1>2. NewWindow \in Windows
  BY DEF NewWindow, Windows
<1>3. 0 \in ConnectionIds
  <2>1. GenerationSpan * IndexSpan \in Int
    OBVIOUS
  <2>2. MakeConnectionId(0, 1) \in ConnectionIds
    BY IdArithmetic DEF Generations
  <2> QED
    BY <2>1, <2>2 DEF ConnectionIds
<1>4. /\ connection \in [Sessions -> ConnectionIds]
      /\ replay \in [Sessions -> Windows]
      /\ lastReceived \in [Sessions -> Nat]
      /\ now \in Nat
  BY <1>2, <1>3 DEF Init, InvalidConnectionId
<1>5. /\ queue \in [LogicProcessors -> Seq(Tasks)]
      /\ worker \in [LogicProcessors -> {Idle} \cup Works]
      /\ accepted \in [Sessions -> Seq(Nat)]
      /\ delivered \in [Sessions -> Seq(Nat)]
  BY DEF Init
<1>6. /\ heartbeat \in [pc : {"asleep", "snapshot", "check", "push"},
                        scanTime : Nat,
                        targets : SUBSET (ConnectionIds \X Sessions)]
      /\ heartbeat.pc \notin {"check", "push"}
  BY DEF Init, Asleep
<1>7. clients \subseteq Clients /\ leaving \in Clients \cup {NoClient}
  BY DEF Init
<1> QED
  BY <1>1, <1>4, <1>5, <1>6, <1>7 DEF Base, TypeOK

LEMMA RegisterTyped ==
  ASSUME Base, NEW s \in Sessions, Register(s), NEW i, i = Head(freeIndices)
  PROVE  /\ Base'
         /\ i \in Indices /\ ~Occupied(i)
         /\ slots' = [slots EXCEPT ![i] =
                        [session |-> s, generation |-> slots[i].generation]]
         /\ connection' = [connection EXCEPT ![s] =
                             MakeConnectionId(i, slots[i].generation)]
         /\ slots[i].generation \in Generations
         /\ ~Registered(s)
<1>1. TableInv
  BY DEF Base, TypeOK, TableInv
<1>2. /\ TableInv' /\ i \in Indices /\ ~Occupied(i)
      /\ slots' = [slots EXCEPT ![i] =
                     [session |-> s, generation |-> slots[i].generation]]
  BY <1>1, AllocateKeepsTable DEF Register
<1>3. slots[i].generation \in Generations
  BY <1>1, <1>2 DEF TableInv, TableTypeOK
<1>4. MakeConnectionId(i, slots[i].generation) \in ConnectionIds
  <2>1. i \in 0 .. IndexSpan - 1
    BY <1>2 DEF Indices
  <2> QED
    BY <1>3, <2>1, IdArithmetic
<1>5. connection' = [connection EXCEPT ![s] =
                       MakeConnectionId(i, slots[i].generation)]
  BY DEF Register, NextConnectionId
<1>6. /\ connection' \in [Sessions -> ConnectionIds]
      /\ lastReceived' \in [Sessions -> Nat]
  BY <1>4, <1>5 DEF Register, Base, TypeOK
<1>7. TypeOK'
  BY <1>2, <1>6 DEF TableInv, Register, clientVars, history, Base, TypeOK
<1> QED
  BY <1>2, <1>3, <1>5, <1>7 DEF Base, TableInv, Register, Registered

LEMMA ReleaseTyped ==
  ASSUME Base, NEW id \in ConnectionIds, Release(id), NEW i, i = GetIndex(id)
  PROVE  /\ TableTypeOK' /\ FreeListExact'
         /\ i \in Indices /\ Occupied(i)
         /\ slots[i].generation = GetGeneration(id)
         /\ slots' = [slots EXCEPT ![i] =
                        [session |-> NoSession,
                         generation |-> NextGeneration(slots[i].generation)]]
<1>1. TableInv
  BY DEF Base, TypeOK, TableInv
<1> QED
  BY <1>1, ReleaseKeepsTable DEF TableInv

LEMMA TasksTyped ==
  ASSUME NEW id \in ConnectionIds, NEW n \in Nat, NEW sender \in Peers
  PROVE  /\ PacketTask(id, n, sender) \in PacketTasks
         /\ DisconnectTask(id) \in DisconnectTasks
         /\ TimeoutTask(id, n) \in TimeoutRequests
  BY DEF PacketTask, DisconnectTask, TimeoutTask, PacketTasks,
         DisconnectTasks, TimeoutRequests

LEMMA FindTyped ==
  ASSUME TableTypeOK, NEW id \in ConnectionIds
  PROVE  /\ Find(id) \in Sessions \cup {NoSession}
         /\ Find(id) # NoSession =>
              \E i \in Indices :
                /\ i = GetIndex(id)
                /\ slots[i].session = Find(id)
                /\ slots[i].generation = GetGeneration(id)
                /\ id # InvalidConnectionId
<1>1. GetIndex(id) \in Nat
  BY IdHalves
<1>2. CASE Find(id) = NoSession
  BY <1>2
<1>3. CASE Find(id) # NoSession
  <2>1. /\ id # InvalidConnectionId
        /\ ~(GetIndex(id) >= SlotCount)
        /\ slots[GetIndex(id)].generation = GetGeneration(id)
        /\ Find(id) = slots[GetIndex(id)].session
    BY <1>3 DEF Find
  <2>2. GetIndex(id) \in Indices
    BY <1>1, <2>1 DEF Indices
  <2> QED
    BY <2>1, <2>2 DEF TableTypeOK
<1> QED
  BY <1>2, <1>3

\* The record w that Take leaves a thread with: task popped, s found for it.
Taken(task, s, w) ==
  \/ w = Idle
  \/ /\ task \in PacketTasks /\ s \in Sessions /\ PeerOf[s] = task.sender
     /\ w = [pc |-> "accept", task |-> task, session |-> s]
  \/ /\ task \in TimeoutRequests /\ s \in Sessions
     /\ w = [pc |-> "validate", task |-> task, session |-> s]
  \/ /\ task \in DisconnectTasks
     /\ w = [pc |-> "release", task |-> task, session |-> NoSession]

(* Take's outcomes: the task it pops, and a session if the task's kind     *)
(* needs one and its id is registered.                                     *)
LEMMA TakeSteps ==
  ASSUME Base, NEW p \in LogicProcessors, Take(p),
         NEW task, task = queue[p][1], NEW s, s = Find(task.connection)
  PROVE  /\ 1 \in DOMAIN queue[p] /\ task \in Tasks
         /\ queue' \in [LogicProcessors -> Seq(Tasks)]
         /\ \A q \in LogicProcessors : \A k \in DOMAIN queue'[q] :
              \E l \in DOMAIN queue[q] : queue'[q][k] = queue[q][l]
         /\ worker' \in [LogicProcessors -> {Idle} \cup Works]
         /\ \A q \in LogicProcessors : q # p => worker'[q] = worker[q]
         /\ worker[p] = Idle
         /\ Taken(task, s, worker'[p])
<1>1. /\ queue[p] \in Seq(Tasks) /\ queue[p] # <<>>
      /\ queue' = [queue EXCEPT ![p] = Tail(queue[p])]
      /\ Head(queue[p]) = task
  BY DEF Base, TypeOK, Take
<1>2. 1 \in DOMAIN queue[p] /\ task \in Tasks
  BY <1>1
<1>3. queue' \in [LogicProcessors -> Seq(Tasks)]
  BY <1>1 DEF Base, TypeOK
<1>4. ASSUME NEW q \in LogicProcessors, NEW k \in DOMAIN queue'[q]
      PROVE  \E l \in DOMAIN queue[q] : queue'[q][k] = queue[q][l]
  <2>1. CASE q # p
    BY <1>1, <1>4, <2>1 DEF Base, TypeOK
  <2>2. CASE q = p
    <3>1. queue'[q] = Tail(queue[p])
      BY <1>1, <2>2 DEF Base, TypeOK
    <3>2. /\ Len(queue[p]) \in Nat /\ DOMAIN queue[p] = 1 .. Len(queue[p])
          /\ DOMAIN Tail(queue[p]) = 1 .. Len(queue[p]) - 1
          /\ \A j \in 1 .. Len(queue[p]) - 1 :
               Tail(queue[p])[j] = queue[p][j + 1]
      BY <1>1
    <3>3. k \in 1 .. Len(queue[p]) - 1
      BY <3>1, <3>2
    <3>4. k + 1 \in DOMAIN queue[p] /\ queue'[q][k] = queue[p][k + 1]
      BY <3>1, <3>2, <3>3
    <3> QED
      BY <2>2, <3>4
  <2> QED
    BY <2>1, <2>2
<1>5. worker \in [LogicProcessors -> {Idle} \cup Works] /\ worker[p] = Idle
  BY WorkShapes DEF Base, TypeOK, Take
<1>6. /\ task.connection \in ConnectionIds
      /\ task.kind = "packet" => task \in PacketTasks
      /\ task.kind = "timeout" => task \in TimeoutRequests
      /\ task.kind = "disconnect" => task \in DisconnectTasks
  BY <1>2 DEF Tasks, PacketTasks, TimeoutRequests, DisconnectTasks
<1>7. s \in Sessions \cup {NoSession}
  BY <1>6, FindTyped DEF Base, TypeOK
<1> DEFINE Outcome(w) == worker' = [worker EXCEPT ![p] = w]
<1>8. \/ Outcome(Idle)
      \/ /\ task.kind = "packet" /\ s # NoSession /\ PeerOf[s] = task.sender
         /\ Outcome([pc |-> "accept", task |-> task, session |-> s])
      \/ /\ task.kind = "timeout" /\ s # NoSession
         /\ Outcome([pc |-> "validate", task |-> task, session |-> s])
      \/ /\ task.kind = "disconnect"
         /\ Outcome([pc |-> "release", task |-> task, session |-> NoSession])
  BY <1>1 DEF Take, Authentic, Finish
<1>9. ASSUME NEW w \in {Idle} \cup Works, Outcome(w)
      PROVE  /\ worker' \in [LogicProcessors -> {Idle} \cup Works]
             /\ worker'[p] = w
             /\ \A q \in LogicProcessors : q # p => worker'[q] = worker[q]
  BY <1>5, <1>9
<1>10. CASE Outcome(Idle)
  BY <1>2, <1>3, <1>4, <1>5, <1>9, <1>10 DEF Taken
<1>11. CASE /\ task.kind = "packet" /\ s # NoSession /\ PeerOf[s] = task.sender
            /\ Outcome([pc |-> "accept", task |-> task, session |-> s])
  <2>1. [pc |-> "accept", task |-> task, session |-> s] \in Works
    BY <1>6, <1>7, <1>11 DEF Works
  <2>2. /\ task \in PacketTasks /\ s \in Sessions /\ PeerOf[s] = task.sender
    BY <1>6, <1>7, <1>11
  <2> HIDE DEF Outcome
  <2> QED
    BY <1>2, <1>3, <1>4, <1>5, <1>9, <1>11, <2>1, <2>2 DEF Taken
<1>12. CASE /\ task.kind = "timeout" /\ s # NoSession
            /\ Outcome([pc |-> "validate", task |-> task, session |-> s])
  <2>1. [pc |-> "validate", task |-> task, session |-> s] \in Works
    BY <1>6, <1>7, <1>12 DEF Works
  <2>2. task \in TimeoutRequests /\ s \in Sessions
    BY <1>6, <1>7, <1>12
  <2> HIDE DEF Outcome
  <2> QED
    BY <1>2, <1>3, <1>4, <1>5, <1>9, <1>12, <2>1, <2>2 DEF Taken
<1>13. CASE /\ task.kind = "disconnect"
            /\ Outcome([pc |-> "release", task |-> task, session |-> NoSession])
  <2>1. [pc |-> "release", task |-> task, session |-> NoSession] \in Works
    BY <1>6, <1>13 DEF Works
  <2>2. task \in DisconnectTasks
    BY <1>6, <1>13
  <2> HIDE DEF Outcome
  <2> QED
    BY <1>2, <1>3, <1>4, <1>5, <1>9, <1>13, <2>1, <2>2 DEF Taken
<1> HIDE DEF Outcome
<1> QED
  BY <1>8, <1>10, <1>11, <1>12, <1>13

LEMMA ArriveSteps ==
  ASSUME Base, NEW s \in Sessions, NEW n \in DOMAIN PacketTypes[PeerOf[s]],
         Arrive(s, n), NEW task, task = PacketTask(connection[s], n, PeerOf[s])
  PROVE  /\ Base'
         /\ task \in PacketTasks /\ task.sender = PeerOf[s]
         /\ \A q \in LogicProcessors : \A k \in DOMAIN queue'[q] :
              \/ k \in DOMAIN queue[q] /\ queue'[q][k] = queue[q][k]
              \/ q = PacketAffinity[task.sender] /\ queue'[q][k] = task
<1> DEFINE p == PacketAffinity[PeerOf[s]]
<1>1. n \in Nat /\ PeerOf[s] \in Peers /\ connection[s] \in ConnectionIds
  BY DEF Base, TypeOK
<1>2. task \in PacketTasks /\ task.sender = PeerOf[s]
  BY <1>1, TasksTyped DEF PacketTask
<1>3. task \in Tasks
  BY <1>2 DEF Tasks
<1>4. p \in LogicProcessors
  BY <1>1
<1>5. Push(p, task)
  BY DEF Arrive, PacketProcessor
<1>6. queue \in [LogicProcessors -> Seq(Tasks)]
  BY DEF Base, TypeOK
<1> HIDE DEF p
<1>7. queue' \in [LogicProcessors -> Seq(Tasks)]
  BY <1>3, <1>4, <1>5, <1>6, PushTyped
<1>8. TableTypeOK' /\ FreeListExact'
  BY TableStays DEF Base, TypeOK, Arrive
<1>9. TypeOK'
  BY <1>7, <1>8 DEF Base, TypeOK, Arrive, sessionVars, clientVars,
                           history
<1>10. \A q \in LogicProcessors : \A k \in DOMAIN queue'[q] :
         \/ k \in DOMAIN queue[q] /\ queue'[q][k] = queue[q][k]
         \/ q = p /\ queue'[q][k] = task
  BY <1>3, <1>4, <1>5, <1>6, PushKeeps
<1> QED
  BY <1>2, <1>8, <1>9, <1>10 DEF Base, p

LEMMA AcceptSteps ==
  ASSUME Base, NEW p \in LogicProcessors, AcceptSequence(p),
         NEW s, s = worker[p].session, NEW n, n = worker[p].task.sequence
  PROVE  /\ Base'
         /\ worker[p].pc = "accept"
         /\ worker[p].task \in PacketTasks /\ s \in Sessions /\ n \in Nat
         /\ \A q \in LogicProcessors : q # p => worker'[q] = worker[q]
         /\ \/ /\ accepted' = [accepted EXCEPT ![s] = Append(accepted[s], n)]
               /\ worker'[p] = [pc |-> "mark", task |-> worker[p].task,
                                session |-> s]
            \/ /\ accepted' = accepted
               /\ worker'[p] = Idle
<1>1. /\ worker[p].pc = "accept"
      /\ worker[p].task \in PacketTasks /\ s \in Sessions
  BY WorkShapes DEF Base, AcceptSequence
<1>2. n \in Nat
  BY <1>1 DEF PacketTasks
<1>3. TableTypeOK' /\ FreeListExact'
  BY TableStays DEF Base, TypeOK, AcceptSequence
<1>4. UNCHANGED <<connection, lastReceived, now, queue, heartbeat, clients,
                  leaving, delivered>>
  BY DEF AcceptSequence, clientVars
<1>5. worker \in [LogicProcessors -> {Idle} \cup Works] /\ TypeOK
  BY DEF Base, TypeOK
<1>6. CASE /\ Acceptable(replay[s], n)
           /\ replay' = [replay EXCEPT ![s] = Accepted(@, n)]
           /\ accepted' = [accepted EXCEPT ![s] = Append(@, n)]
           /\ Goto(p, "mark")
  <2>1. worker[p] # Idle
    BY <1>1, IdleShape
  <2>2. /\ worker' = [worker EXCEPT ![p] = worker'[p]]
        /\ worker'[p] = [pc |-> "mark", task |-> worker[p].task, session |-> s]
        /\ \A q \in LogicProcessors : q # p => worker'[q] = worker[q]
    BY <1>5, <1>6, <2>1, GotoSteps
  <2>3. worker'[p] \in Works
    BY <1>1, <2>2 DEF Works
  <2>4. worker' \in [LogicProcessors -> {Idle} \cup Works]
    BY <1>5, <2>2, <2>3
  <2>5. replay' \in [Sessions -> Windows]
    BY <1>1, <1>2, <1>5, <1>6, WindowTyped DEF TypeOK
  <2>6. accepted' \in [Sessions -> Seq(Nat)]
    BY <1>1, <1>2, <1>5, <1>6 DEF TypeOK
  <2>7. TypeOK'
    BY <1>3, <1>4, <1>5, <2>4, <2>5, <2>6 DEF TypeOK
  <2> QED
    BY <1>1, <1>2, <1>3, <1>6, <2>2, <2>7 DEF Base
<1>7. CASE Finish(p) /\ UNCHANGED <<replay, accepted>>
  <2>1. /\ worker' \in [LogicProcessors -> {Idle} \cup Works]
        /\ worker'[p] = Idle
        /\ \A q \in LogicProcessors : q # p => worker'[q] = worker[q]
    BY <1>5, <1>7, FinishSteps
  <2>2. TypeOK'
    BY <1>3, <1>4, <1>5, <1>7, <2>1 DEF TypeOK
  <2> QED
    BY <1>1, <1>2, <1>3, <1>7, <2>1, <2>2 DEF Base
<1> QED
  BY <1>6, <1>7 DEF AcceptSequence

LEMMA MarkSteps ==
  ASSUME Base, NEW p \in LogicProcessors, MarkReceivedNow(p),
         NEW s, s = worker[p].session
  PROVE  /\ Base'
         /\ worker[p].pc = "mark" /\ s \in Sessions
         /\ worker[p].task \in PacketTasks
         /\ lastReceived' = [lastReceived EXCEPT ![s] = now]
         /\ worker'[p] = [pc |-> "dispatch", task |-> worker[p].task,
                          session |-> s]
         /\ \A q \in LogicProcessors : q # p => worker'[q] = worker[q]
<1>1. /\ worker[p].pc = "mark" /\ worker[p].task \in PacketTasks
      /\ s \in Sessions
  BY WorkShapes DEF Base, MarkReceivedNow
<1>2. worker \in [LogicProcessors -> {Idle} \cup Works] /\ TypeOK
  BY DEF Base, TypeOK
<1>3. worker[p] # Idle /\ Goto(p, "dispatch")
  BY <1>1, IdleShape DEF MarkReceivedNow
<1>4. /\ worker' = [worker EXCEPT ![p] = worker'[p]]
      /\ worker'[p] = [pc |-> "dispatch", task |-> worker[p].task,
                       session |-> s]
      /\ \A q \in LogicProcessors : q # p => worker'[q] = worker[q]
  BY <1>2, <1>3, GotoSteps
<1>5. worker'[p] \in Works
  BY <1>1, <1>4 DEF Works
<1>6. worker' \in [LogicProcessors -> {Idle} \cup Works]
  BY <1>2, <1>4, <1>5
<1>7. lastReceived' = [lastReceived EXCEPT ![s] = now]
  BY DEF MarkReceivedNow
<1>8. TableTypeOK' /\ FreeListExact'
  BY TableStays DEF Base, TypeOK, MarkReceivedNow
<1>9. lastReceived' \in [Sessions -> Nat]
  BY <1>1, <1>2, <1>7 DEF TypeOK
<1>10. TypeOK'
  BY <1>2, <1>6, <1>8, <1>9 DEF TypeOK, MarkReceivedNow, clientVars, history
<1> QED
  BY <1>1, <1>4, <1>7, <1>8, <1>10 DEF Base

LEMMA DispatchSteps ==
  ASSUME Base, NEW p \in LogicProcessors, Dispatch(p),
         NEW s, s = worker[p].session, NEW n, n = worker[p].task.sequence,
         NEW id, id = worker[p].task.connection
  PROVE  /\ Base'
         /\ worker[p].pc = "dispatch" /\ s \in Sessions /\ n \in Nat
         /\ worker[p].task \in PacketTasks
         /\ worker'[p] = Idle
         /\ \A q \in LogicProcessors : q # p => worker'[q] = worker[q]
         /\ \/ ~IsData(s, n) /\ UNCHANGED <<queue, delivered>>
            \/ /\ PacketTypeOf(s, n) = "disconnect" /\ ~IsData(s, n)
               /\ delivered' = delivered
               /\ \A q \in LogicProcessors : \A k \in DOMAIN queue'[q] :
                    \/ k \in DOMAIN queue[q] /\ queue'[q][k] = queue[q][k]
                    \/ queue'[q][k] = DisconnectTask(id)
            \/ /\ IsData(s, n) /\ Owner[s] \notin clients
               /\ UNCHANGED <<queue, delivered>>
            \/ /\ IsData(s, n) /\ Owner[s] \in clients
               /\ delivered' = [delivered EXCEPT ![s] = Append(delivered[s], n)]
               /\ queue' = queue
<1>1. /\ worker[p].pc = "dispatch" /\ worker[p].task \in PacketTasks
      /\ s \in Sessions
  BY WorkShapes DEF Base, Dispatch
<1>2. n \in Nat /\ id \in ConnectionIds
  BY <1>1 DEF PacketTasks
<1>3. /\ worker' \in [LogicProcessors -> {Idle} \cup Works]
      /\ worker'[p] = Idle
      /\ \A q \in LogicProcessors : q # p => worker'[q] = worker[q]
  BY FinishSteps DEF Base, Dispatch
<1>4. TableTypeOK' /\ FreeListExact'
  BY TableStays DEF Base, TypeOK, Dispatch
<1>5. /\ TypeOK
      /\ UNCHANGED <<connection, replay, lastReceived, now, heartbeat, clients,
                     leaving, accepted>>
  BY DEF Base, Dispatch, sessionVars, clientVars
<1>6. CASE PacketTypeOf(s, n) = "heartbeat" /\ UNCHANGED <<queue, delivered>>
  <2>1. TypeOK'
    BY <1>3, <1>4, <1>5, <1>6 DEF TypeOK
  <2>2. ~IsData(s, n)
    BY <1>6 DEF IsData
  <2> QED
    BY <1>1, <1>2, <1>3, <1>4, <1>6, <2>1, <2>2 DEF Base
<1>7. CASE /\ PacketTypeOf(s, n) = "disconnect"
           /\ Push(DisconnectAffinity(id), DisconnectTask(id))
           /\ delivered' = delivered
  <2>1. DisconnectTask(id) \in Tasks
    BY <1>2, TasksTyped DEF Tasks, DisconnectTask, DisconnectTasks
  <2>2. DisconnectAffinity(id) \in LogicProcessors
    BY <1>2, AffinityTyped
  <2>3. queue \in [LogicProcessors -> Seq(Tasks)]
    BY <1>5 DEF TypeOK
  <2>4. queue' \in [LogicProcessors -> Seq(Tasks)]
    BY <1>7, <2>1, <2>2, <2>3, PushTyped
  <2>5. \A q \in LogicProcessors : \A k \in DOMAIN queue'[q] :
          \/ k \in DOMAIN queue[q] /\ queue'[q][k] = queue[q][k]
          \/ queue'[q][k] = DisconnectTask(id)
    BY <1>7, <2>1, <2>2, <2>3, PushKeeps
  <2>6. ~IsData(s, n)
    BY <1>7 DEF IsData
  <2>7. TypeOK'
    BY <1>3, <1>4, <1>5, <1>7, <2>4 DEF TypeOK
  <2> QED
    BY <1>1, <1>2, <1>3, <1>4, <1>7, <2>5, <2>6, <2>7 DEF Base
<1>8. CASE /\ PacketTypeOf(s, n) = "data" /\ Owner[s] \in clients
           /\ delivered' = [delivered EXCEPT ![s] = Append(delivered[s], n)]
           /\ queue' = queue
  <2>1. delivered' \in [Sessions -> Seq(Nat)]
    BY <1>1, <1>2, <1>5, <1>8 DEF TypeOK
  <2>2. TypeOK'
    BY <1>3, <1>4, <1>5, <1>8, <2>1 DEF TypeOK
  <2>3. IsData(s, n)
    BY <1>8 DEF IsData
  <2> QED
    BY <1>1, <1>2, <1>3, <1>4, <1>8, <2>2, <2>3 DEF Base
<1>9. CASE /\ PacketTypeOf(s, n) = "data" /\ Owner[s] \notin clients
           /\ UNCHANGED <<queue, delivered>>
  <2>1. TypeOK'
    BY <1>3, <1>4, <1>5, <1>9 DEF TypeOK
  <2>2. IsData(s, n)
    BY <1>9 DEF IsData
  <2> QED
    BY <1>1, <1>2, <1>3, <1>4, <1>9, <2>1, <2>2 DEF Base
<1> QED
  BY <1>6, <1>7, <1>8, <1>9 DEF Dispatch

LEMMA ValidateSteps ==
  ASSUME Base, NEW p \in LogicProcessors, ValidateTimeout(p),
         NEW s, s = worker[p].session
  PROVE  /\ Base'
         /\ worker[p].pc = "validate" /\ s \in Sessions
         /\ worker[p].task \in TimeoutRequests
         /\ \A q \in LogicProcessors : q # p => worker'[q] = worker[q]
         /\ \/ worker'[p] = Idle
            \/ /\ HasTimedOut(s, worker[p].task.requested)
               /\ worker'[p] = [pc |-> "release", task |-> worker[p].task,
                                session |-> s]
<1>1. /\ worker[p].pc = "validate" /\ worker[p].task \in TimeoutRequests
      /\ s \in Sessions
  BY WorkShapes DEF Base, ValidateTimeout
<1>2. worker \in [LogicProcessors -> {Idle} \cup Works] /\ TypeOK
  BY DEF Base, TypeOK
<1>3. TableTypeOK' /\ FreeListExact'
  BY TableStays DEF Base, TypeOK, ValidateTimeout
<1>4. UNCHANGED <<connection, replay, lastReceived, now, queue, heartbeat,
                  clients, leaving, accepted, delivered>>
  BY DEF ValidateTimeout, sessionVars, clientVars, history
<1>5. CASE HasTimedOut(s, worker[p].task.requested) /\ Goto(p, "release")
  <2>1. worker[p] # Idle
    BY <1>1, IdleShape
  <2>2. /\ worker' = [worker EXCEPT ![p] = worker'[p]]
        /\ worker'[p] = [pc |-> "release", task |-> worker[p].task,
                         session |-> s]
        /\ \A q \in LogicProcessors : q # p => worker'[q] = worker[q]
    BY <1>2, <1>5, <2>1, GotoSteps
  <2>3. worker'[p] \in Works
    BY <1>1, <2>2 DEF Works
  <2>4. worker' \in [LogicProcessors -> {Idle} \cup Works]
    BY <1>2, <2>2, <2>3
  <2>5. TypeOK'
    BY <1>2, <1>3, <1>4, <2>4 DEF TypeOK
  <2> QED
    BY <1>1, <1>3, <1>5, <2>2, <2>5 DEF Base
<1>6. CASE Finish(p)
  <2>1. /\ worker' \in [LogicProcessors -> {Idle} \cup Works]
        /\ worker'[p] = Idle
        /\ \A q \in LogicProcessors : q # p => worker'[q] = worker[q]
    BY <1>2, <1>6, FinishSteps
  <2>2. TypeOK'
    BY <1>2, <1>3, <1>4, <2>1 DEF TypeOK
  <2> QED
    BY <1>1, <1>3, <2>1, <2>2 DEF Base
<1> QED
  BY <1>5, <1>6 DEF ValidateTimeout

LEMMA ReleaseSteps ==
  ASSUME Base, NEW p \in LogicProcessors, ReleaseSession(p),
         NEW id, id = worker[p].task.connection
  PROVE  /\ Base'
         /\ worker[p].pc = "release" /\ id \in ConnectionIds
         /\ worker'[p] = Idle
         /\ \A q \in LogicProcessors : q # p => worker'[q] = worker[q]
         /\ Release(id) \/ UNCHANGED tableVars
<1>1. worker[p].pc = "release"
  BY DEF ReleaseSession
<1>2. id \in ConnectionIds
  BY <1>1, WorkShapes DEF Base, TimeoutRequests, DisconnectTasks
<1>3. /\ worker' \in [LogicProcessors -> {Idle} \cup Works]
      /\ worker'[p] = Idle
      /\ \A q \in LogicProcessors : q # p => worker'[q] = worker[q]
  BY FinishSteps DEF Base, ReleaseSession
<1>4. Release(id) \/ UNCHANGED tableVars
  BY DEF ReleaseSession
<1>5. TableTypeOK' /\ FreeListExact'
  BY <1>2, <1>4, TableStays, ReleaseTyped DEF Base, TypeOK
<1>6. TypeOK'
  BY <1>3, <1>5 DEF Base, TypeOK, ReleaseSession, sessionVars, clientVars,
                      history
<1> QED
  BY <1>1, <1>2, <1>3, <1>4, <1>5, <1>6 DEF Base

(* The heartbeat thread changes no session and no thread's work, and       *)
(* queues timeout requests at their processors.                            *)
LEMMA HeartbeatSteps ==
  ASSUME Base, HeartbeatStep
  PROVE  /\ Base'
         /\ \A q \in LogicProcessors : \A k \in DOMAIN queue'[q] :
              \/ k \in DOMAIN queue[q] /\ queue'[q][k] = queue[q][k]
              \/ /\ queue'[q][k] \in TimeoutRequests
                 /\ DisconnectAffinity(queue'[q][k].connection) = q
         /\ UNCHANGED <<tableVars, sessionVars, now, worker, clientVars, history>>
<1> DEFINE H == [pc : {"asleep", "snapshot", "check", "push"}, scanTime : Nat,
                 targets : SUBSET (ConnectionIds \X Sessions)]
<1>1. UNCHANGED <<tableVars, sessionVars, now, worker, clientVars, history>>
  BY DEF HeartbeatStep, ScanBegin, ScanSnapshot, ScanCheck, ScanPush
<1>2. TableTypeOK' /\ FreeListExact'
  BY <1>1, TableStays DEF Base, TypeOK
<1>3. /\ heartbeat \in H /\ TypeOK
      /\ heartbeat.pc \in {"check", "push"} => heartbeat.targets # {}
  BY DEF Base, TypeOK
<1>4. ASSUME heartbeat' \in H,
             heartbeat'.pc \in {"check", "push"} => heartbeat'.targets # {},
             queue' \in [LogicProcessors -> Seq(Tasks)]
      PROVE  Base'
  BY <1>1, <1>2, <1>3, <1>4 DEF Base, TypeOK, sessionVars, clientVars,
                                history
<1>5. ASSUME NEW targets \in SUBSET (ConnectionIds \X Sessions), ScanOn(targets)
      PROVE  /\ heartbeat' \in H
             /\ heartbeat'.pc \in {"check", "push"} => heartbeat'.targets # {}
  BY <1>3, <1>5 DEF ScanOn, Asleep
<1>6. CASE ScanBegin
  <2>1. /\ heartbeat' = [heartbeat EXCEPT !.pc = "snapshot", !.scanTime = now]
        /\ queue' = queue
    BY <1>6 DEF ScanBegin
  <2>2. heartbeat' \in H /\ heartbeat'.pc = "snapshot"
    BY <1>3, <2>1 DEF TypeOK
  <2> QED
    BY <1>1, <1>3, <1>4, <2>1, <2>2 DEF TypeOK
<1>7. CASE ScanSnapshot
  <2>1. ScanOn(ActiveSnapshot) /\ queue' = queue
    BY <1>7 DEF ScanSnapshot
  <2>2. ActiveSnapshot \in SUBSET (ConnectionIds \X Sessions)
    BY <1>3, SnapshotTyped DEF TypeOK
  <2> QED
    BY <1>1, <1>3, <1>4, <1>5, <2>1, <2>2 DEF TypeOK
<1>8. CASE ScanCheck
  <2>1. queue' = queue
    BY <1>8 DEF ScanCheck
  <2>2. heartbeat.targets \in SUBSET (ConnectionIds \X Sessions)
    BY <1>3
  <2>3. CASE heartbeat' = [heartbeat EXCEPT !.pc = "push"]
    <3>1. /\ heartbeat' \in H /\ heartbeat'.targets = heartbeat.targets
          /\ heartbeat.targets # {}
      BY <1>3, <1>8, <2>3 DEF ScanCheck
    <3> QED
      BY <1>1, <1>3, <1>4, <2>1, <3>1 DEF TypeOK
  <2>4. CASE ScanOn(heartbeat.targets \ {NextTarget})
    <3>1. /\ heartbeat' \in H
          /\ heartbeat'.pc \in {"check", "push"} => heartbeat'.targets # {}
      BY <1>5, <2>2, <2>4
    <3> QED
      BY <1>1, <1>3, <1>4, <2>1, <3>1 DEF TypeOK
  <2> QED
    BY <1>8, <2>3, <2>4 DEF ScanCheck
<1>9. CASE ScanPush
  <2>1. /\ heartbeat.targets \subseteq ConnectionIds \X Sessions
        /\ heartbeat.targets # {} /\ heartbeat.scanTime \in Nat
    BY <1>3, <1>9 DEF ScanPush
  <2>2. PICK id \in ConnectionIds : id = NextTarget[1]
    BY <2>1, NextTargetIsOne
  <2>3. PICK task : task = TimeoutTask(id, heartbeat.scanTime)
    OBVIOUS
  <2>4. task \in TimeoutRequests /\ task.connection = id
    BY <2>1, <2>3 DEF TimeoutTask, TimeoutRequests
  <2>5. PICK p \in LogicProcessors : p = DisconnectAffinity(id)
    BY AffinityTyped
  <2>6. /\ Push(p, task)
        /\ ScanOn(heartbeat.targets \ {NextTarget})
    BY <1>9, <2>2, <2>3, <2>5 DEF ScanPush
  <2>7. task \in Tasks /\ queue \in [LogicProcessors -> Seq(Tasks)]
    BY <1>3, <2>4 DEF Tasks, TypeOK
  <2>8. queue' \in [LogicProcessors -> Seq(Tasks)]
    BY <2>6, <2>7, PushTyped
  <2>9. \A q \in LogicProcessors : \A k \in DOMAIN queue'[q] :
          \/ k \in DOMAIN queue[q] /\ queue'[q][k] = queue[q][k]
          \/ q = p /\ queue'[q][k] = task
    BY <2>6, <2>7, PushKeeps
  <2>10. /\ heartbeat' \in H
         /\ heartbeat'.pc \in {"check", "push"} => heartbeat'.targets # {}
    <3>1. heartbeat.targets \ {NextTarget} \in SUBSET (ConnectionIds \X Sessions)
      BY <2>1
    <3> QED
      BY <1>5, <2>6, <3>1
  <2>11. Base'
    BY <1>4, <2>8, <2>10
  <2> QED
    BY <1>1, <2>4, <2>5, <2>9, <2>11
<1> QED
  BY <1>6, <1>7, <1>8, <1>9 DEF HeartbeatStep

(* ReleaseByClientId vacates the slot it has come to or goes past it.      *)
LEMMA SweepSlotSteps ==
  ASSUME Base, SweepSlot, NEW i, i = sweepIndex
  PROVE  /\ TableTypeOK' /\ FreeListExact' /\ i \in Indices
         /\ \/ /\ Occupied(i) /\ Owner[slots[i].session] = sweepClient
               /\ slots' = [slots EXCEPT ![i] =
                     [session |-> NoSession,
                      generation |-> NextGeneration(slots[i].generation)]]
            \/ /\ Occupied(i) => Owner[slots[i].session] # sweepClient
               /\ slots' = slots
<1>1. TableInv
  BY DEF Base, TypeOK, TableInv
<1>2. /\ i \in Indices
      /\ sweepIndex' \in 0 .. SlotCount /\ sweepClient' = sweepClient
  BY <1>1 DEF SweepSlot, TableInv, TableTypeOK, Indices
<1>3. CASE Swept(i) /\ Vacate(i)
  <2>1. /\ slots' = [slots EXCEPT ![i] =
                      [session |-> NoSession,
                       generation |-> NextGeneration(slots[i].generation)]]
        /\ slots' \in [Indices -> [session : Sessions \cup {NoSession},
                                   generation : Generations]]
        /\ freeIndices' \in Seq(Indices)
        /\ FreeListExact'
    BY <1>1, <1>2, <1>3, VacateKeepsTable DEF Swept
  <2>2. TableTypeOK'
    BY <1>1, <1>2, <2>1 DEF TableInv, TableTypeOK, Indices
  <2> QED
    BY <1>2, <1>3, <2>1, <2>2 DEF Swept
<1>4. CASE ~Swept(i) /\ UNCHANGED <<slots, freeIndices>>
  <2>1. TableTypeOK' /\ FreeListExact'
    BY <1>1, <1>2, <1>4 DEF TableInv, TableTypeOK, FreeListExact, Occupied
  <2> QED
    BY <1>2, <1>4, <2>1 DEF Swept
<1> QED
  BY <1>3, <1>4 DEF SweepSlot

(* A removal of a client changes the table and the clients only, and of    *)
(* the table one slot that had a session.                                  *)
RemovalOfClient == RemoveClientStep \/ \E c \in Clients : RemoveClientBegin(c)

LEMMA RemoveClientSteps ==
  ASSUME Base, RemovalOfClient
  PROVE  /\ Base'
         /\ UNCHANGED <<sessionVars, now, queue, worker, heartbeat, history>>
         /\ clients' \subseteq clients
         /\ \/ slots' = slots
            \/ \E i \in Indices :
                 /\ Occupied(i)
                 /\ slots' = [slots EXCEPT ![i] =
                       [session |-> NoSession,
                        generation |-> NextGeneration(slots[i].generation)]]
<1>1. /\ UNCHANGED <<sessionVars, now, queue, worker, heartbeat, history>>
      /\ clients' \subseteq clients
  BY DEF RemovalOfClient, RemoveClientStep, RemoveClientBegin,
         RemoveClientSessions, RemoveClientEnd, clientVars
<1>2. TypeOK
  BY DEF Base
<1>3. ASSUME TableTypeOK', FreeListExact', leaving' \in Clients \cup {NoClient}
      PROVE  Base'
  BY <1>1, <1>2, <1>3 DEF Base, TypeOK, sessionVars, history
<1>4. ASSUME NEW c \in Clients, RemoveClientBegin(c)
      PROVE  Base' /\ slots' = slots
  <2>1. /\ slots' = slots /\ freeIndices' = freeIndices
        /\ sweepClient' = c /\ sweepIndex' = 0 /\ leaving' = c
    BY <1>4 DEF RemoveClientBegin, SweepBegin
  <2>2. TableTypeOK' /\ FreeListExact'
    BY <2>1 DEF Base, TypeOK, TableTypeOK, FreeListExact, Occupied
  <2> QED
    BY <1>3, <2>1, <2>2
<1>5. CASE SweepSlot /\ clientVars' = clientVars
  <2>1. PICK i : i = sweepIndex
    OBVIOUS
  <2>2. /\ TableTypeOK' /\ FreeListExact' /\ i \in Indices
        /\ \/ /\ Occupied(i)
              /\ slots' = [slots EXCEPT ![i] =
                    [session |-> NoSession,
                     generation |-> NextGeneration(slots[i].generation)]]
           \/ slots' = slots
    BY <1>5, <2>1, SweepSlotSteps
  <2>3. leaving' \in Clients \cup {NoClient}
    BY <1>2, <1>5 DEF TypeOK, clientVars
  <2> QED
    BY <1>1, <1>3, <2>2, <2>3
<1>6. CASE SweepEnd /\ clientVars' = clientVars
  <2>1. /\ slots' = slots /\ freeIndices' = freeIndices
        /\ sweepClient' = NoClient /\ sweepIndex' = 0
    BY <1>6 DEF SweepEnd
  <2>2. TableTypeOK' /\ FreeListExact'
    BY <2>1 DEF Base, TypeOK, TableTypeOK, FreeListExact, Occupied
  <2>3. leaving' \in Clients \cup {NoClient}
    BY <1>2, <1>6 DEF TypeOK, clientVars
  <2> QED
    BY <1>1, <1>3, <2>1, <2>2, <2>3
<1>7. CASE RemoveClientEnd
  <2>1. UNCHANGED tableVars /\ leaving' = NoClient
    BY <1>7 DEF RemoveClientEnd
  <2>2. TableTypeOK' /\ FreeListExact'
    BY <1>2, <2>1, TableStays DEF Base, TypeOK
  <2> QED
    BY <1>1, <1>3, <2>1, <2>2 DEF tableVars
<1> QED
  BY <1>1, <1>4, <1>5, <1>6, <1>7
     DEF RemovalOfClient, RemoveClientStep, RemoveClientSessions
-----------------------------------------------------------------------------
(* Whose slot, whose task.                                                 *)

IdInv == Base /\ OccupantInv /\ HoldInv

LEMMA InitIdInv == Init => IdInv
<1> SUFFICES ASSUME Init PROVE IdInv
  OBVIOUS
<1>1. Base
  BY InitBase
<1>2. OccupantInv
  BY DEF Init, TableInit, OccupantInv, Occupied
<1>3. HoldInv
  BY IdleShape DEF Init, HoldInv
<1> QED
  BY <1>1, <1>2, <1>3 DEF IdInv

LEMMA OccupantStays ==
  ASSUME OccupantInv, UNCHANGED <<slots, connection>>
  PROVE  OccupantInv'
  BY DEF OccupantInv, Occupied, Indices, MakeConnectionId

LEMMA VacateKeepsOccupants ==
  ASSUME Base, OccupantInv, NEW i \in Indices, connection' = connection,
         slots' = [slots EXCEPT ![i] =
                     [session |-> NoSession,
                      generation |-> NextGeneration(slots[i].generation)]]
  PROVE  OccupantInv'
<1> SUFFICES ASSUME NEW j \in Indices, slots'[j].session # NoSession
             PROVE  connection[slots'[j].session] =
                      MakeConnectionId(j, slots'[j].generation)
  BY DEF OccupantInv, Occupied, Indices, MakeConnectionId
<1>2. slots \in [Indices -> [session : Sessions \cup {NoSession},
                             generation : Generations]]
  BY DEF Base, TypeOK, TableTypeOK
<1>3. j # i /\ slots'[j] = slots[j]
  BY <1>2
<1> QED
  BY <1>3 DEF OccupantInv, Occupied

LEMMA ReleaseKeepsOccupants ==
  ASSUME Base, OccupantInv, NEW id \in ConnectionIds, Release(id),
         connection' = connection
  PROVE  OccupantInv'
<1>1. PICK i \in Indices :
        slots' = [slots EXCEPT ![i] =
                    [session |-> NoSession,
                     generation |-> NextGeneration(slots[i].generation)]]
  BY ReleaseTyped
<1> QED
  BY <1>1, VacateKeepsOccupants

(* A thread that changes its own record leaves it with a session only if   *)
(* that is the one its task names.                                         *)
LEMMA HoldKeeps ==
  ASSUME HoldInv, NEW p \in LogicProcessors, connection' = connection,
         \A q \in LogicProcessors : q # p => worker'[q] = worker[q],
         \A s \in Sessions : worker'[p].session = s =>
           Registered(s) /\ connection[s] = worker'[p].task.connection
  PROVE  HoldInv'
<1> SUFFICES ASSUME NEW q \in LogicProcessors, NEW s \in Sessions,
                    worker'[q].session = s
             PROVE  /\ connection[s] # InvalidConnectionId
                    /\ connection[s] = worker'[q].task.connection
  BY DEF HoldInv, Registered, InvalidConnectionId
<1>1. CASE q = p
  BY <1>1 DEF Registered
<1>2. CASE q # p
  <2>1. worker'[q] = worker[q]
    BY <1>2
  <2> QED
    BY <2>1 DEF HoldInv, Registered
<1> QED
  BY <1>1, <1>2

LEMMA RegisterKeepsIds ==
  ASSUME IdInv, NEW s \in Sessions, Register(s)
  PROVE  IdInv'
<1>1. PICK i : i = Head(freeIndices)
  OBVIOUS
<1>2. /\ Base' /\ i \in Indices /\ ~Occupied(i)
      /\ slots' = [slots EXCEPT ![i] =
                     [session |-> s, generation |-> slots[i].generation]]
      /\ connection' = [connection EXCEPT ![s] =
                          MakeConnectionId(i, slots[i].generation)]
      /\ slots[i].generation \in Generations
      /\ ~Registered(s)
  BY <1>1, RegisterTyped DEF IdInv
<1>3. /\ slots \in [Indices -> [session : Sessions \cup {NoSession},
                                generation : Generations]]
      /\ connection \in [Sessions -> ConnectionIds]
  BY DEF IdInv, Base, TypeOK, TableTypeOK
<1>4. MakeConnectionId(i, slots[i].generation) # InvalidConnectionId
  <2>1. i \in 0 .. IndexSpan - 1
    BY <1>2 DEF Indices
  <2> QED
    BY <1>2, <2>1, IdArithmetic
<1>5. \A t \in Sessions : Registered(t) => t # s /\ connection'[t] = connection[t]
  BY <1>2, <1>3
<1>6. OccupantInv'
  <2> SUFFICES ASSUME NEW j \in Indices, slots'[j].session # NoSession
               PROVE  connection'[slots'[j].session] =
                        MakeConnectionId(j, slots'[j].generation)
    BY DEF OccupantInv, Occupied, Indices, MakeConnectionId
  <2>1. CASE j = i
    <3>1. slots'[j].session = s /\ slots'[j].generation = slots[i].generation
      BY <1>2, <1>3, <2>1
    <3>2. connection'[s] = MakeConnectionId(i, slots[i].generation)
      BY <1>2, <1>3
    <3> QED
      BY <2>1, <3>1, <3>2
  <2>2. CASE j # i
    <3>1. slots'[j] = slots[j]
      BY <1>2, <1>3, <2>2
    <3>2. PICK t \in Sessions : t = slots[j].session
      BY <1>3, <3>1
    <3>3. connection[t] = MakeConnectionId(j, slots[j].generation)
      BY <3>1, <3>2 DEF IdInv, OccupantInv, Occupied
    <3>4. j \in 0 .. IndexSpan - 1 /\ slots[j].generation \in Generations
      BY <1>3 DEF Indices
    <3>5. Registered(t)
      BY <3>3, <3>4, IdArithmetic DEF Registered
    <3> QED
      BY <1>5, <3>1, <3>2, <3>3, <3>5
  <2> QED
    BY <2>1, <2>2
<1>7. HoldInv'
  <2>1. worker' = worker
    BY DEF Register
  <2> SUFFICES ASSUME NEW p \in LogicProcessors, NEW t \in Sessions,
                      worker[p].session = t
               PROVE  /\ connection'[t] # InvalidConnectionId
                      /\ connection'[t] = worker[p].task.connection
    BY <2>1 DEF HoldInv, Registered, LogicProcessors, InvalidConnectionId
  <2>2. Registered(t) /\ connection[t] = worker[p].task.connection
    BY DEF IdInv, HoldInv
  <2> QED
    BY <1>5, <2>2 DEF Registered
<1> QED
  BY <1>2, <1>6, <1>7 DEF IdInv

LEMMA TakeKeepsIds ==
  ASSUME IdInv, NEW p \in LogicProcessors, Take(p)
  PROVE  IdInv'
<1>1. PICK task : task = queue[p][1]
  OBVIOUS
<1>2. PICK s : s = Find(task.connection)
  OBVIOUS
<1>3. /\ 1 \in DOMAIN queue[p] /\ task \in Tasks
      /\ queue' \in [LogicProcessors -> Seq(Tasks)]
      /\ worker' \in [LogicProcessors -> {Idle} \cup Works]
      /\ \A q \in LogicProcessors : q # p => worker'[q] = worker[q]
      /\ \/ worker'[p] = Idle
         \/ s \in Sessions /\ worker'[p].session = s /\ worker'[p].task = task
         \/ worker'[p].session = NoSession
  <2>1. Base
    BY DEF IdInv
  <2>2. /\ 1 \in DOMAIN queue[p] /\ task \in Tasks
        /\ queue' \in [LogicProcessors -> Seq(Tasks)]
        /\ worker' \in [LogicProcessors -> {Idle} \cup Works]
        /\ \A q \in LogicProcessors : q # p => worker'[q] = worker[q]
    BY <1>1, <1>2, <2>1, TakeSteps
  <2>3. Taken(task, s, worker'[p])
    BY <1>1, <1>2, <2>1, TakeSteps
  <2>4. \/ worker'[p] = Idle
        \/ s \in Sessions /\ worker'[p].session = s /\ worker'[p].task = task
        \/ worker'[p].session = NoSession
    BY <2>3 DEF Taken
  <2> QED
    BY <2>2, <2>4
<1>4. UNCHANGED <<tableVars, sessionVars, now, heartbeat, clientVars, history>>
  BY DEF Take
<1>5. Base'
  <2>1. TableTypeOK' /\ FreeListExact'
    BY <1>4, TableStays DEF IdInv, Base, TypeOK
  <2> QED
    BY <1>3, <1>4, <2>1 DEF IdInv, Base, TypeOK, sessionVars, clientVars,
                               history
<1>6. OccupantInv'
  BY <1>4, OccupantStays DEF IdInv, tableVars, sessionVars
<1>7. ASSUME s \in Sessions
      PROVE  Registered(s) /\ connection[s] = task.connection
  <2>1. task.connection \in ConnectionIds
    BY <1>3 DEF Tasks, PacketTasks, DisconnectTasks, TimeoutRequests
  <2>2. PICK i \in Indices :
          /\ i = GetIndex(task.connection)
          /\ slots[i].session = s
          /\ slots[i].generation = GetGeneration(task.connection)
          /\ task.connection # InvalidConnectionId
    BY <1>2, <1>7, <2>1, FindTyped DEF IdInv, Base, TypeOK
  <2>3. connection[s] = MakeConnectionId(i, slots[i].generation)
    BY <1>7, <2>2 DEF IdInv, OccupantInv, Occupied
  <2>4. connection[s] = task.connection
    BY <2>1, <2>2, <2>3, IdHalves
  <2> QED
    BY <2>2, <2>4 DEF Registered
<1>8. \A t \in Sessions : worker'[p].session = t =>
        Registered(t) /\ connection[t] = worker'[p].task.connection
  BY <1>3, <1>7, IdleShape
<1>9. HoldInv'
  BY <1>3, <1>4, <1>8, HoldKeeps DEF IdInv, sessionVars
<1> QED
  BY <1>5, <1>6, <1>9 DEF IdInv

(* Every other step of a thread keeps the session and the task it has, or  *)
(* drops both.                                                             *)
LEMMA ThreadKeepsIds ==
  ASSUME IdInv, NEW p \in LogicProcessors, LogicStep(p)
  PROVE  IdInv'
<1> USE DEF IdInv
<1>1. CASE Take(p)
  BY <1>1, TakeKeepsIds
<1>2. ASSUME Base', connection' = connection,
             \A q \in LogicProcessors : q # p => worker'[q] = worker[q],
             \/ worker'[p] = Idle
             \/ \E pc : worker'[p] = [pc |-> pc, task |-> worker[p].task,
                                      session |-> worker[p].session],
             slots' = slots
      PROVE  IdInv'
  <2>1. OccupantInv'
    BY <1>2, OccupantStays
  <2>2. ASSUME NEW t \in Sessions, worker'[p].session = t
        PROVE  Registered(t) /\ connection[t] = worker'[p].task.connection
    <3>1. worker'[p] # Idle
      BY <2>2, IdleShape
    <3>2. PICK pc : worker'[p] = [pc |-> pc, task |-> worker[p].task,
                                  session |-> worker[p].session]
      BY <1>2, <3>1
    <3>3. /\ worker'[p].session = worker[p].session
          /\ worker'[p].task = worker[p].task
      BY <3>2
    <3> QED
      BY <2>2, <3>3 DEF IdInv, HoldInv
  <2>3. HoldInv'
    BY <1>2, <2>2, HoldKeeps
  <2> QED
    BY <1>2, <2>1, <2>3
<1>3. CASE AcceptSequence(p)
  BY <1>2, <1>3, AcceptSteps DEF AcceptSequence, tableVars
<1>4. CASE MarkReceivedNow(p)
  BY <1>2, <1>4, MarkSteps DEF MarkReceivedNow, tableVars
<1>5. CASE Dispatch(p)
  BY <1>2, <1>5, DispatchSteps DEF Dispatch, tableVars, sessionVars
<1>6. CASE ValidateTimeout(p)
  BY <1>2, <1>6, ValidateSteps DEF ValidateTimeout, tableVars, sessionVars
<1>7. CASE ReleaseSession(p)
  <2>1. PICK id \in ConnectionIds :
          /\ Base'
          /\ worker'[p] = Idle
          /\ \A q \in LogicProcessors : q # p => worker'[q] = worker[q]
          /\ Release(id) \/ UNCHANGED tableVars
    BY <1>7, ReleaseSteps
  <2>2. connection' = connection
    BY <1>7 DEF ReleaseSession, sessionVars
  <2>3. OccupantInv'
    BY <2>1, <2>2, OccupantStays, ReleaseKeepsOccupants DEF tableVars
  <2>4. HoldInv'
    BY <2>1, <2>2, HoldKeeps, IdleShape
  <2> QED
    BY <2>1, <2>3, <2>4
<1> QED
  BY <1>1, <1>3, <1>4, <1>5, <1>6, <1>7 DEF LogicStep

LEMMA RemoveKeepsIds ==
  ASSUME IdInv, NEW s \in Sessions, RemoveSession(s)
  PROVE  IdInv'
<1> USE DEF IdInv
<1>1. PICK id \in ConnectionIds : id = connection[s] /\ Release(id)
  BY DEF RemoveSession, Base, TypeOK
<1>2. /\ UNCHANGED <<sessionVars, now, queue, worker, heartbeat, clientVars,
                     history>>
      /\ connection' = connection
  BY DEF RemoveSession, sessionVars
<1>3. TableTypeOK' /\ FreeListExact'
  BY <1>1, ReleaseTyped
<1>4. Base'
  BY <1>2, <1>3 DEF Base, TypeOK, sessionVars, clientVars, history
<1>5. OccupantInv'
  BY <1>1, <1>2, ReleaseKeepsOccupants
<1>6. HoldInv'
  BY <1>2 DEF HoldInv, Registered
<1> QED
  BY <1>4, <1>5, <1>6

LEMMA RemoveClientKeepsIds ==
  ASSUME IdInv, RemovalOfClient
  PROVE  IdInv'
<1>1. /\ Base' /\ UNCHANGED <<sessionVars, worker>>
      /\ \/ slots' = slots
         \/ \E i \in Indices :
              slots' = [slots EXCEPT ![i] =
                          [session |-> NoSession,
                           generation |-> NextGeneration(slots[i].generation)]]
  BY RemoveClientSteps DEF IdInv
<1>2. OccupantInv'
  BY <1>1, OccupantStays, VacateKeepsOccupants DEF IdInv, sessionVars
<1>3. HoldInv'
  BY <1>1 DEF IdInv, HoldInv, Registered, sessionVars
<1> QED
  BY <1>1, <1>2, <1>3 DEF IdInv

LEMMA IdInvInductive == IdInv /\ [Next]_vars => IdInv'
<1> SUFFICES ASSUME IdInv, [Next]_vars PROVE IdInv'
  OBVIOUS
<1>1. ASSUME UNCHANGED <<tableVars, sessionVars, worker>>, Base'
      PROVE  IdInv'
  BY <1>1, OccupantStays DEF IdInv, HoldInv, Registered, tableVars, sessionVars
<1>2. CASE Tick
  <2>1. UNCHANGED <<tableVars, sessionVars, queue, worker, heartbeat, clientVars,
                    history>>
    BY <1>2 DEF Tick
  <2>2. TableTypeOK' /\ FreeListExact'
    BY <2>1, TableStays DEF IdInv, Base, TypeOK
  <2>3. now' \in Nat
    BY <1>2 DEF Tick, IdInv, Base, TypeOK
  <2>4. Base'
    BY <2>1, <2>2, <2>3 DEF IdInv, Base, TypeOK, sessionVars, clientVars,
                               history
  <2> QED
    BY <1>1, <2>1, <2>4
<1>3. ASSUME NEW s \in Sessions, Register(s) PROVE IdInv'
  BY <1>3, RegisterKeepsIds
<1>4. ASSUME NEW s \in Sessions, RemoveSession(s) PROVE IdInv'
  BY <1>4, RemoveKeepsIds
<1>5. ASSUME NEW s \in Sessions, NEW n \in DOMAIN PacketTypes[PeerOf[s]],
             Arrive(s, n)
      PROVE  IdInv'
  <2>1. Base'
    BY <1>5, ArriveSteps DEF IdInv
  <2> QED
    BY <1>1, <1>5, <2>1 DEF Arrive
<1>6. ASSUME NEW p \in LogicProcessors, LogicStep(p) PROVE IdInv'
  BY <1>6, ThreadKeepsIds
<1>7. CASE HeartbeatStep
  BY <1>1, <1>7, HeartbeatSteps DEF IdInv
<1>8. CASE RemovalOfClient
  BY <1>8, RemoveClientKeepsIds
<1>9. CASE UNCHANGED vars
  <2>1. TableTypeOK' /\ FreeListExact'
    BY <1>9, TableStays DEF IdInv, Base, TypeOK, vars
  <2>2. Base'
    BY <1>9, <2>1 DEF IdInv, Base, TypeOK, vars, sessionVars, clientVars,
                               history
  <2> QED
    BY <1>1, <1>9, <2>2 DEF vars
<1> QED
  BY <1>2, <1>3, <1>4, <1>5, <1>6, <1>7, <1>8, <1>9 DEF Next, RemovalOfClient

LEMMA InvariantIdInv == Spec => []IdInv
  BY InitIdInv, IdInvInductive, PTL DEF Spec

(* Types, and the free list: the table stays in order under the threads,   *)
(* the application and the heartbeat at once.                              *)
THEOREM TypeCorrect == Spec => [](TypeOK /\ FreeListExact)
  BY InvariantIdInv, PTL DEF IdInv, Base

(* No late datagram and no late request reaches the session that took over *)
(* its session's slot: a lookup answers the session whose id the task      *)
(* carries, and the thread holds that one until it is done.                *)
THEOREM TasksReachTheirSessions == Spec => []TaskReachesItsSession
<1>1. IdInv => TaskReachesItsSession
  <2> SUFFICES ASSUME IdInv, NEW p \in LogicProcessors,
                      worker[p].session # NoSession
               PROVE  connection[worker[p].session] = worker[p].task.connection
    BY DEF TaskReachesItsSession
  <2>1. worker[p].session \in Sessions
    BY WorkShapes, IdleShape DEF IdInv, Base
  <2> QED
    BY <2>1 DEF IdInv, HoldInv
<1> QED
  BY <1>1, InvariantIdInv, PTL
-----------------------------------------------------------------------------
(* Order of dispatch, and the reasons for a removal.                       *)

InOrder(s) ==
  /\ Cardinality(InHand(s)) <= 1
  /\ Len(delivered[s]) <= Cardinality(DataDue(s))
  /\ Owner[s] \in clients => Len(delivered[s]) = Cardinality(DataDue(s))
  /\ \A k \in DataDue(s) :
       Rank(s, k) <= Len(delivered[s]) =>
         delivered[s][Rank(s, k)] = accepted[s][k]

LEMMA OrderOfEach ==
  /\ DispatchFollowsAcceptance <=> \A s \in Sessions : InOrder(s)
  /\ DispatchFollowsAcceptance' <=> \A s \in Sessions : InOrder(s)'
  BY DEF DispatchFollowsAcceptance, InOrder

(* One thread at a time handles the packets of a session.                  *)
LEMMA OneThread ==
  ASSUME Base, WorkInv, NEW p \in LogicProcessors, NEW q \in LogicProcessors,
         worker[p].pc \in Handling, worker[q].pc \in Handling,
         worker[p].session = worker[q].session
  PROVE  p = q
<1>1. \A r \in LogicProcessors : worker[r].pc \in Handling =>
        PacketAffinity[PeerOf[worker[r].session]] = r
  <2> SUFFICES ASSUME NEW r \in LogicProcessors, worker[r].pc \in Handling
               PROVE  PacketAffinity[PeerOf[worker[r].session]] = r
    OBVIOUS
  <2>1. worker[r].task \in PacketTasks
    BY WorkShapes DEF Base, Handling
  <2>2. worker[r].task.kind = "packet"
    BY <2>1 DEF PacketTasks
  <2> QED
    BY <2>2 DEF WorkInv, WorkOk, Justified
<1> QED
  BY <1>1

LEMMA DataDueFinite ==
  ASSUME Base, NEW s \in Sessions
  PROVE  /\ IsFiniteSet(DataDue(s))
         /\ DataDue(s) \subseteq 1 .. Len(accepted[s])
         /\ Len(accepted[s]) \in Nat /\ Len(delivered[s]) \in Nat
         /\ Cardinality(DataDue(s)) \in Nat
<1>1. /\ accepted[s] \in Seq(Nat) /\ delivered[s] \in Seq(Nat)
      /\ Len(accepted[s]) \in Nat /\ Len(delivered[s]) \in Nat
  BY DEF Base, TypeOK
<1>2. DataDue(s) \subseteq 1 .. Len(accepted[s])
  BY <1>1 DEF DataDue
<1>3. IsFiniteSet(1 .. Len(accepted[s]))
  <2>1. 1 \in Int /\ Len(accepted[s]) \in Int
    BY <1>1
  <2> QED
    BY <2>1, FS_Interval
<1>4. IsFiniteSet(DataDue(s))
  BY <1>2, <1>3, FS_Subset
<1> QED
  BY <1>1, <1>2, <1>4, FS_CardinalityType

LEMMA RankTyped ==
  ASSUME Base, NEW s \in Sessions, NEW k \in DataDue(s)
  PROVE  Rank(s, k) \in 1 .. Cardinality(DataDue(s))
<1> DEFINE below == {j \in DataDue(s) : j <= k}
<1>1. /\ IsFiniteSet(DataDue(s)) /\ k \in Nat
      /\ Len(delivered[s]) \in Nat /\ Cardinality(DataDue(s)) \in Nat
  BY DataDueFinite
<1>2. /\ IsFiniteSet(below) /\ Cardinality(below) <= Cardinality(DataDue(s))
  BY <1>1, FS_Subset
<1>3. below # {}
  BY <1>1
<1>4. Cardinality(below) \in Nat /\ Cardinality(below) # 0
  BY <1>2, <1>3, FS_CardinalityType, FS_EmptySet
<1>5. Rank(s, k) = Cardinality(below)
  BY DEF Rank
<1> HIDE DEF below
<1> QED
  BY <1>1, <1>2, <1>4, <1>5

(* What is due is with the client while it is there.                       *)
LEMMA DueIsDelivered ==
  ASSUME Base, NEW s \in Sessions, InOrder(s), NEW k \in DataDue(s),
         Owner[s] \in clients
  PROVE  /\ Rank(s, k) \in DOMAIN delivered[s]
         /\ delivered[s][Rank(s, k)] = accepted[s][k]
<1>1. Rank(s, k) \in 1 .. Len(delivered[s])
  BY RankTyped DEF InOrder
<1>2. /\ DOMAIN delivered[s] = 1 .. Len(delivered[s])
      /\ Len(delivered[s]) \in Nat
  BY DEF Base, TypeOK
<1> QED
  BY <1>1, <1>2 DEF InOrder

(* Histories only grow, and with them what they justify.                   *)
Extends(b, a) == Len(a) <= Len(b) /\ \A k \in 1 .. Len(a) : b[k] = a[k]

LEMMA AppendExtends ==
  ASSUME NEW a \in Seq(Nat), NEW n \in Nat
  PROVE  /\ Extends(Append(a, n), a) /\ Extends(a, a)
         /\ Len(Append(a, n)) = Len(a) + 1 /\ Len(a) \in Nat
         /\ Append(a, n)[Len(a) + 1] = n
         /\ Append(a, n) # <<>>
<1>1. /\ Len(a) \in Nat /\ Len(Append(a, n)) = Len(a) + 1
      /\ Append(a, n) \in Seq(Nat)
  OBVIOUS
<1>2. \A k \in 1 .. Len(a) : Append(a, n)[k] = a[k]
  OBVIOUS
<1>3. Append(a, n)[Len(a) + 1] = n
  OBVIOUS
<1>4. Append(a, n) # <<>>
  <2>1. PICK b : b = Append(a, n)
    OBVIOUS
  <2>2. Len(b) # 0
    BY <1>1, <2>1
  <2>3. b # <<>>
    BY <2>2
  <2> QED
    BY <2>1, <2>3
<1> QED
  BY <1>1, <1>2, <1>3, <1>4 DEF Extends

LEMMA ExtendsIsPrefix ==
  ASSUME NEW a \in Seq(Nat), NEW b \in Seq(Nat), Extends(b, a)
  PROVE  /\ \A k \in 1 .. Len(a) : k \in DOMAIN b /\ b[k] = a[k]
         /\ \A k \in DOMAIN a : k \in DOMAIN b /\ b[k] = a[k]
<1>1. /\ DOMAIN a = 1 .. Len(a) /\ DOMAIN b = 1 .. Len(b)
      /\ Len(a) \in Nat /\ Len(b) \in Nat
  OBVIOUS
<1>2. Len(a) <= Len(b) /\ \A k \in 1 .. Len(a) : b[k] = a[k]
  BY DEF Extends
<1>3. \A k \in 1 .. Len(a) : k \in DOMAIN b /\ b[k] = a[k]
  BY <1>1, <1>2
<1>4. ASSUME NEW k \in DOMAIN a
      PROVE  k \in DOMAIN b /\ b[k] = a[k]
  <2>1. k \in 1 .. Len(a)
    BY <1>1
  <2> QED
    BY <1>3, <2>1
<1> QED
  BY <1>3, <1>4

LEMMA PeerSaidSoStays ==
  ASSUME Base, Base', NEW s \in Sessions, PeerSaidSo(s),
         clients' \subseteq clients, Extends(accepted'[s], accepted[s]),
         Extends(delivered'[s], delivered[s])
  PROVE  PeerSaidSo(s)'
<1>1. /\ accepted[s] \in Seq(Nat) /\ delivered[s] \in Seq(Nat)
      /\ accepted'[s] \in Seq(Nat) /\ delivered'[s] \in Seq(Nat)
  BY DEF Base, TypeOK
<1>2. PICK k \in DOMAIN accepted[s] :
        /\ PacketTypeOf(s, accepted[s][k]) = "disconnect"
        /\ Owner[s] \in clients => DataBefore(s, k)
  BY DEF PeerSaidSo
<1>3. k \in 1 .. Len(accepted[s]) /\ Len(accepted[s]) \in Nat
  BY <1>1
<1>4. \A j \in 1 .. Len(accepted[s]) :
        j \in DOMAIN accepted'[s] /\ accepted'[s][j] = accepted[s][j]
  BY <1>1, ExtendsIsPrefix
<1>5. \A d \in DOMAIN delivered[s] :
        d \in DOMAIN delivered'[s] /\ delivered'[s][d] = delivered[s][d]
  BY <1>1, ExtendsIsPrefix
<1>6. ASSUME Owner[s] \in clients',
             NEW j \in 1 .. k - 1, IsData(s, accepted'[s][j])
      PROVE  \E d \in DOMAIN delivered'[s] : delivered'[s][d] = accepted'[s][j]
  <2>1. j \in 1 .. Len(accepted[s])
    BY <1>3
  <2>2. accepted'[s][j] = accepted[s][j]
    BY <1>4, <2>1
  <2>3. PICK d \in DOMAIN delivered[s] : delivered[s][d] = accepted[s][j]
    BY <1>2, <1>6, <2>2 DEF DataBefore
  <2> QED
    BY <1>5, <2>2, <2>3
<1>7. k \in DOMAIN accepted'[s] /\ accepted'[s][k] = accepted[s][k]
  BY <1>3, <1>4
<1>8. PacketTypeOf(s, accepted'[s][k]) = "disconnect"
  BY <1>2, <1>7
<1>9. Owner[s] \in clients' => DataBefore(s, k)'
  BY <1>6 DEF DataBefore, IsData, PacketTypeOf
<1> QED
  BY <1>7, <1>8, <1>9 DEF PeerSaidSo, PacketTypeOf

LEMMA JustifiedStays ==
  ASSUME \A s \in Sessions : Registered(s) => connection'[s] = connection[s],
         \A s \in Sessions : PeerSaidSo(s) => PeerSaidSo(s)',
         NEW p, NEW task, Justified(p, task)
  PROVE  Justified(p, task)'
<1>1. task.kind = "disconnect" =>
        \E s \in Sessions :
          Registered(s)' /\ connection'[s] = task.connection /\ PeerSaidSo(s)'
  BY DEF Justified, Registered, InvalidConnectionId
<1> QED
  BY <1>1 DEF Justified, DisconnectAffinity, InvalidConnectionId, Registered

LEMMA QueueKeeps ==
  ASSUME \A s \in Sessions : Registered(s) => connection'[s] = connection[s],
         \A s \in Sessions : PeerSaidSo(s) => PeerSaidSo(s)',
         QueueInv,
         \A q \in LogicProcessors : \A k \in DOMAIN queue'[q] :
           \/ \E l \in DOMAIN queue[q] : queue'[q][k] = queue[q][l]
           \/ Justified(q, queue[q][k])'
  PROVE  QueueInv'
<1> SUFFICES ASSUME NEW q \in LogicProcessors, NEW k \in DOMAIN queue'[q]
             PROVE  Justified(q, queue[q][k])'
  BY DEF QueueInv, LogicProcessors
<1>1. CASE \E l \in DOMAIN queue[q] : queue'[q][k] = queue[q][l]
  <2>1. PICK l \in DOMAIN queue[q] : queue'[q][k] = queue[q][l]
    BY <1>1
  <2>2. PICK task : task = queue[q][l]
    OBVIOUS
  <2>3. Justified(q, task)
    BY <2>2 DEF QueueInv
  <2>4. Justified(q, task)'
    BY <2>3, JustifiedStays
  <2>5. queue'[q][k] = task
    BY <2>1, <2>2
  <2> QED
    BY <2>4, <2>5 DEF Justified
<1> QED
  BY <1>1

(* Rank and the data due are functions of what was accepted and of whether *)
(* a packet is in hand.                                                    *)
LEMMA OrderStays ==
  ASSUME NEW s \in Sessions, InOrder(s), InHand(s)' = InHand(s),
         accepted'[s] = accepted[s], delivered'[s] = delivered[s],
         clients' \subseteq clients
  PROVE  InOrder(s)'
<1>1. DataDue(s)' = DataDue(s)
  BY DEF DataDue, IsData, PacketTypeOf
<1>2. \A k : Rank(s, k)' = Rank(s, k)
  BY <1>1 DEF Rank
<1> QED
  BY <1>1, <1>2 DEF InOrder

(* A step that neither receives nor accepts nor delivers: it keeps the     *)
(* invariant if each thread it moves ends with what its place asks for.    *)
LEMMA QuietKeeps ==
  ASSUME Base, Base', FlowInv,
         UNCHANGED <<connection, lastReceived, accepted, delivered>>,
         clients' \subseteq clients,
         \A q \in LogicProcessors :
           \/ worker'[q] = worker[q]
           \/ /\ WorkOk(q)' /\ TimeOk(q)'
              /\ \A s \in Sessions : (q \in InHand(s))' <=> q \in InHand(s),
         \A q \in LogicProcessors : \A k \in DOMAIN queue'[q] :
           \/ \E l \in DOMAIN queue[q] : queue'[q][k] = queue[q][l]
           \/ Justified(q, queue[q][k])'
  PROVE  FlowInv'
<1>1. /\ \A s \in Sessions : Registered(s) => connection'[s] = connection[s]
      /\ \A s \in Sessions : PeerSaidSo(s) => PeerSaidSo(s)'
  BY DEF PeerSaidSo, DataBefore, PacketTypeOf, IsData
<1>2. QueueInv'
  BY <1>1, QueueKeeps DEF FlowInv
<1>3. ASSUME NEW q \in LogicProcessors, worker'[q] = worker[q]
      PROVE  WorkOk(q)' /\ TimeOk(q)'
  <2>1. PICK task : task = worker[q].task
    OBVIOUS
  <2>2. Justified(q, task)
    BY <2>1 DEF FlowInv, WorkInv, WorkOk
  <2>3. Justified(q, task)'
    BY <1>1, <2>2, JustifiedStays
  <2>4. worker'[q].task = task
    BY <1>3, <2>1
  <2>5. Justified(q, worker[q].task)'
    BY <2>3, <2>4 DEF Justified
  <2>6. WorkOk(q)'
    BY <1>3, <2>5 DEF FlowInv, WorkInv, WorkOk, Handling
  <2>7. TimeOk(q)'
    BY <1>3 DEF FlowInv, TimeoutInv, TimeOk, CoLocated, DisconnectAffinity,
                HasTimedOut
  <2> QED
    BY <2>6, <2>7
<1>4. WorkInv' /\ TimeoutInv'
  BY <1>3 DEF WorkInv, TimeoutInv, LogicProcessors
<1>5. ASSUME NEW s \in Sessions
      PROVE  InHand(s)' = InHand(s)
  <2>1. ASSUME NEW q \in LogicProcessors, worker'[q] = worker[q]
        PROVE  (q \in InHand(s))' <=> q \in InHand(s)
    BY <2>1 DEF InHand, IsData, PacketTypeOf, LogicProcessors
  <2>2. \A q \in LogicProcessors : (q \in InHand(s))' <=> q \in InHand(s)
    BY <2>1
  <2>3. /\ InHand(s) \subseteq LogicProcessors
        /\ InHand(s)' \subseteq LogicProcessors
    BY DEF InHand, LogicProcessors
  <2> QED
    BY <2>2, <2>3
<1>6. \A s \in Sessions : InOrder(s)'
  BY <1>5, OrderStays, OrderOfEach DEF FlowInv
<1> QED
  BY <1>2, <1>4, <1>6, OrderOfEach DEF FlowInv

(* An idle thread has made sure of nothing.                                *)
LEMMA IdleIsOk ==
  ASSUME NEW p \in LogicProcessors, worker[p] = Idle
  PROVE  WorkOk(p) /\ TimeOk(p) /\ \A s \in Sessions : p \notin InHand(s)
  BY IdleShape DEF WorkOk, TimeOk, Justified, Handling, InHand

LEMMA IdleIsOkNext ==
  ASSUME NEW p \in LogicProcessors, worker'[p] = Idle
  PROVE  /\ WorkOk(p)' /\ TimeOk(p)'
         /\ \A s \in Sessions : (p \in InHand(s))' <=> FALSE
  BY IdleShape DEF WorkOk, TimeOk, Justified, Handling, InHand

LEMMA InitFlow == Init => FlowInv
<1> SUFFICES ASSUME Init PROVE FlowInv
  OBVIOUS
<1>1. Base
  BY InitBase
<1>2. \A p \in LogicProcessors : worker[p] = Idle
  BY DEF Init
<1>3. WorkInv /\ TimeoutInv
  BY <1>2, IdleIsOk DEF WorkInv, TimeoutInv
<1>4. QueueInv
  BY DEF Init, QueueInv
<1>5. ASSUME NEW s \in Sessions
      PROVE  InOrder(s)
  <2>1. InHand(s) = {}
    BY <1>2, <1>5, IdleIsOk DEF InHand
  <2>2. accepted[s] = <<>> /\ delivered[s] = <<>>
    BY DEF Init
  <2>3. DataDue(s) = {}
    BY <2>2 DEF DataDue
  <2> QED
    BY <2>1, <2>2, <2>3, FS_EmptySet DEF InOrder
<1>6. DispatchFollowsAcceptance
  BY <1>5, OrderOfEach
<1> QED
  BY <1>3, <1>4, <1>6 DEF FlowInv

LEMMA RegisterKeepsFlow ==
  ASSUME IdInv, IdInv', FlowInv, NEW s \in Sessions, Register(s)
  PROVE  FlowInv'
<1>1. PICK i : i = Head(freeIndices)
  OBVIOUS
<1>2. /\ connection' = [connection EXCEPT ![s] =
                          MakeConnectionId(i, slots[i].generation)]
      /\ ~Registered(s)
  BY <1>1, RegisterTyped DEF IdInv
<1>3. /\ UNCHANGED <<queue, worker, clients, accepted, delivered>>
      /\ lastReceived' = [lastReceived EXCEPT ![s] = now]
  BY DEF Register, clientVars, history
<1>4. /\ \A t \in Sessions : Registered(t) =>
           connection'[t] = connection[t] /\ lastReceived'[t] = lastReceived[t]
      /\ \A t \in Sessions : PeerSaidSo(t) => PeerSaidSo(t)'
  BY <1>2, <1>3 DEF IdInv, Base, TypeOK, PeerSaidSo, DataBefore,
                     PacketTypeOf, IsData
<1>5. QueueInv'
  BY <1>3, <1>4, QueueKeeps DEF FlowInv
<1>6. ASSUME NEW q \in LogicProcessors
      PROVE  WorkOk(q)' /\ TimeOk(q)'
  <2>1. PICK task : task = worker[q].task
    OBVIOUS
  <2>2. Justified(q, task)
    BY <2>1 DEF FlowInv, WorkInv, WorkOk
  <2>3. Justified(q, task)'
    BY <1>4, <2>2, JustifiedStays
  <2>4. Justified(q, worker[q].task)'
    BY <1>3, <2>1, <2>3 DEF Justified
  <2>5. WorkOk(q)'
    BY <1>3, <2>4 DEF FlowInv, WorkInv, WorkOk, Handling
  <2>6. ASSUME NEW t \in Sessions, worker[q].session = t
        PROVE  connection'[t] = connection[t] /\ lastReceived'[t] = lastReceived[t]
    BY <1>4, <2>6 DEF IdInv, HoldInv
  <2>7. TimeOk(q)'
    BY <1>3, <2>6 DEF FlowInv, TimeoutInv, TimeOk, CoLocated,
                      DisconnectAffinity, HasTimedOut
  <2> QED
    BY <2>5, <2>7
<1>7. WorkInv' /\ TimeoutInv'
  BY <1>6 DEF WorkInv, TimeoutInv, LogicProcessors
<1>8. \A t \in Sessions : InHand(t)' = InHand(t)
  BY <1>3 DEF InHand, IsData, PacketTypeOf, LogicProcessors
<1>9. \A t \in Sessions : InOrder(t)'
  BY <1>3, <1>8, OrderStays, OrderOfEach DEF FlowInv
<1> QED
  BY <1>5, <1>7, <1>9, OrderOfEach DEF FlowInv

LEMMA TakeKeepsFlow ==
  ASSUME IdInv, IdInv', FlowInv, NEW p \in LogicProcessors, Take(p)
  PROVE  FlowInv'
<1>1. PICK task : task = queue[p][1]
  OBVIOUS
<1>2. PICK s : s = Find(task.connection)
  OBVIOUS
<1>3. Base /\ Base'
  BY DEF IdInv
<1>4. /\ 1 \in DOMAIN queue[p]
      /\ \A q \in LogicProcessors : \A k \in DOMAIN queue'[q] :
           \E l \in DOMAIN queue[q] : queue'[q][k] = queue[q][l]
      /\ \A q \in LogicProcessors : q # p => worker'[q] = worker[q]
      /\ worker[p] = Idle
      /\ Taken(task, s, worker'[p])
  BY <1>1, <1>2, <1>3, TakeSteps
<1>5. UNCHANGED <<connection, lastReceived, clients, accepted, delivered>>
  BY DEF Take, sessionVars, clientVars, history
<1>6. Justified(p, task)
  BY <1>1, <1>4 DEF FlowInv, QueueInv
<1>7. Justified(p, task)'
  <2>1. \A t \in Sessions : PeerSaidSo(t) => PeerSaidSo(t)'
    BY <1>5 DEF PeerSaidSo, DataBefore, PacketTypeOf, IsData
  <2> QED
    BY <1>5, <1>6, <2>1, JustifiedStays
<1>8. \A t \in Sessions : p \notin InHand(t)
  BY <1>4, IdleIsOk
<1>9. /\ WorkOk(p)' /\ TimeOk(p)'
      /\ \A t \in Sessions : (p \in InHand(t))' <=> FALSE
  <2>1. CASE worker'[p] = Idle
    BY <2>1, IdleIsOkNext
  <2>2. CASE /\ worker'[p].task = task
             /\ \/ worker'[p].pc = "accept" /\ PeerOf[worker'[p].session] = task.sender
                \/ worker'[p].pc = "validate"
                \/ worker'[p].pc = "release" /\ worker'[p].session = NoSession
    <3>1. Justified(p, worker[p].task)'
      BY <1>7, <2>2 DEF Justified
    <3>2. WorkOk(p)'
      BY <2>2, <3>1 DEF WorkOk, Handling
    <3>3. TimeOk(p)'
      BY <2>2 DEF TimeOk
    <3>4. \A t \in Sessions : (p \in InHand(t))' <=> FALSE
      BY <2>2 DEF InHand
    <3> QED
      BY <3>2, <3>3, <3>4
  <2>3. \/ worker'[p] = Idle
        \/ /\ worker'[p].task = task
           /\ \/ worker'[p].pc = "accept" /\ PeerOf[worker'[p].session] = task.sender
              \/ worker'[p].pc = "validate"
              \/ worker'[p].pc = "release" /\ worker'[p].session = NoSession
    BY <1>4 DEF Taken
  <2> QED
    BY <2>1, <2>2, <2>3
<1>10. \A q \in LogicProcessors :
         \/ worker'[q] = worker[q]
         \/ /\ WorkOk(q)' /\ TimeOk(q)'
            /\ \A t \in Sessions : (q \in InHand(t))' <=> q \in InHand(t)
  BY <1>4, <1>8, <1>9
<1> QED
  BY <1>3, <1>4, <1>5, <1>10, QuietKeeps

LEMMA MarkKeepsFlow ==
  ASSUME IdInv, IdInv', FlowInv, NEW p \in LogicProcessors, MarkReceivedNow(p)
  PROVE  FlowInv'
<1>1. PICK s : s = worker[p].session
  OBVIOUS
<1>2. Base /\ Base'
  BY DEF IdInv
<1>3. /\ worker[p].pc = "mark" /\ s \in Sessions
      /\ worker[p].task \in PacketTasks
      /\ lastReceived' = [lastReceived EXCEPT ![s] = now]
      /\ worker'[p] = [pc |-> "dispatch", task |-> worker[p].task,
                       session |-> s]
      /\ \A q \in LogicProcessors : q # p => worker'[q] = worker[q]
  BY <1>1, <1>2, MarkSteps
<1>4. UNCHANGED <<connection, queue, clients, accepted, delivered>>
  BY DEF MarkReceivedNow, clientVars, history
<1>5. \A t \in Sessions : PeerSaidSo(t) => PeerSaidSo(t)'
  BY <1>4 DEF PeerSaidSo, DataBefore, PacketTypeOf, IsData
<1>6. QueueInv'
  BY <1>4, <1>5, QueueKeeps DEF FlowInv
<1>a. ASSUME NEW q \in LogicProcessors
      PROVE  /\ worker'[q].task = worker[q].task
             /\ worker'[q].session = worker[q].session
             /\ \/ worker'[q].pc = worker[q].pc
                \/ worker'[q].pc = "dispatch" /\ worker[q].pc = "mark"
  <2>1. CASE q = p
    BY <1>1, <1>3, <2>1
  <2>2. CASE q # p
    BY <1>3, <2>2
  <2> QED
    BY <2>1, <2>2
<1>7. ASSUME NEW q \in LogicProcessors
      PROVE  WorkOk(q)'
  <2>1. /\ worker'[q].task = worker[q].task
        /\ worker'[q].session = worker[q].session
        /\ \/ worker'[q].pc = worker[q].pc
           \/ worker'[q].pc = "dispatch" /\ worker[q].pc = "mark"
    BY <1>a
  <2>2. Justified(q, worker[q].task)
    BY DEF FlowInv, WorkInv, WorkOk
  <2>3. PICK task : task = worker[q].task
    OBVIOUS
  <2>4. Justified(q, task)'
    BY <1>4, <1>5, <2>2, <2>3, JustifiedStays
  <2>5. Justified(q, worker[q].task)'
    BY <2>1, <2>3, <2>4 DEF Justified
  <2> QED
    BY <1>4, <2>1, <2>5 DEF FlowInv, WorkInv, WorkOk, Handling
<1>8. ASSUME NEW q \in LogicProcessors
      PROVE  TimeOk(q)'
  <2>1. CASE q = p
    BY <1>3, <2>1 DEF TimeOk
  <2>2. CASE q # p
    <3> SUFFICES ASSUME NEW t \in Sessions,
                        worker[q].pc = "release",
                        worker[q].task.kind = "timeout",
                        worker[q].session = t, CoLocated(t)
                 PROVE  HasTimedOut(t, worker[q].task.requested)'
      BY <1>3, <1>4, <2>2 DEF TimeOk, CoLocated, DisconnectAffinity
    <3>1. HasTimedOut(t, worker[q].task.requested)
      BY DEF FlowInv, TimeoutInv, TimeOk
    <3>2. t # s
      <4>1. connection[t] = worker[q].task.connection
        BY DEF IdInv, HoldInv
      <4>2. DisconnectAffinity(connection[t]) = q
        BY <4>1 DEF FlowInv, WorkInv, WorkOk, Justified
      <4>3. PacketAffinity[PeerOf[s]] = p
        <5>1. worker[p].task.kind = "packet"
          BY <1>3 DEF PacketTasks
        <5>2. PeerOf[s] = worker[p].task.sender
          BY <1>1, <1>3 DEF FlowInv, WorkInv, WorkOk, Handling
        <5> QED
          BY <5>1, <5>2 DEF FlowInv, WorkInv, WorkOk, Justified
      <4> QED
        BY <2>2, <4>2, <4>3 DEF CoLocated
    <3>3. lastReceived'[t] = lastReceived[t]
      BY <1>2, <1>3, <3>2 DEF Base, TypeOK
    <3> QED
      BY <1>3, <2>2, <3>1, <3>3 DEF HasTimedOut
  <2> QED
    BY <2>1, <2>2
<1>9. WorkInv' /\ TimeoutInv'
  BY <1>7, <1>8 DEF WorkInv, TimeoutInv, LogicProcessors
<1>10. ASSUME NEW t \in Sessions
       PROVE  InHand(t)' = InHand(t)
  <2>1. \A q \in LogicProcessors :
          /\ worker'[q].task = worker[q].task
          /\ worker'[q].session = worker[q].session
          /\ worker'[q].pc \in {"mark", "dispatch"}
               <=> worker[q].pc \in {"mark", "dispatch"}
    BY <1>a
  <2> QED
    BY <2>1 DEF InHand, IsData, PacketTypeOf, LogicProcessors
<1>11. \A t \in Sessions : InOrder(t)'
  BY <1>4, <1>10, OrderStays, OrderOfEach DEF FlowInv
<1> QED
  BY <1>6, <1>9, <1>11, OrderOfEach DEF FlowInv

(* The packet accepted is the only one of its session in a hand, and not   *)
(* yet due.                                                                *)
LEMMA AcceptKeepsOrder ==
  ASSUME Base, Base', FlowInv, NEW p \in LogicProcessors, NEW s \in Sessions,
         NEW n \in Nat, worker[p].pc = "accept", worker[p].session = s,
         worker[p].task.sequence = n,
         accepted' = [accepted EXCEPT ![s] = Append(accepted[s], n)],
         delivered' = delivered, clients' = clients,
         worker'[p] = [pc |-> "mark", task |-> worker[p].task, session |-> s],
         \A q \in LogicProcessors : q # p => worker'[q] = worker[q]
  PROVE  \A t \in Sessions : InOrder(t)'
<1>1. ASSUME NEW t \in Sessions, t # s
      PROVE  InOrder(t)'
  <2>1. accepted'[t] = accepted[t]
    BY <1>1 DEF Base, TypeOK
  <2>2. InHand(t)' = InHand(t)
    <3>1. ASSUME NEW q \in LogicProcessors
          PROVE  (q \in InHand(t))' <=> q \in InHand(t)
      <4>1. CASE q = p
        <5>1. worker'[q].session # t /\ worker[q].session # t
          BY <1>1, <4>1
        <5> QED
          BY <5>1 DEF InHand
      <4>2. CASE q # p
        BY <4>2 DEF InHand, IsData, PacketTypeOf, LogicProcessors
      <4> QED
        BY <4>1, <4>2
    <3> QED
      BY <3>1 DEF InHand, LogicProcessors
  <2> QED
    BY <2>1, <2>2, OrderStays, OrderOfEach DEF FlowInv
<1>2. InOrder(s)'
  <2>1. InHand(s) = {}
    <3> SUFFICES ASSUME NEW q \in InHand(s) PROVE FALSE
      OBVIOUS
    <3>1. q \in LogicProcessors /\ worker[q].session = s
          /\ worker[q].pc \in {"mark", "dispatch"}
      BY DEF InHand
    <3>2. q = p
      BY <3>1, OneThread DEF FlowInv, Handling
    <3> QED
      BY <3>1, <3>2
  <2>2. InHand(s)' = IF IsData(s, n) THEN {p} ELSE {}
    <3>1. ASSUME NEW q \in LogicProcessors
          PROVE  (q \in InHand(s))' <=> q = p /\ IsData(s, n)
      <4>1. CASE q = p
        BY <4>1 DEF InHand, IsData, PacketTypeOf, LogicProcessors
      <4>2. CASE q # p
        <5>1. (q \in InHand(s))' <=> q \in InHand(s)
          BY <4>2 DEF InHand, IsData, PacketTypeOf, LogicProcessors
        <5> QED
          BY <2>1, <4>2, <5>1
      <4> QED
        BY <4>1, <4>2
    <3>2. InHand(s)' \subseteq LogicProcessors
      BY DEF InHand, LogicProcessors
    <3> QED
      BY <3>1, <3>2
  <2>3. Cardinality(InHand(s)') <= 1
    <3>1. Cardinality({p}) = 1 /\ Cardinality({}) = 0
      BY FS_EmptySet, FS_Singleton
    <3>2. PICK hand : hand = InHand(s)' /\ (hand = {p} \/ hand = {})
      BY <2>2
    <3>3. Cardinality(hand) = 1 \/ Cardinality(hand) = 0
      BY <3>1, <3>2
    <3>4. Cardinality(hand) <= 1
      BY <3>3
    <3> QED
      BY <3>2, <3>4
  <2>4. PICK len \in Nat : len = Len(accepted[s])
    BY DataDueFinite
  <2>5. /\ accepted[s] \in Seq(Nat) /\ accepted'[s] = Append(accepted[s], n)
        /\ DOMAIN accepted[s] = 1 .. len
        /\ DOMAIN accepted'[s] = 1 .. len + 1
        /\ Len(accepted'[s]) = len + 1
        /\ accepted'[s][len + 1] = n
        /\ \A k \in 1 .. len : accepted'[s][k] = accepted[s][k]
    BY <2>4 DEF Base, TypeOK
  <2>6. DataDue(s)' = DataDue(s)
    <3>1. ASSUME NEW k \in 1 .. len
          PROVE  (k \in DataDue(s))' <=> k \in DataDue(s)
      <4>1. k # len + 1
        OBVIOUS
      <4>2. k \in DOMAIN accepted[s] /\ k \in DOMAIN accepted'[s]
        BY <2>5
      <4>3. (k \in DataDue(s))' <=> IsData(s, accepted[s][k])
        BY <2>5, <4>1, <4>2 DEF DataDue, IsData, PacketTypeOf
      <4>4. k \in DataDue(s) <=> IsData(s, accepted[s][k])
        BY <2>1, <4>2 DEF DataDue
      <4> QED
        BY <4>3, <4>4
    <3>2. len + 1 \notin DataDue(s)'
      <4>1. ASSUME IsData(s, n) PROVE InHand(s)' # {}
        BY <2>2, <4>1
      <4> QED
        BY <2>5, <4>1 DEF DataDue, IsData, PacketTypeOf
    <3>3. DataDue(s) \subseteq 1 .. len /\ DataDue(s)' \subseteq 1 .. len + 1
      BY <2>5 DEF DataDue
    <3>4. \A k \in 1 .. len + 1 : k \in 1 .. len \/ k = len + 1
      OBVIOUS
    <3> QED
      BY <3>1, <3>2, <3>3, <3>4
  <2>7. \A k : Rank(s, k)' = Rank(s, k)
    BY <2>6 DEF Rank
  <2>8. InOrder(s) /\ DataDue(s) \subseteq 1 .. len
    BY <2>4, OrderOfEach, DataDueFinite DEF FlowInv
  <2>9. \A k \in DataDue(s)' :
          Rank(s, k)' <= Len(delivered'[s]) =>
            delivered'[s][Rank(s, k)'] = accepted'[s][k]
    BY <2>5, <2>6, <2>7, <2>8 DEF InOrder
  <2> QED
    BY <2>3, <2>6, <2>8, <2>9 DEF InOrder
<1> QED
  BY <1>1, <1>2

LEMMA AcceptKeepsFlow ==
  ASSUME IdInv, IdInv', FlowInv, NEW p \in LogicProcessors, AcceptSequence(p)
  PROVE  FlowInv'
<1>1. PICK s : s = worker[p].session
  OBVIOUS
<1>2. PICK n : n = worker[p].task.sequence
  OBVIOUS
<1>3. Base /\ Base'
  BY DEF IdInv
<1>4. /\ worker[p].pc = "accept"
      /\ worker[p].task \in PacketTasks /\ s \in Sessions /\ n \in Nat
      /\ \A q \in LogicProcessors : q # p => worker'[q] = worker[q]
      /\ \/ /\ accepted' = [accepted EXCEPT ![s] = Append(accepted[s], n)]
            /\ worker'[p] = [pc |-> "mark", task |-> worker[p].task,
                             session |-> s]
         \/ /\ accepted' = accepted
            /\ worker'[p] = Idle
  BY <1>1, <1>2, <1>3, AcceptSteps
<1>5. UNCHANGED <<connection, lastReceived, queue, clients, delivered>>
  BY DEF AcceptSequence, clientVars
<1>6. \A t \in Sessions : p \notin InHand(t)
  BY <1>4 DEF InHand
<1>7. CASE accepted' = accepted /\ worker'[p] = Idle
  <2>1. \A q \in LogicProcessors :
          \/ worker'[q] = worker[q]
          \/ /\ WorkOk(q)' /\ TimeOk(q)'
             /\ \A t \in Sessions : (q \in InHand(t))' <=> q \in InHand(t)
    BY <1>4, <1>6, <1>7, IdleIsOkNext
  <2> QED
    BY <1>3, <1>5, <1>7, <2>1, QuietKeeps
<1>8. CASE /\ accepted' = [accepted EXCEPT ![s] = Append(accepted[s], n)]
           /\ worker'[p] = [pc |-> "mark", task |-> worker[p].task,
                            session |-> s]
  <2>1. /\ \A t \in Sessions : accepted[t] \in Seq(Nat) /\ delivered[t] \in Seq(Nat)
        /\ accepted'[s] = Append(accepted[s], n)
        /\ \A t \in Sessions : t # s => accepted'[t] = accepted[t]
    BY <1>3, <1>4, <1>8 DEF Base, TypeOK
  <2>2. \A t \in Sessions : PeerSaidSo(t) => PeerSaidSo(t)'
    <3> SUFFICES ASSUME NEW t \in Sessions, PeerSaidSo(t) PROVE PeerSaidSo(t)'
      OBVIOUS
    <3>1. Extends(accepted'[t], accepted[t])
      <4>1. PICK a \in Seq(Nat) : a = accepted[t]
        BY <2>1
      <4>2. Extends(Append(a, n), a) /\ Extends(a, a)
        BY <1>4, AppendExtends
      <4>3. accepted'[t] = Append(a, n) \/ accepted'[t] = a
        BY <2>1, <4>1
      <4> QED
        BY <4>1, <4>2, <4>3
    <3>2. Extends(delivered'[t], delivered[t])
      BY <1>5, <2>1, AppendExtends
    <3> QED
      BY <1>3, <1>5, <3>1, <3>2, PeerSaidSoStays
  <2>3. QueueInv'
    BY <1>5, <2>2, QueueKeeps DEF FlowInv
  <2>4. ASSUME NEW q \in LogicProcessors
        PROVE  WorkOk(q)' /\ TimeOk(q)'
    <3>1. Justified(q, worker[q].task)
      BY DEF FlowInv, WorkInv, WorkOk
    <3>2. PICK task : task = worker[q].task
      OBVIOUS
    <3>3. Justified(q, task)'
      BY <1>5, <2>2, <3>1, <3>2, JustifiedStays
    <3>4. worker'[q].task = worker[q].task
      <4>1. CASE q = p
        BY <1>8, <4>1
      <4>2. CASE q # p
        BY <1>4, <4>2
      <4> QED
        BY <4>1, <4>2
    <3>5. Justified(q, worker[q].task)'
      BY <3>2, <3>3, <3>4 DEF Justified
    <3>6. CASE q = p
      <4>1. PeerOf[s] = worker[p].task.sender
        BY <1>1, <1>4 DEF FlowInv, WorkInv, WorkOk, Handling
      <4>2. accepted'[s] # <<>> /\ accepted'[s][Len(accepted'[s])] = n
        <5>1. PICK a \in Seq(Nat) : a = accepted[s]
          BY <1>4, <2>1
        <5>2. /\ Len(Append(a, n)) = Len(a) + 1
              /\ Append(a, n)[Len(a) + 1] = n /\ Append(a, n) # <<>>
          BY <1>4, AppendExtends
        <5>3. accepted'[s] = Append(a, n)
          BY <2>1, <5>1
        <5> QED
          BY <5>2, <5>3
      <4>3. WorkOk(q)'
        BY <1>2, <1>8, <3>5, <3>6, <4>1, <4>2 DEF WorkOk
      <4>4. TimeOk(q)'
        BY <1>8, <3>6 DEF TimeOk
      <4> QED
        BY <4>3, <4>4
    <3>7. CASE q # p
      <4>1. worker'[q] = worker[q]
        BY <1>4, <3>7
      <4>2. WorkOk(q)
        BY DEF FlowInv, WorkInv
      <4>3. ASSUME worker[q].pc \in {"mark", "dispatch"}
            PROVE  accepted'[worker[q].session] = accepted[worker[q].session]
        <5>1. worker[q].session # worker[p].session
          BY <1>3, <1>4, <3>7, <4>3, OneThread DEF FlowInv, Handling
        <5>2. worker[q].session \in Sessions
          BY <1>3, <4>3, WorkShapes DEF Base
        <5> QED
          BY <1>1, <2>1, <5>1, <5>2
      <4>4. WorkOk(q)'
        BY <3>5, <4>1, <4>2, <4>3 DEF WorkOk, Handling
      <4>5. TimeOk(q)'
        BY <1>5, <4>1 DEF FlowInv, TimeoutInv, TimeOk, CoLocated,
                          DisconnectAffinity, HasTimedOut
      <4> QED
        BY <4>4, <4>5
    <3> QED
      BY <3>6, <3>7
  <2>5. WorkInv' /\ TimeoutInv'
    BY <2>4 DEF WorkInv, TimeoutInv, LogicProcessors
  <2>6. \A t \in Sessions : InOrder(t)'
    BY <1>1, <1>2, <1>3, <1>4, <1>5, <1>8, AcceptKeepsOrder
  <2> QED
    BY <2>3, <2>5, <2>6, OrderOfEach DEF FlowInv
<1> QED
  BY <1>4, <1>7, <1>8

(* The data a thread dispatches was the last of its session accepted and,  *)
(* if the client is still there, all the data before it is delivered: it   *)
(* is the next one due.  What a removed client does not get comes after    *)
(* all that it got.                                                        *)
LEMMA DeliverKeepsOrder ==
  ASSUME Base, Base', FlowInv, NEW p \in LogicProcessors, NEW s \in Sessions,
         NEW n \in Nat, worker[p].pc = "dispatch", worker[p].session = s,
         worker[p].task.sequence = n, IsData(s, n),
         accepted' = accepted, clients' = clients,
         \/ /\ Owner[s] \in clients
            /\ delivered' = [delivered EXCEPT ![s] = Append(delivered[s], n)]
         \/ Owner[s] \notin clients /\ delivered' = delivered,
         worker'[p] = Idle,
         \A q \in LogicProcessors : q # p => worker'[q] = worker[q]
  PROVE  \A t \in Sessions : InOrder(t)'
<1>1. ASSUME NEW t \in Sessions, t # s
      PROVE  InOrder(t)'
  <2>1. delivered'[t] = delivered[t]
    BY <1>1 DEF Base, TypeOK
  <2>2. InHand(t)' = InHand(t)
    <3>1. ASSUME NEW q \in LogicProcessors
          PROVE  (q \in InHand(t))' <=> q \in InHand(t)
      <4>1. CASE q = p
        <5>1. (q \in InHand(t))' <=> FALSE
          BY <4>1, IdleIsOkNext
        <5>2. worker[q].session # t
          BY <1>1, <4>1
        <5> QED
          BY <5>1, <5>2 DEF InHand
      <4>2. CASE q # p
        BY <4>2 DEF InHand, IsData, PacketTypeOf, LogicProcessors
      <4> QED
        BY <4>1, <4>2
    <3> QED
      BY <3>1 DEF InHand, LogicProcessors
  <2> QED
    BY <2>1, <2>2, OrderStays, OrderOfEach DEF FlowInv
<1>2. InOrder(s)'
  <2>1. p \in InHand(s)
    BY DEF InHand
  <2>2. InHand(s)' = {}
    <3>1. ASSUME NEW q \in LogicProcessors
          PROVE  ~(q \in InHand(s))'
      <4>1. CASE q = p
        <5>1. (q \in InHand(s))' <=> FALSE
          BY <4>1, IdleIsOkNext
        <5> QED
          BY <5>1
      <4>2. CASE q # p
        <5>1. (q \in InHand(s))' <=> q \in InHand(s)
          BY <4>2 DEF InHand, IsData, PacketTypeOf, LogicProcessors
        <5>2. q \in InHand(s) => q = p
          <6> SUFFICES ASSUME q \in InHand(s) PROVE q = p
            OBVIOUS
          <6>1. worker[q].session = s /\ worker[q].pc \in {"mark", "dispatch"}
            BY DEF InHand
          <6> QED
            BY <6>1, OneThread DEF FlowInv, Handling
        <5> QED
          BY <4>2, <5>1, <5>2
      <4> QED
        BY <4>1, <4>2
    <3>2. InHand(s)' \subseteq LogicProcessors
      BY DEF InHand, LogicProcessors
    <3> QED
      BY <3>1, <3>2
  <2>3. Cardinality(InHand(s)') <= 1
    <3>1. PICK hand : hand = InHand(s)' /\ hand = {}
      BY <2>2
    <3>2. Cardinality(hand) = 0
      BY <3>1, FS_EmptySet
    <3>3. Cardinality(hand) <= 1
      BY <3>2
    <3> QED
      BY <3>1, <3>3
  <2>4. PICK a \in Seq(Nat) : a = accepted[s] /\ accepted'[s] = a
    BY DEF Base, TypeOK
  <2>5. PICK len \in Nat : len = Len(a) /\ DOMAIN a = 1 .. len
    BY <2>4
  <2>6. a # <<>> /\ a[len] = n
    BY <2>4, <2>5 DEF FlowInv, WorkInv, WorkOk
  <2>7. len \in DOMAIN a
    <3>1. len # 0
      BY <2>5, <2>6
    <3> QED
      BY <2>5, <3>1
  <2>8. PICK due : due = DataDue(s)
    OBVIOUS
  <2>9. due = {k \in DOMAIN a : IsData(s, a[k]) /\ k # len}
    BY <2>1, <2>4, <2>5, <2>8 DEF DataDue
  <2>10. DataDue(s)' = {k \in DOMAIN a : IsData(s, a[k])}
    BY <2>2, <2>4 DEF DataDue, IsData, PacketTypeOf
  <2>11. DataDue(s)' = due \cup {len}
    BY <2>6, <2>7, <2>9, <2>10
  <2>12. /\ len \notin due /\ IsFiniteSet(due) /\ Cardinality(due) \in Nat
         /\ due \subseteq 1 .. len
    BY <2>5, <2>8, <2>9, DataDueFinite
  <2>13. /\ Cardinality(due \cup {len}) = Cardinality(due) + 1
    BY <2>12, FS_AddElement
  <2>14. PICK d \in Seq(Nat) : d = delivered[s]
    BY DEF Base, TypeOK
  <2>15. PICK many \in Nat : many = Cardinality(due)
    BY <2>12
  <2>16. /\ Len(d) \in Nat /\ Len(d) <= many
         /\ Owner[s] \in clients => Len(d) = many
         /\ \A k \in due :
              /\ Rank(s, k) \in 1 .. many
              /\ Rank(s, k) <= Len(d) => d[Rank(s, k)] = a[k]
    <3>1. InOrder(s)
      BY OrderOfEach DEF FlowInv
    <3>2. \A k \in DataDue(s) : Rank(s, k) \in 1 .. Cardinality(DataDue(s))
      BY RankTyped
    <3> QED
      BY <2>4, <2>8, <2>14, <2>15, <3>1, <3>2 DEF InOrder
  <2>17. Cardinality(DataDue(s)') = many + 1
    <3>1. PICK all : all = DataDue(s)' /\ all = due \cup {len}
      BY <2>11
    <3>2. Cardinality(all) = many + 1
      BY <2>13, <2>15, <3>1
    <3> QED
      BY <3>1, <3>2
  <2>18. ASSUME NEW k \in due
         PROVE  Rank(s, k)' = Rank(s, k)
    <3>1. Rank(s, k)' = Cardinality({j \in due \cup {len} : j <= k})
      BY <2>11 DEF Rank
    <3>2. k \in 1 .. len /\ k # len /\ ~(len <= k)
      BY <2>12
    <3>3. {j \in due \cup {len} : j <= k} = {j \in due : j <= k}
      BY <3>2
    <3> QED
      BY <2>8, <3>1, <3>3 DEF Rank
  <2>19. Rank(s, len)' = many + 1
    <3>1. Rank(s, len)' = Cardinality({j \in due \cup {len} : j <= len})
      BY <2>11 DEF Rank
    <3>2. \A j \in due \cup {len} : j <= len
      BY <2>12
    <3>3. {j \in due \cup {len} : j <= len} = due \cup {len}
      BY <3>2
    <3> QED
      BY <2>13, <2>15, <3>1, <3>3
  <2>20. PICK e \in Seq(Nat) : e = delivered'[s]
    BY DEF Base, TypeOK
  <2>21. CASE Owner[s] \in clients /\ e = Append(d, n)
    <3>1. /\ Len(e) = many + 1 /\ e[many + 1] = n
          /\ \A k \in 1 .. many : e[k] = d[k]
      BY <2>15, <2>16, <2>21
    <3>2. ASSUME NEW k \in DataDue(s)'
          PROVE  e[Rank(s, k)'] = a[k]
      <4>1. CASE k \in due
        <5>1. PICK r : r = Rank(s, k)
          OBVIOUS
        <5>2. r \in 1 .. many /\ (r <= Len(d) => d[r] = a[k])
          BY <2>16, <4>1, <5>1
        <5>3. e[r] = a[k]
          BY <2>16, <2>21, <3>1, <5>2
        <5> QED
          BY <2>18, <4>1, <5>1, <5>3
      <4>2. CASE k = len
        BY <2>6, <2>19, <3>1, <4>2
      <4> QED
        BY <2>11, <4>1, <4>2
    <3>3. \A k \in DataDue(s)' : e[Rank(s, k)'] = a[k]
      BY <3>2
    <3> QED
      BY <2>3, <2>4, <2>17, <2>20, <3>1, <3>3 DEF InOrder
  <2>22. CASE Owner[s] \notin clients /\ e = d
    <3>1. ASSUME NEW k \in DataDue(s)', Rank(s, k)' <= Len(e)
          PROVE  e[Rank(s, k)'] = a[k]
      <4>1. CASE k \in due
        <5>1. PICK r : r = Rank(s, k)
          OBVIOUS
        <5>2. r <= Len(d) => d[r] = a[k]
          BY <2>16, <4>1, <5>1
        <5>3. Rank(s, k)' = r
          BY <2>18, <4>1, <5>1
        <5> QED
          BY <2>22, <3>1, <5>2, <5>3
      <4>2. CASE k = len
        BY <2>16, <2>19, <2>22, <3>1, <4>2
      <4> QED
        BY <2>11, <4>1, <4>2
    <3>2. Len(e) <= many + 1
      BY <2>16, <2>22
    <3>3. \A k \in DataDue(s)' : Rank(s, k)' <= Len(e) => e[Rank(s, k)'] = a[k]
      BY <3>1
    <3>4. Owner[s] \notin clients'
      BY <2>22
    <3> QED
      BY <2>3, <2>4, <2>17, <2>20, <3>2, <3>3, <3>4 DEF InOrder
  <2>23. \/ Owner[s] \in clients /\ e = Append(d, n)
         \/ Owner[s] \notin clients /\ e = d
    BY <2>14, <2>20 DEF Base, TypeOK
  <2> QED
    BY <2>21, <2>22, <2>23
<1> QED
  BY <1>1, <1>2

(* A disconnect packet is dispatched when all data accepted before it is   *)
(* with the client, or the client is gone.                                 *)
LEMMA DispatchLeaves ==
  ASSUME Base, FlowInv, NEW p \in LogicProcessors, NEW s \in Sessions,
         NEW n \in Nat, worker[p].pc = "dispatch", worker[p].session = s,
         worker[p].task.sequence = n, PacketTypeOf(s, n) = "disconnect"
  PROVE  PeerSaidSo(s)
<1>1. PICK a \in Seq(Nat) : a = accepted[s]
  BY DEF Base, TypeOK
<1>2. PICK len \in Nat : len = Len(a) /\ DOMAIN a = 1 .. len
  BY <1>1
<1>3. a # <<>> /\ a[len] = n
  BY <1>1, <1>2 DEF FlowInv, WorkInv, WorkOk
<1>4. len \in DOMAIN a
  <2>1. len # 0
    BY <1>2, <1>3
  <2> QED
    BY <1>2, <2>1
<1>5. ASSUME Owner[s] \in clients, NEW j \in 1 .. len - 1, IsData(s, a[j])
      PROVE  \E d \in DOMAIN delivered[s] : delivered[s][d] = a[j]
  <2>1. j \in DOMAIN a /\ j # len
    BY <1>2
  <2>2. j \in DataDue(s)
    BY <1>1, <1>2, <1>5, <2>1 DEF DataDue
  <2>3. InOrder(s)
    BY OrderOfEach DEF FlowInv
  <2>4. Rank(s, j) \in DOMAIN delivered[s] /\ delivered[s][Rank(s, j)] = a[j]
    BY <1>1, <1>5, <2>2, <2>3, DueIsDelivered
  <2> QED
    BY <2>4
<1> QED
  BY <1>1, <1>3, <1>4, <1>5 DEF PeerSaidSo, DataBefore

LEMMA DispatchKeepsFlow ==
  ASSUME IdInv, IdInv', FlowInv, NEW p \in LogicProcessors, Dispatch(p)
  PROVE  FlowInv'
<1>1. PICK s : s = worker[p].session
  OBVIOUS
<1>2. PICK n : n = worker[p].task.sequence
  OBVIOUS
<1>3. PICK id : id = worker[p].task.connection
  OBVIOUS
<1>4. Base /\ Base'
  BY DEF IdInv
<1>5. /\ worker[p].pc = "dispatch" /\ s \in Sessions /\ n \in Nat
      /\ worker[p].task \in PacketTasks
      /\ worker'[p] = Idle
      /\ \A q \in LogicProcessors : q # p => worker'[q] = worker[q]
  BY <1>1, <1>2, <1>3, <1>4, DispatchSteps
<1>6. \/ ~IsData(s, n) /\ UNCHANGED <<queue, delivered>>
      \/ /\ PacketTypeOf(s, n) = "disconnect" /\ ~IsData(s, n)
         /\ delivered' = delivered
         /\ \A q \in LogicProcessors : \A k \in DOMAIN queue'[q] :
              \/ k \in DOMAIN queue[q] /\ queue'[q][k] = queue[q][k]
              \/ queue'[q][k] = DisconnectTask(id)
      \/ /\ IsData(s, n) /\ queue' = queue
         /\ \/ Owner[s] \notin clients /\ delivered' = delivered
            \/ /\ Owner[s] \in clients
               /\ delivered' = [delivered EXCEPT ![s] = Append(delivered[s], n)]
  BY <1>1, <1>2, <1>3, <1>4, DispatchSteps
<1>7. UNCHANGED <<connection, lastReceived, clients, accepted>>
  BY DEF Dispatch, sessionVars, clientVars
<1>8. /\ WorkOk(p)' /\ TimeOk(p)'
      /\ \A t \in Sessions : (p \in InHand(t))' <=> FALSE
  BY <1>5, IdleIsOkNext
<1>9. ASSUME ~IsData(s, n)
      PROVE  \A q \in LogicProcessors :
               \/ worker'[q] = worker[q]
               \/ /\ WorkOk(q)' /\ TimeOk(q)'
                  /\ \A t \in Sessions : (q \in InHand(t))' <=> q \in InHand(t)
  <2>1. \A t \in Sessions : p \notin InHand(t)
    BY <1>1, <1>2, <1>9 DEF InHand
  <2> QED
    BY <1>5, <1>8, <2>1
<1>10. CASE ~IsData(s, n) /\ UNCHANGED <<queue, delivered>>
  BY <1>4, <1>7, <1>9, <1>10, QuietKeeps
<1>11. CASE /\ PacketTypeOf(s, n) = "disconnect" /\ ~IsData(s, n)
            /\ delivered' = delivered
            /\ \A q \in LogicProcessors : \A k \in DOMAIN queue'[q] :
                 \/ k \in DOMAIN queue[q] /\ queue'[q][k] = queue[q][k]
                 \/ queue'[q][k] = DisconnectTask(id)
  <2>1. Registered(s) /\ connection[s] = id
    BY <1>1, <1>3, <1>5 DEF IdInv, HoldInv
  <2>2. PeerSaidSo(s)
    BY <1>1, <1>2, <1>4, <1>5, <1>11, DispatchLeaves
  <2>3. PICK task : task = DisconnectTask(id)
    OBVIOUS
  <2>4. task.kind = "disconnect" /\ task.connection = id
    BY <2>3 DEF DisconnectTask
  <2>5. ASSUME NEW q \in LogicProcessors
        PROVE  Justified(q, task)
    BY <1>5, <2>1, <2>2, <2>4 DEF Justified
  <2>6. ASSUME NEW q \in LogicProcessors
        PROVE  Justified(q, task)'
    <3>1. \A t \in Sessions : PeerSaidSo(t) => PeerSaidSo(t)'
      BY <1>7, <1>11 DEF PeerSaidSo, DataBefore, PacketTypeOf, IsData
    <3> QED
      BY <1>7, <2>5, <3>1, JustifiedStays
  <2>7. ASSUME NEW q \in LogicProcessors, NEW k \in DOMAIN queue'[q]
        PROVE  \/ \E l \in DOMAIN queue[q] : queue'[q][k] = queue[q][l]
               \/ Justified(q, queue[q][k])'
    <3>1. CASE k \in DOMAIN queue[q] /\ queue'[q][k] = queue[q][k]
      BY <3>1
    <3>2. CASE queue'[q][k] = DisconnectTask(id)
      <4>1. queue'[q][k] = task
        BY <2>3, <3>2
      <4> QED
        BY <2>6, <4>1 DEF Justified
    <3> QED
      BY <1>11, <3>1, <3>2
  <2> QED
    BY <1>4, <1>7, <1>9, <1>11, <2>7, QuietKeeps
<1>12. CASE /\ IsData(s, n) /\ queue' = queue
            /\ \/ Owner[s] \notin clients /\ delivered' = delivered
               \/ /\ Owner[s] \in clients
                  /\ delivered' = [delivered EXCEPT ![s] = Append(delivered[s], n)]
  <2>1. \A t \in Sessions : /\ delivered[t] \in Seq(Nat)
                            /\ accepted[t] \in Seq(Nat)
    BY <1>4 DEF Base, TypeOK
  <2>2. \A t \in Sessions : PeerSaidSo(t) => PeerSaidSo(t)'
    <3> SUFFICES ASSUME NEW t \in Sessions, PeerSaidSo(t) PROVE PeerSaidSo(t)'
      OBVIOUS
    <3>1. PICK d \in Seq(Nat) : d = delivered[t]
      BY <2>1
    <3>2. Extends(Append(d, n), d) /\ Extends(d, d)
      BY <1>5, AppendExtends
    <3>3. delivered'[t] = Append(d, n) \/ delivered'[t] = d
      BY <1>4, <1>12, <3>1 DEF Base, TypeOK
    <3>4. Extends(delivered'[t], delivered[t])
      BY <3>1, <3>2, <3>3
    <3>5. Extends(accepted'[t], accepted[t])
      BY <1>5, <1>7, <2>1, AppendExtends
    <3> QED
      BY <1>4, <1>7, <3>4, <3>5, PeerSaidSoStays
  <2>3. QueueInv'
    BY <1>7, <1>12, <2>2, QueueKeeps DEF FlowInv
  <2>4. ASSUME NEW q \in LogicProcessors, q # p
        PROVE  WorkOk(q)' /\ TimeOk(q)'
    <3>1. worker'[q] = worker[q]
      BY <1>5, <2>4
    <3>2. PICK task : task = worker[q].task
      OBVIOUS
    <3>3. Justified(q, task)
      BY <3>2 DEF FlowInv, WorkInv, WorkOk
    <3>4. Justified(q, task)'
      BY <1>7, <2>2, <3>3, JustifiedStays
    <3>5. Justified(q, worker[q].task)'
      BY <3>1, <3>2, <3>4 DEF Justified
    <3>6. WorkOk(q)'
      BY <1>7, <3>1, <3>5 DEF FlowInv, WorkInv, WorkOk, Handling
    <3>7. TimeOk(q)'
      BY <1>7, <3>1 DEF FlowInv, TimeoutInv, TimeOk, CoLocated,
                        DisconnectAffinity, HasTimedOut
    <3> QED
      BY <3>6, <3>7
  <2>5. WorkInv' /\ TimeoutInv'
    BY <1>8, <2>4 DEF WorkInv, TimeoutInv, LogicProcessors
  <2>6. \A t \in Sessions : InOrder(t)'
    BY <1>1, <1>2, <1>4, <1>5, <1>7, <1>12, DeliverKeepsOrder
  <2> QED
    BY <2>3, <2>5, <2>6, OrderOfEach DEF FlowInv
<1> QED
  BY <1>6, <1>10, <1>11, <1>12

LEMMA ThreadKeepsFlow ==
  ASSUME IdInv, IdInv', FlowInv, NEW p \in LogicProcessors, LogicStep(p)
  PROVE  FlowInv'
<1>1. Base /\ Base'
  BY DEF IdInv
<1>2. CASE Take(p)
  BY <1>2, TakeKeepsFlow
<1>3. CASE AcceptSequence(p)
  BY <1>3, AcceptKeepsFlow
<1>4. CASE MarkReceivedNow(p)
  BY <1>4, MarkKeepsFlow
<1>5. CASE Dispatch(p)
  BY <1>5, DispatchKeepsFlow
<1>6. ASSUME worker[p].pc \notin {"mark", "dispatch"}
      PROVE  \A t \in Sessions : p \notin InHand(t)
  BY <1>6 DEF InHand
<1>7. CASE ValidateTimeout(p)
  <2>1. PICK s : s = worker[p].session
    OBVIOUS
  <2>2. /\ worker[p].pc = "validate" /\ s \in Sessions
        /\ \A q \in LogicProcessors : q # p => worker'[q] = worker[q]
        /\ \/ worker'[p] = Idle
           \/ /\ HasTimedOut(s, worker[p].task.requested)
              /\ worker'[p] = [pc |-> "release", task |-> worker[p].task,
                               session |-> s]
    BY <1>1, <1>7, <2>1, ValidateSteps
  <2>3. UNCHANGED <<connection, lastReceived, queue, clients, accepted,
                    delivered>>
    BY <1>7 DEF ValidateTimeout, sessionVars, clientVars, history
  <2>4. /\ WorkOk(p)' /\ TimeOk(p)'
        /\ \A t \in Sessions : (p \in InHand(t))' <=> FALSE
    <3>1. CASE worker'[p] = Idle
      BY <3>1, IdleIsOkNext
    <3>2. CASE /\ HasTimedOut(s, worker[p].task.requested)
               /\ worker'[p] = [pc |-> "release", task |-> worker[p].task,
                                session |-> s]
      <4>1. PICK task : task = worker[p].task
        OBVIOUS
      <4>2. Justified(p, task)
        BY <4>1 DEF FlowInv, WorkInv, WorkOk
      <4>3. Justified(p, task)'
        <5>1. \A t \in Sessions : PeerSaidSo(t) => PeerSaidSo(t)'
          BY <2>3 DEF PeerSaidSo, DataBefore, PacketTypeOf, IsData
        <5> QED
          BY <2>3, <4>2, <5>1, JustifiedStays
      <4>4. Justified(p, worker[p].task)'
        BY <3>2, <4>1, <4>3 DEF Justified
      <4>5. WorkOk(p)'
        BY <3>2, <4>4 DEF WorkOk, Handling
      <4>6. TimeOk(p)'
        BY <2>3, <3>2 DEF TimeOk, HasTimedOut
      <4>7. \A t \in Sessions : (p \in InHand(t))' <=> FALSE
        BY <3>2 DEF InHand
      <4> QED
        BY <4>5, <4>6, <4>7
    <3> QED
      BY <2>2, <3>1, <3>2
  <2>5. \A q \in LogicProcessors :
          \/ worker'[q] = worker[q]
          \/ /\ WorkOk(q)' /\ TimeOk(q)'
             /\ \A t \in Sessions : (q \in InHand(t))' <=> q \in InHand(t)
    BY <1>6, <2>2, <2>4
  <2> QED
    BY <1>1, <2>3, <2>5, QuietKeeps
<1>8. CASE ReleaseSession(p)
  <2>1. /\ worker[p].pc = "release" /\ worker'[p] = Idle
        /\ \A q \in LogicProcessors : q # p => worker'[q] = worker[q]
    BY <1>1, <1>8, ReleaseSteps
  <2>2. UNCHANGED <<connection, lastReceived, queue, clients, accepted,
                    delivered>>
    BY <1>8 DEF ReleaseSession, sessionVars, clientVars, history
  <2>3. /\ WorkOk(p)' /\ TimeOk(p)'
        /\ \A t \in Sessions : (p \in InHand(t))' <=> FALSE
    BY <2>1, IdleIsOkNext
  <2>4. \A q \in LogicProcessors :
          \/ worker'[q] = worker[q]
          \/ /\ WorkOk(q)' /\ TimeOk(q)'
             /\ \A t \in Sessions : (q \in InHand(t))' <=> q \in InHand(t)
    BY <1>6, <2>1, <2>3
  <2> QED
    BY <1>1, <2>2, <2>4, QuietKeeps
<1> QED
  BY <1>2, <1>3, <1>4, <1>5, <1>7, <1>8 DEF LogicStep

LEMMA FlowInductive ==
  IdInv /\ IdInv' /\ FlowInv /\ [Next]_vars => FlowInv'
<1> SUFFICES ASSUME IdInv, IdInv', FlowInv, [Next]_vars PROVE FlowInv'
  OBVIOUS
<1>1. Base /\ Base'
  BY DEF IdInv
<1>2. ASSUME UNCHANGED <<connection, lastReceived, worker, accepted, delivered>>,
             clients' \subseteq clients,
             \A q \in LogicProcessors : \A k \in DOMAIN queue'[q] :
               \/ \E l \in DOMAIN queue[q] : queue'[q][k] = queue[q][l]
               \/ Justified(q, queue[q][k])'
      PROVE  FlowInv'
  BY <1>1, <1>2, QuietKeeps
<1>3. CASE Tick
  BY <1>2, <1>3 DEF Tick, sessionVars, clientVars, history
<1>4. ASSUME NEW s \in Sessions, Register(s) PROVE FlowInv'
  BY <1>4, RegisterKeepsFlow
<1>5. ASSUME NEW s \in Sessions, RemoveSession(s) PROVE FlowInv'
  BY <1>2, <1>5 DEF RemoveSession, sessionVars, clientVars, history
<1>6. ASSUME NEW s \in Sessions, NEW n \in DOMAIN PacketTypes[PeerOf[s]],
             Arrive(s, n)
      PROVE  FlowInv'
  <2>1. PICK task : task = PacketTask(connection[s], n, PeerOf[s])
    OBVIOUS
  <2>2. /\ task \in PacketTasks /\ task.sender = PeerOf[s]
        /\ \A q \in LogicProcessors : \A k \in DOMAIN queue'[q] :
             \/ k \in DOMAIN queue[q] /\ queue'[q][k] = queue[q][k]
             \/ q = PacketAffinity[task.sender] /\ queue'[q][k] = task
    BY <1>1, <1>6, <2>1, ArriveSteps
  <2>3. task.kind = "packet"
    BY <2>2 DEF PacketTasks
  <2>4. ASSUME NEW q \in LogicProcessors, NEW k \in DOMAIN queue'[q]
        PROVE  \/ \E l \in DOMAIN queue[q] : queue'[q][k] = queue[q][l]
               \/ Justified(q, queue[q][k])'
    <3>1. CASE q = PacketAffinity[task.sender] /\ queue'[q][k] = task
      BY <2>3, <3>1 DEF Justified
    <3> QED
      BY <2>2, <3>1
  <2> QED
    BY <1>2, <1>6, <2>4 DEF Arrive, sessionVars, clientVars, history
<1>7. ASSUME NEW p \in LogicProcessors, LogicStep(p) PROVE FlowInv'
  BY <1>7, ThreadKeepsFlow
<1>8. CASE HeartbeatStep
  <2>1. /\ \A q \in LogicProcessors : \A k \in DOMAIN queue'[q] :
             \/ k \in DOMAIN queue[q] /\ queue'[q][k] = queue[q][k]
             \/ /\ queue'[q][k] \in TimeoutRequests
                /\ DisconnectAffinity(queue'[q][k].connection) = q
        /\ UNCHANGED <<tableVars, sessionVars, now, worker, clientVars, history>>
    BY <1>1, <1>8, HeartbeatSteps
  <2>2. ASSUME NEW q \in LogicProcessors, NEW k \in DOMAIN queue'[q]
        PROVE  \/ \E l \in DOMAIN queue[q] : queue'[q][k] = queue[q][l]
               \/ Justified(q, queue[q][k])'
    <3>1. CASE /\ queue'[q][k] \in TimeoutRequests
               /\ DisconnectAffinity(queue'[q][k].connection) = q
      <4>1. queue'[q][k].kind = "timeout"
        BY <3>1 DEF TimeoutRequests
      <4> QED
        BY <3>1, <4>1 DEF Justified, DisconnectAffinity
    <3> QED
      BY <2>1, <3>1
  <2> QED
    BY <1>2, <2>1, <2>2 DEF sessionVars, clientVars, history
<1>9. CASE RemovalOfClient
  <2>1. /\ UNCHANGED <<sessionVars, queue, worker, history>>
        /\ clients' \subseteq clients
    BY <1>1, <1>9, RemoveClientSteps
  <2> QED
    BY <1>2, <2>1 DEF sessionVars, history
<1>10. CASE UNCHANGED vars
  BY <1>2, <1>10 DEF vars, sessionVars, clientVars, history
<1> QED
  BY <1>3, <1>4, <1>5, <1>6, <1>7, <1>8, <1>9, <1>10
     DEF Next, RemovalOfClient

LEMMA InvariantFlow == Spec => [](IdInv /\ FlowInv)
<1>1. Init => IdInv /\ FlowInv
  BY InitIdInv, InitFlow
<1>2. IdInv /\ FlowInv /\ [Next]_vars => (IdInv /\ FlowInv)'
  BY IdInvInductive, FlowInductive
<1> QED
  BY <1>1, <1>2, PTL DEF Spec

(* What a client gets of what the window accepted it gets once, in order   *)
(* and without a gap, and all of it while it is there, whatever the number *)
(* of logic threads, however datagrams arrive and whenever it is removed.  *)
THEOREM DispatchIsInOrder == Spec => []DispatchFollowsAcceptance
  BY InvariantFlow, PTL DEF FlowInv
-----------------------------------------------------------------------------
(* A session in the table has a client.                                    *)

(* A slot vacated, or none changed, while no removal of a client goes on.  *)
LEMMA ClientsStay ==
  ASSUME Base, ClientInv, UNCHANGED <<sweepClient, sweepIndex, clientVars>>,
         \A j \in Indices : slots'[j].session \in {slots[j].session, NoSession}
  PROVE  ClientInv'
<1>1. clients' = clients /\ leaving' = leaving
  BY DEF clientVars
<1>2. ASSUME NEW j \in Indices, slots'[j].session # NoSession
      PROVE  /\ slots'[j].session = slots[j].session
             /\ Owner[slots[j].session] \in clients
             /\ leaving # NoClient /\ (sweepClient = NoClient \/ j < sweepIndex)
                  => Owner[slots[j].session] # leaving
  BY <1>2 DEF ClientInv, Occupied
<1> QED
  BY <1>1, <1>2 DEF ClientInv, Occupied, Indices

LEMMA VacateLeaves ==
  ASSUME Base, NEW i \in Indices,
         slots' = [slots EXCEPT ![i] =
                     [session |-> NoSession,
                      generation |-> NextGeneration(slots[i].generation)]]
  PROVE  \A j \in Indices : slots'[j].session \in {slots[j].session, NoSession}
<1>1. slots \in [Indices -> [session : Sessions \cup {NoSession},
                             generation : Generations]]
  BY DEF Base, TypeOK, TableTypeOK
<1> QED
  BY <1>1

LEMMA ReleaseKeepsClients ==
  ASSUME Base, ClientInv, NEW id \in ConnectionIds, Release(id),
         UNCHANGED clientVars
  PROVE  ClientInv'
<1>1. PICK i \in Indices :
        slots' = [slots EXCEPT ![i] =
                    [session |-> NoSession,
                     generation |-> NextGeneration(slots[i].generation)]]
  BY ReleaseTyped
<1>2. UNCHANGED <<sweepClient, sweepIndex>>
  BY DEF Release
<1> QED
  BY <1>1, <1>2, ClientsStay, VacateLeaves

(* A session gets into the table for a client that is there, with no       *)
(* removal going on.                                                       *)
LEMMA RegisterKeepsClients ==
  ASSUME Base, ClientInv, NEW s \in Sessions, Register(s)
  PROVE  ClientInv'
<1>1. PICK i : i = Head(freeIndices)
  OBVIOUS
<1>2. /\ i \in Indices
      /\ slots' = [slots EXCEPT ![i] =
                     [session |-> s, generation |-> slots[i].generation]]
  BY <1>1, RegisterTyped
<1>3. /\ leaving = NoClient /\ Owner[s] \in clients
      /\ clients' = clients /\ leaving' = leaving
      /\ sweepClient' = sweepClient /\ sweepIndex' = sweepIndex
  BY DEF Register, Allocate, ClientSessionMutexFree, clientVars
<1>4. slots \in [Indices -> [session : Sessions \cup {NoSession},
                             generation : Generations]]
  BY DEF Base, TypeOK, TableTypeOK
<1>5. ASSUME NEW j \in Indices, slots'[j].session # NoSession
      PROVE  Owner[slots'[j].session] \in clients
  <2>1. CASE j = i
    BY <1>2, <1>3, <1>4, <2>1
  <2>2. CASE j # i
    BY <1>2, <1>4, <1>5, <2>2 DEF ClientInv, Occupied
  <2> QED
    BY <2>1, <2>2
<1> QED
  BY <1>3, <1>5 DEF ClientInv, Occupied, Indices

(* ReleaseByClientId leaves no session of the client behind: none is in    *)
(* the slots it went past, and none gets there meanwhile.                  *)
LEMMA RemoveClientKeepsClients ==
  ASSUME Base, ClientInv, RemovalOfClient
  PROVE  ClientInv'
<1>1. TypeOK
  BY DEF Base
<1>2. ASSUME NEW c \in Clients, RemoveClientBegin(c)
      PROVE  ClientInv'
  <2>1. /\ c \in clients /\ c # NoClient
        /\ leaving' = c /\ sweepClient' = c /\ sweepIndex' = 0
        /\ clients' = clients /\ slots' = slots
    BY <1>2 DEF RemoveClientBegin, SweepBegin
  <2>2. ASSUME NEW j \in Indices, slots[j].session # NoSession
        PROVE  Owner[slots[j].session] \in clients /\ ~(j < 0)
    BY <2>2 DEF ClientInv, Occupied, Indices
  <2> QED
    BY <2>1, <2>2 DEF ClientInv, Occupied, Indices
<1>3. CASE SweepSlot /\ clientVars' = clientVars
  <2>1. PICK i : i = sweepIndex
    OBVIOUS
  <2>2. /\ i \in Indices
        /\ \/ slots' = [slots EXCEPT ![i] =
                          [session |-> NoSession,
                           generation |-> NextGeneration(slots[i].generation)]]
           \/ /\ Occupied(i) => Owner[slots[i].session] # sweepClient
              /\ slots' = slots
    BY <1>3, <2>1, SweepSlotSteps
  <2>3. /\ sweepClient # NoClient /\ sweepClient = leaving
        /\ sweepClient' = sweepClient /\ sweepIndex' = i + 1
        /\ clients' = clients /\ leaving' = leaving
    BY <1>3, <2>1 DEF SweepSlot, clientVars, ClientInv
  <2>4. \A j \in Indices : slots'[j].session \in {slots[j].session, NoSession}
    BY <2>2, VacateLeaves
  <2>5. slots \in [Indices -> [session : Sessions \cup {NoSession},
                               generation : Generations]]
    BY <1>1 DEF TypeOK, TableTypeOK
  <2>6. slots'[i].session # NoSession => Owner[slots[i].session] # leaving
    BY <2>2, <2>3, <2>5 DEF Occupied
  <2>7. ASSUME NEW j \in Indices, slots'[j].session # NoSession
        PROVE  /\ Owner[slots'[j].session] \in clients
               /\ j < i + 1 => Owner[slots'[j].session] # leaving
    <3>1. slots'[j].session = slots[j].session
      BY <2>4, <2>7
    <3>2. /\ Owner[slots[j].session] \in clients
          /\ j < i => Owner[slots[j].session] # leaving
      BY <2>1, <2>3, <2>7, <3>1 DEF ClientInv, Occupied
    <3>3. j < i + 1 => j < i \/ j = i
      BY <2>2 DEF Indices
    <3> QED
      BY <2>6, <2>7, <3>1, <3>2, <3>3
  <2> QED
    BY <2>3, <2>7 DEF ClientInv, Occupied, Indices
<1>4. CASE SweepEnd /\ clientVars' = clientVars
  <2>1. /\ sweepIndex = SlotCount /\ sweepClient' = NoClient /\ slots' = slots
        /\ clients' = clients /\ leaving' = leaving
    BY <1>4 DEF SweepEnd, clientVars
  <2>2. ASSUME NEW j \in Indices, slots[j].session # NoSession
        PROVE  /\ Owner[slots[j].session] \in clients
               /\ leaving # NoClient => Owner[slots[j].session] # leaving
    BY <2>1, <2>2 DEF ClientInv, Occupied, Indices
  <2> QED
    BY <2>1, <2>2 DEF ClientInv, Occupied, Indices
<1>5. CASE RemoveClientEnd
  <2>1. /\ leaving # NoClient /\ sweepClient = NoClient
        /\ clients' = clients \ {leaving} /\ leaving' = NoClient
        /\ sweepClient' = sweepClient /\ slots' = slots
    BY <1>5 DEF RemoveClientEnd, ClientSessionMutexFree, SlotsMutexFree,
                tableVars
  <2>2. ASSUME NEW j \in Indices, slots[j].session # NoSession
        PROVE  Owner[slots[j].session] \in clients \ {leaving}
    BY <2>1, <2>2 DEF ClientInv, Occupied
  <2> QED
    BY <2>1, <2>2 DEF ClientInv, Occupied, Indices
<1> QED
  BY <1>2, <1>3, <1>4, <1>5
     DEF RemovalOfClient, RemoveClientStep, RemoveClientSessions

LEMMA InitClients == Init => ClientInv
  BY DEF Init, TableInit, ClientInv, Occupied

LEMMA ClientInductive == IdInv /\ ClientInv /\ [Next]_vars => ClientInv'
<1> SUFFICES ASSUME IdInv, ClientInv, [Next]_vars PROVE ClientInv'
  OBVIOUS
<1>1. Base
  BY DEF IdInv
<1>2. ASSUME UNCHANGED <<tableVars, clientVars>> PROVE ClientInv'
  BY <1>1, <1>2, ClientsStay DEF tableVars
<1>3. ASSUME NEW s \in Sessions, Register(s) PROVE ClientInv'
  BY <1>1, <1>3, RegisterKeepsClients
<1>4. ASSUME NEW s \in Sessions, RemoveSession(s) PROVE ClientInv'
  <2>1. connection[s] \in ConnectionIds
    BY <1>1 DEF Base, TypeOK
  <2> QED
    BY <1>1, <1>4, <2>1, ReleaseKeepsClients DEF RemoveSession
<1>5. ASSUME NEW p \in LogicProcessors, LogicStep(p) PROVE ClientInv'
  <2>1. CASE ReleaseSession(p)
    <3>1. PICK id \in ConnectionIds : Release(id) \/ UNCHANGED tableVars
      BY <1>1, <2>1, ReleaseSteps
    <3>2. UNCHANGED clientVars
      BY <2>1 DEF ReleaseSession
    <3> QED
      BY <1>1, <1>2, <3>1, <3>2, ReleaseKeepsClients
  <2>2. CASE ~ReleaseSession(p)
    BY <1>2, <1>5, <2>2 DEF LogicStep, Take, AcceptSequence, MarkReceivedNow,
                            Dispatch, ValidateTimeout
  <2> QED
    BY <2>1, <2>2
<1>6. CASE RemovalOfClient
  BY <1>1, <1>6, RemoveClientKeepsClients
<1>7. CASE \/ Tick \/ HeartbeatStep \/ UNCHANGED vars
           \/ \E s \in Sessions : \E n \in DOMAIN PacketTypes[PeerOf[s]] :
                Arrive(s, n)
  BY <1>2, <1>7 DEF Tick, HeartbeatStep, ScanBegin, ScanSnapshot, ScanCheck,
                    ScanPush, Arrive, vars
<1> QED
  BY <1>3, <1>4, <1>5, <1>6, <1>7 DEF Next, RemovalOfClient

LEMMA InvariantClients == Spec => [](IdInv /\ ClientInv)
  BY InitClients, ClientInductive, InvariantIdInv, PTL DEF Spec
-----------------------------------------------------------------------------
(* One session for an id, as long as no slot's generation wraps.           *)

\* Fewer sessions are registered than a slot has generations: 2^32 - 1.
FewSessions ==
  IsFiniteSet(Sessions) /\ Cardinality(Sessions) < GenerationSpan - 1

LastingInv == GenerationInv /\ UniqueInv

LEMMA RetiredFinite ==
  ASSUME FewSessions, NEW i
  PROVE  /\ IsFiniteSet(Retired(i)) /\ Cardinality(Retired(i)) \in Nat
         /\ Cardinality(Sessions) \in Nat
         /\ Retired(i) \subseteq Sessions
<1>1. Retired(i) \subseteq Sessions
  BY DEF Retired
<1> QED
  BY <1>1, FS_Subset, FS_CardinalityType DEF FewSessions

LEMMA InitLasting ==
  ASSUME FewSessions, Init
  PROVE  LastingInv
<1>1. \A s \in Sessions : ~Registered(s)
  BY DEF Init, Registered
<1>2. \A i \in Indices : Retired(i) = {} /\ slots[i].generation = 1
  BY <1>1 DEF Retired, Init, TableInit
<1>3. Cardinality({}) = 0
  BY FS_EmptySet
<1>4. GenerationInv
  <2> SUFFICES ASSUME NEW i \in Indices
               PROVE  /\ slots[i].generation <= 1 + Cardinality(Retired(i))
                      /\ \A s \in Retired(i) :
                           GetGeneration(connection[s]) < slots[i].generation
    BY DEF GenerationInv
  <2>1. PICK left : left = Retired(i) /\ left = {}
    BY <1>2
  <2>2. 1 <= 1 + Cardinality(left)
    BY <1>3, <2>1
  <2> QED
    BY <1>2, <2>1, <2>2
<1>5. UniqueInv
  BY <1>1 DEF UniqueInv
<1> QED
  BY <1>4, <1>5 DEF LastingInv

LEMMA LastingStays ==
  ASSUME LastingInv, UNCHANGED <<slots, connection>>
  PROVE  LastingInv'
  BY DEF LastingInv, GenerationInv, UniqueInv, Retired, Registered, Indices,
         GetIndex, GetGeneration, InvalidConnectionId

(* The id a session gets has the generation its slot's earlier sessions    *)
(* stayed below.                                                           *)
LEMMA RegisterKeepsLasting ==
  ASSUME FewSessions, IdInv, LastingInv, NEW s \in Sessions, Register(s)
  PROVE  LastingInv'
<1>1. PICK i : i = Head(freeIndices)
  OBVIOUS
<1>2. PICK g : g = slots[i].generation
  OBVIOUS
<1>3. PICK id : id = MakeConnectionId(i, g)
  OBVIOUS
<1>4. /\ i \in Indices /\ ~Occupied(i)
      /\ slots' = [slots EXCEPT ![i] = [session |-> s, generation |-> g]]
      /\ connection' = [connection EXCEPT ![s] = id]
      /\ g \in Generations
      /\ ~Registered(s)
  BY <1>1, <1>2, <1>3, RegisterTyped DEF IdInv
<1>5. /\ slots \in [Indices -> [session : Sessions \cup {NoSession},
                                generation : Generations]]
      /\ connection \in [Sessions -> ConnectionIds]
  BY DEF IdInv, Base, TypeOK, TableTypeOK
<1>6. GetIndex(id) = i /\ GetGeneration(id) = g
  <2>1. i \in 0 .. IndexSpan - 1
    BY <1>4 DEF Indices
  <2> QED
    BY <1>3, <1>4, <2>1, IdArithmetic
<1>7. slots[i].session = NoSession
  BY <1>4 DEF Occupied
<1>8. /\ connection'[s] = id
      /\ \A t \in Sessions : t # s => connection'[t] = connection[t]
      /\ slots'[i].session = s /\ slots'[i].generation = g
      /\ \A j \in Indices : j # i => slots'[j] = slots[j]
  BY <1>4, <1>5
<1>9. ASSUME NEW j \in Indices, NEW t \in Sessions
      PROVE  (t \in Retired(j))' <=> t \in Retired(j)
  <2>1. CASE t = s
    <3>1. t \notin Retired(j)
      BY <1>4, <2>1 DEF Retired
    <3>2. (t \in Retired(j))' <=>
            /\ id # InvalidConnectionId /\ GetIndex(id) = j
            /\ slots'[j].session # s
      BY <1>8, <2>1 DEF Retired, Registered, GetIndex, InvalidConnectionId
    <3> QED
      BY <1>6, <1>8, <3>1, <3>2
  <2>2. CASE t # s
    <3>1. (t \in Retired(j))' <=>
            /\ Registered(t) /\ GetIndex(connection[t]) = j
            /\ slots'[j].session # t
      BY <1>8, <2>2 DEF Retired, Registered, GetIndex, InvalidConnectionId
    <3>2. slots'[j].session # t <=> slots[j].session # t
      <4>1. CASE j = i
        BY <1>7, <1>8, <2>2, <4>1
      <4>2. CASE j # i
        BY <1>8, <4>2
      <4> QED
        BY <4>1, <4>2
    <3> QED
      BY <3>1, <3>2 DEF Retired
  <2> QED
    BY <2>1, <2>2
<1>10. ASSUME NEW j \in Indices
       PROVE  Retired(j)' = Retired(j) /\ slots'[j].generation = slots[j].generation
  <2>1. Retired(j) \subseteq Sessions /\ Retired(j)' \subseteq Sessions
    BY DEF Retired
  <2>2. Retired(j)' = Retired(j)
    BY <1>9, <2>1
  <2>3. slots'[j].generation = slots[j].generation
    BY <1>2, <1>8
  <2> QED
    BY <2>2, <2>3
<1>11. GenerationInv'
  <2> SUFFICES ASSUME NEW j \in Indices
               PROVE  /\ slots'[j].generation <= 1 + Cardinality(Retired(j)')
                      /\ \A t \in Retired(j)' :
                           GetGeneration(connection'[t]) < slots'[j].generation
    BY DEF GenerationInv, Indices, GetGeneration
  <2>1. /\ slots[j].generation <= 1 + Cardinality(Retired(j))
        /\ \A t \in Retired(j) :
             GetGeneration(connection[t]) < slots[j].generation
    BY DEF LastingInv, GenerationInv
  <2>2. \A t \in Retired(j) : connection'[t] = connection[t]
    BY <1>4, <1>8 DEF Retired
  <2> QED
    BY <1>10, <2>1, <2>2
<1>12. ASSUME NEW t \in Sessions, Registered(t), connection[t] = id
       PROVE  FALSE
  <2>1. t \in Retired(i)
    BY <1>6, <1>7, <1>12 DEF Retired
  <2>2. GetGeneration(id) < g
    BY <1>2, <1>4, <1>12, <2>1 DEF LastingInv, GenerationInv
  <2> QED
    BY <1>4, <1>6, <2>2 DEF Generations
<1>13. UniqueInv'
  <2> SUFFICES ASSUME NEW t \in Sessions, NEW u \in Sessions,
                      connection'[t] # InvalidConnectionId,
                      connection'[t] = connection'[u]
               PROVE  t = u
    BY DEF UniqueInv, Registered, InvalidConnectionId
  <2>1. CASE t # s /\ u # s
    BY <1>8, <2>1 DEF LastingInv, UniqueInv, Registered
  <2>2. CASE t = s /\ u # s
    BY <1>8, <1>12, <2>2 DEF Registered
  <2>3. CASE t # s /\ u = s
    BY <1>8, <1>12, <2>3 DEF Registered
  <2> QED
    BY <2>1, <2>2, <2>3
<1> QED
  BY <1>11, <1>13 DEF LastingInv

(* The session that leaves is one more that left, and the generation one   *)
(* more: there are too few sessions for it to wrap.                        *)
LEMMA VacateKeepsLasting ==
  ASSUME FewSessions, IdInv, LastingInv, connection' = connection,
         NEW i \in Indices, Occupied(i),
         slots' = [slots EXCEPT ![i] =
                     [session |-> NoSession,
                      generation |-> NextGeneration(slots[i].generation)]]
  PROVE  LastingInv'
<1>1. PICK g : g = slots[i].generation
  OBVIOUS
<1>2. slots' = [slots EXCEPT ![i] = [session |-> NoSession,
                                     generation |-> NextGeneration(g)]]
  BY <1>1
<1>3. slots \in [Indices -> [session : Sessions \cup {NoSession},
                             generation : Generations]]
  BY DEF IdInv, Base, TypeOK, TableTypeOK
<1>4. PICK s \in Sessions : s = slots[i].session
  BY <1>2, <1>3 DEF Occupied
<1>5. g \in Generations
  BY <1>1, <1>2, <1>3
<1>6. /\ slots'[i].session = NoSession
      /\ slots'[i].generation = NextGeneration(g)
      /\ \A j \in Indices : j # i => slots'[j] = slots[j]
  BY <1>2, <1>3
<1>7. /\ Registered(s)
      /\ GetIndex(connection[s]) = i /\ GetGeneration(connection[s]) = g
  <2>1. connection[s] = MakeConnectionId(i, g)
    BY <1>1, <1>2, <1>4 DEF IdInv, OccupantInv
  <2>2. i \in 0 .. IndexSpan - 1
    BY <1>2 DEF Indices
  <2> QED
    BY <1>5, <2>1, <2>2, IdArithmetic DEF Registered
<1>8. s \notin Retired(i)
  BY <1>4 DEF Retired
<1>9. Retired(i)' = Retired(i) \cup {s}
  <2>1. ASSUME NEW t \in Sessions
        PROVE  (t \in Retired(i))' <=> t \in Retired(i) \cup {s}
    <3>1. (t \in Retired(i))' <=>
            Registered(t) /\ GetIndex(connection[t]) = i
      BY <1>6 DEF Retired, Registered, GetIndex, InvalidConnectionId
    <3>2. t \in Retired(i) <=>
            Registered(t) /\ GetIndex(connection[t]) = i /\ s # t
      BY <1>4 DEF Retired
    <3> QED
      BY <1>7, <3>1, <3>2
  <2>2. Retired(i) \subseteq Sessions /\ Retired(i)' \subseteq Sessions
    BY DEF Retired
  <2> QED
    BY <2>1, <2>2
<1>10. PICK left : left = Retired(i)
  OBVIOUS
<1>11. /\ IsFiniteSet(left) /\ Cardinality(left) \in Nat
       /\ Cardinality(Sessions) \in Nat
       /\ left \subseteq Sessions /\ s \notin left
       /\ g <= 1 + Cardinality(left)
       /\ \A t \in left : GetGeneration(connection[t]) < g
  BY <1>1, <1>2, <1>8, <1>10, RetiredFinite DEF LastingInv, GenerationInv
<1>12. /\ Cardinality(left \cup {s}) = Cardinality(left) + 1
  BY <1>11, FS_AddElement
<1>13. Cardinality(left \cup {s}) <= Cardinality(Sessions)
  <2>1. left \cup {s} \in SUBSET Sessions
    BY <1>11
  <2> QED
    BY <2>1, FS_Subset DEF FewSessions
<1>14. NextGeneration(g) = g + 1
  <2>1. g # GenerationSpan - 1
    BY <1>5, <1>11, <1>12, <1>13 DEF FewSessions, Generations
  <2> QED
    BY <1>5, <2>1, NextGenerationCycles
<1>15. GenerationInv'
  <2> SUFFICES ASSUME NEW j \in Indices
               PROVE  /\ slots'[j].generation <= 1 + Cardinality(Retired(j)')
                      /\ \A t \in Retired(j)' :
                           GetGeneration(connection[t]) < slots'[j].generation
    BY DEF GenerationInv, Indices, GetGeneration
  <2>1. CASE j = i
    <3>1. PICK all : all = Retired(j)' /\ all = left \cup {s}
      BY <1>9, <1>10, <2>1
    <3>2. slots'[j].generation = g + 1
      BY <1>6, <1>14, <2>1
    <3>3. g + 1 <= 1 + Cardinality(all)
      BY <1>5, <1>11, <1>12, <3>1 DEF Generations
    <3>4. ASSUME NEW t \in all
          PROVE  GetGeneration(connection[t]) < g + 1
      <4>1. t \in Sessions
        BY <1>11, <3>1
      <4>2. GetGeneration(connection[t]) \in Int
        BY <4>1, IdHalves DEF IdInv, Base, TypeOK
      <4>3. GetGeneration(connection[t]) <= g
        <5>1. CASE t = s
          BY <1>5, <1>7, <5>1 DEF Generations
        <5>2. CASE t # s
          BY <1>5, <1>11, <3>1, <4>2, <5>2 DEF Generations
        <5> QED
          BY <5>1, <5>2
      <4> QED
        BY <1>5, <4>2, <4>3 DEF Generations
    <3> QED
      BY <3>1, <3>2, <3>3, <3>4
  <2>2. CASE j # i
    <3>1. slots'[j] = slots[j]
      BY <1>6, <2>2
    <3>2. Retired(j)' = Retired(j)
      BY <3>1 DEF Retired, Registered, GetIndex, InvalidConnectionId
    <3> QED
      BY <3>1, <3>2 DEF LastingInv, GenerationInv
  <2> QED
    BY <2>1, <2>2
<1>16. UniqueInv'
  BY DEF LastingInv, UniqueInv, Registered, InvalidConnectionId
<1> QED
  BY <1>15, <1>16 DEF LastingInv

LEMMA ReleaseKeepsLasting ==
  ASSUME FewSessions, IdInv, LastingInv, NEW id \in ConnectionIds, Release(id),
         connection' = connection
  PROVE  LastingInv'
<1>1. PICK i \in Indices :
        /\ Occupied(i)
        /\ slots' = [slots EXCEPT ![i] =
                       [session |-> NoSession,
                        generation |-> NextGeneration(slots[i].generation)]]
  BY ReleaseTyped DEF IdInv
<1> QED
  BY <1>1, VacateKeepsLasting

LEMMA LastingInductive ==
  ASSUME FewSessions, IdInv, LastingInv, [Next]_vars
  PROVE  LastingInv'
<1>1. CASE Tick
  BY <1>1, LastingStays DEF Tick, tableVars, sessionVars
<1>2. ASSUME NEW s \in Sessions, Register(s) PROVE LastingInv'
  BY <1>2, RegisterKeepsLasting
<1>3. ASSUME NEW s \in Sessions, RemoveSession(s) PROVE LastingInv'
  <2>1. connection[s] \in ConnectionIds
    BY DEF IdInv, Base, TypeOK
  <2> QED
    BY <1>3, <2>1, ReleaseKeepsLasting DEF RemoveSession, sessionVars
<1>4. ASSUME NEW s \in Sessions, NEW n \in DOMAIN PacketTypes[PeerOf[s]],
             Arrive(s, n)
      PROVE  LastingInv'
  BY <1>4, LastingStays DEF Arrive, tableVars, sessionVars
<1>5. ASSUME NEW p \in LogicProcessors, LogicStep(p) PROVE LastingInv'
  <2>1. CASE ReleaseSession(p)
    <3>1. PICK id \in ConnectionIds : Release(id) \/ UNCHANGED tableVars
      BY <2>1, ReleaseSteps DEF IdInv
    <3>2. connection' = connection
      BY <2>1 DEF ReleaseSession, sessionVars
    <3> QED
      BY <3>1, <3>2, LastingStays, ReleaseKeepsLasting DEF tableVars
  <2>2. CASE ~ReleaseSession(p)
    <3>1. UNCHANGED <<slots, connection>>
      BY <1>5, <2>2 DEF LogicStep, Take, AcceptSequence, MarkReceivedNow,
                        Dispatch, ValidateTimeout, tableVars, sessionVars
    <3> QED
      BY <3>1, LastingStays
  <2> QED
    BY <2>1, <2>2
<1>6. CASE HeartbeatStep
  BY <1>6, LastingStays DEF HeartbeatStep, ScanBegin, ScanSnapshot, ScanCheck,
                            ScanPush, tableVars, sessionVars
<1>7. CASE RemovalOfClient
  <2>1. /\ connection' = connection
        /\ \/ slots' = slots
           \/ \E i \in Indices :
                /\ Occupied(i)
                /\ slots' = [slots EXCEPT ![i] =
                      [session |-> NoSession,
                       generation |-> NextGeneration(slots[i].generation)]]
    BY <1>7, RemoveClientSteps DEF IdInv, sessionVars
  <2> QED
    BY <2>1, LastingStays, VacateKeepsLasting
<1>8. CASE UNCHANGED vars
  BY <1>8, LastingStays DEF vars, tableVars, sessionVars
<1> QED
  BY <1>1, <1>2, <1>3, <1>4, <1>5, <1>6, <1>7, <1>8 DEF Next, RemovalOfClient

LEMMA InvariantLasting ==
  ASSUME FewSessions
  PROVE  Spec => [](IdInv /\ FlowInv /\ LastingInv)
<1>1. Init => LastingInv
  BY InitLasting
<1>2. IdInv /\ LastingInv /\ [Next]_vars => LastingInv'
  BY LastingInductive
<1> QED
  BY <1>1, <1>2, InvariantFlow, PTL DEF Spec

(* A thread that takes a session away is releasing that session's id.      *)
LEMMA RemovalIsRelease ==
  ASSUME IdInv, [Next]_vars, NEW p \in LogicProcessors, NEW s \in Sessions,
         TakesAway(p, s)
  PROVE  worker[p].pc = "release" /\ worker[p].task.connection = connection[s]
<1>1. /\ worker[p].pc = "release" /\ worker[p] # worker'[p]
      /\ s \in ActiveSessions /\ s \notin ActiveSessions'
  BY DEF TakesAway
<1>2. Base
  BY DEF IdInv
<1>3. worker' # worker
  BY <1>1
<1>4. PICK q \in LogicProcessors : LogicStep(q)
  <2>1. RemovalOfClient => worker' = worker
    BY <1>2, RemoveClientSteps
  <2> QED
    BY <1>3, <2>1 DEF Next, RemovalOfClient, vars, Tick, Register,
                      RemoveSession, Arrive, HeartbeatStep, ScanBegin,
                      ScanSnapshot, ScanCheck, ScanPush
<1>5. q = p
  <2> SUFFICES ASSUME q # p PROVE worker'[p] = worker[p]
    BY <1>1
  <2>1. CASE Take(q)
    BY <1>2, <2>1, TakeSteps
  <2>2. CASE AcceptSequence(q)
    BY <1>2, <2>2, AcceptSteps
  <2>3. CASE MarkReceivedNow(q)
    BY <1>2, <2>3, MarkSteps
  <2>4. CASE Dispatch(q)
    BY <1>2, <2>4, DispatchSteps
  <2>5. CASE ValidateTimeout(q)
    BY <1>2, <2>5, ValidateSteps
  <2>6. CASE ReleaseSession(q)
    BY <1>2, <2>6, ReleaseSteps
  <2> QED
    BY <1>4, <2>1, <2>2, <2>3, <2>4, <2>5, <2>6 DEF LogicStep
<1>6. ReleaseSession(p)
  BY <1>1, <1>4, <1>5 DEF LogicStep, Take, AcceptSequence, MarkReceivedNow,
                          Dispatch, ValidateTimeout
<1>7. PICK id \in ConnectionIds :
        id = worker[p].task.connection /\ (Release(id) \/ UNCHANGED tableVars)
  BY <1>2, <1>6, ReleaseSteps
<1>8. PICK j \in Indices : slots[j].session = s
  BY <1>1 DEF ActiveSessions
<1>9. slots'[j] # slots[j]
  BY <1>1, <1>8 DEF ActiveSessions, Indices
<1>10. Release(id)
  BY <1>7, <1>9 DEF tableVars
<1>11. PICK i : i = GetIndex(id)
  OBVIOUS
<1>12. /\ i \in Indices /\ Occupied(i)
       /\ slots[i].generation = GetGeneration(id)
       /\ slots' = [slots EXCEPT ![i] =
                      [session |-> NoSession,
                       generation |-> NextGeneration(slots[i].generation)]]
  BY <1>2, <1>10, <1>11, ReleaseTyped
<1>13. j = i
  BY <1>2, <1>9, <1>12 DEF Base, TypeOK, TableTypeOK
<1>14. connection[s] = MakeConnectionId(i, GetGeneration(id))
  BY <1>8, <1>12, <1>13 DEF IdInv, OccupantInv
<1>15. connection[s] = id
  BY <1>11, <1>14, IdHalves
<1> QED
  BY <1>1, <1>7, <1>15

(* A session disappears for a task about it: for a disconnect, because its *)
(* own peer sent one, after all the data accepted ahead of that.           *)
THEOREM RemovalsHaveReasons ==
  ASSUME FewSessions
  PROVE  Spec => RemovalHasItsReason
<1>1. IdInv /\ FlowInv /\ LastingInv /\ ClientInv /\ [Next]_vars =>
        \A p \in LogicProcessors, s \in Sessions : TakesAway(p, s) =>
          /\ worker[p].task.connection = connection[s]
          /\ worker[p].task.kind = "disconnect" => PeerLeft(s)
  <2> SUFFICES ASSUME IdInv, FlowInv, LastingInv, ClientInv, [Next]_vars,
                      NEW p \in LogicProcessors, NEW s \in Sessions,
                      TakesAway(p, s)
               PROVE  /\ worker[p].task.connection = connection[s]
                      /\ worker[p].task.kind = "disconnect" => PeerLeft(s)
    OBVIOUS
  <2>1. worker[p].task.connection = connection[s]
    BY RemovalIsRelease
  <2>2. ASSUME worker[p].task.kind = "disconnect"
        PROVE  PeerLeft(s)
    <3>1. Justified(p, worker[p].task)
      BY DEF FlowInv, WorkInv, WorkOk
    <3>2. PICK t \in Sessions :
            /\ Registered(t) /\ connection[t] = worker[p].task.connection
            /\ PeerSaidSo(t)
      BY <2>2, <3>1 DEF Justified
    <3>3. t = s
      BY <2>1, <3>2 DEF LastingInv, UniqueInv
    <3>4. PICK i \in Indices : slots[i].session = s
      BY DEF TakesAway, ActiveSessions
    <3>5. Owner[s] \in clients
      BY <3>4 DEF ClientInv, Occupied
    <3> QED
      BY <3>2, <3>3, <3>5 DEF PeerSaidSo, PeerLeft
  <2> QED
    BY <2>1, <2>2
<1> QED
  BY <1>1, InvariantLasting, InvariantClients, PTL DEF Spec,
     RemovalHasItsReason

(* No packet slips between a timeout's second check and the removal it     *)
(* leads to when the session's packets have the removing thread to wait    *)
(* for.                                                                    *)
THEOREM CoLocatedTimeoutsAreCurrent ==
  ASSUME FewSessions
  PROVE  Spec => CoLocatedTimeoutIsCurrent
<1>1. IdInv /\ FlowInv /\ LastingInv /\ [Next]_vars =>
        \A p \in LogicProcessors, s \in Sessions :
          TakesAway(p, s) /\ CoLocated(s) => IdleSinceScan(p, s)
  <2> SUFFICES ASSUME IdInv, FlowInv, LastingInv, [Next]_vars,
                      NEW p \in LogicProcessors, NEW s \in Sessions,
                      TakesAway(p, s), CoLocated(s),
                      worker[p].task.kind = "timeout"
               PROVE  HasTimedOut(s, worker[p].task.requested)
    BY DEF IdleSinceScan
  <2>1. /\ worker[p].pc = "release"
        /\ worker[p].task.connection = connection[s]
    BY RemovalIsRelease
  <2>2. worker[p].session \in Sessions
    BY <2>1, WorkShapes DEF IdInv, Base, DisconnectTasks
  <2>3. PICK t \in Sessions : t = worker[p].session
    BY <2>2
  <2>4. Registered(t) /\ connection[t] = worker[p].task.connection
    BY <2>3 DEF IdInv, HoldInv
  <2>5. t = s
    BY <2>1, <2>4 DEF LastingInv, UniqueInv
  <2> QED
    BY <2>1, <2>3, <2>5 DEF FlowInv, TimeoutInv, TimeOk
<1> QED
  BY <1>1, InvariantLasting, PTL DEF Spec, CoLocatedTimeoutIsCurrent
=============================================================================
