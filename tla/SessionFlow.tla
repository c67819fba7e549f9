---------------------------- MODULE SessionFlow ----------------------------
(***************************************************************************)
(* The life of a session under traffic, composed of the session table, the *)
(* replay window and the threads that use them while the server runs: the  *)
(* logic processors with their queues, the heartbeat thread that asks for  *)
(* idle sessions to be disconnected, and the application registering and   *)
(* removing sessions and removing clients.  A task runs on one logic       *)
(* thread and takes and drops the table's and the session's mutexes as it  *)
(* goes; each of its critical sections is an action, so any other thread   *)
(* can step in between.                                                    *)
(*                                                                         *)
(* A peer is an endpoint with its key.  It stamps datagrams with any id it *)
(* was ever given, and the network delivers them in any order, any number  *)
(* of times, or never.                                                     *)
(***************************************************************************)
EXTENDS SessionLookupTable, ReplayWindow, FiniteSets

CONSTANTS
  Peers,
  PeerOf,          \* [Sessions -> Peers]: remoteAddress, authenticationKey
  PacketTypes,     \* [Peers -> Seq({"data", "heartbeat", "disconnect"})]:
                   \*   the type of a peer's n-th packet on a connection
  LogicCount,      \* logicProcessorCount
  PacketAffinity,  \* [Peers -> LogicProcessors]: endpoint key % LogicCount
  Timeout,         \* sessionTimeout, in ticks
  MaxTime,         \* bound: the last tick
  MaxQueue,        \* bound: packets wait in a queue no longer than this
  MaxTimeoutTasks  \* bound: the heartbeat waits while so many are under way

LogicProcessors == 0 .. LogicCount - 1

ASSUME FlowAssumption ==
  /\ LogicCount \in Nat \ {0}
  /\ PeerOf \in [Sessions -> Peers]
  /\ PacketTypes \in [Peers -> Seq({"data", "heartbeat", "disconnect"})]
  /\ PacketAffinity \in [Peers -> LogicProcessors]
  /\ Timeout \in Nat \ {0}
  /\ MaxTime \in Nat /\ MaxQueue \in Nat \ {0} /\ MaxTimeoutTasks \in Nat \ {0}

VARIABLES
  connection,      \* [Sessions -> id], InvalidConnectionId before Allocate
  replay,          \* [Sessions -> window]
  lastReceived,    \* [Sessions -> time]: lastReceivedTime
  now,             \* steady_clock
  queue,           \* [LogicProcessors -> Seq(task)]
  worker,          \* [LogicProcessors -> [pc, task, session]]
  heartbeat,       \* [pc, scanTime, targets]
  clients,         \* the clients a visit gets into: in the map, not removing
  leaving,         \* the client RemoveClient is running for, or NoClient; who
                   \*   it is for holds clientSessionMutex
  accepted,        \* history: [Sessions -> Seq(sequence)] AcceptSequence took
  delivered        \* history: [Sessions -> Seq(sequence)] given to the client

sessionVars == <<connection, replay, lastReceived>>
clientVars == <<clients, leaving>>
history == <<accepted, delivered>>
vars ==
  <<tableVars, sessionVars, now, queue, worker, heartbeat, clientVars, history>>

PacketTypeOf(s, sequence) == PacketTypes[PeerOf[s]][sequence]

PacketTask(id, sequence, sender) ==
  [kind |-> "packet", connection |-> id, sequence |-> sequence,
   sender |-> sender]
DisconnectTask(id) == [kind |-> "disconnect", connection |-> id]
TimeoutTask(id, requested) ==
  [kind |-> "timeout", connection |-> id, requested |-> requested]
NoTask == [kind |-> "none", connection |-> InvalidConnectionId]

Idle == [pc |-> "idle", task |-> NoTask, session |-> NoSession]
Asleep == [pc |-> "asleep", scanTime |-> 0, targets |-> {}]

\* connectionId % processors.size().
DisconnectAffinity(id) == id % LogicCount

\* The mutant picks a processor per packet, as AnyProcessor would.
PacketAffinityBySequence(sender, sequence) == sequence % LogicCount
PacketProcessor(sender, sequence) == PacketAffinity[sender]

\* Mutant: measured the wrong way round.
HasTimedOutReversed(s, at) == lastReceived[s] - at >= Timeout
HasTimedOut(s, at) == at - lastReceived[s] >= Timeout

\* Mutant: a task is dropped when others wait.
PushWhenEmpty(p, task) ==
  queue' = [queue EXCEPT ![p] = IF @ = <<>> THEN <<task>> ELSE @]
Push(p, task) == queue' = [queue EXCEPT ![p] = Append(@, task)]

\* Where the timeout tasks under way are: queued at k, or running (0).
TimeoutTasks ==
  UNION {{<<p, k>> : k \in {j \in DOMAIN queue[p] :
                              queue[p][j].kind = "timeout"}}
           : p \in LogicProcessors}
  \cup {<<p, 0>> : p \in {q \in LogicProcessors :
                            worker[q].task.kind = "timeout"}}
-----------------------------------------------------------------------------
Init ==
  /\ TableInit
  /\ connection = [s \in Sessions |-> InvalidConnectionId]
  /\ replay = [s \in Sessions |-> NewWindow]
  /\ lastReceived = [s \in Sessions |-> 0]
  /\ now = 0
  /\ queue = [p \in LogicProcessors |-> <<>>]
  /\ worker = [p \in LogicProcessors |-> Idle]
  /\ heartbeat = Asleep
  /\ clients = Clients
  /\ leaving = NoClient
  /\ accepted = [s \in Sessions |-> <<>>]
  /\ delivered = [s \in Sessions |-> <<>>]

Tick ==
  /\ now < MaxTime
  /\ now' = now + 1
  /\ UNCHANGED <<tableVars, sessionVars, queue, worker, heartbeat, clientVars,
                 history>>

ClientSessionMutexFree == leaving = NoClient

\* RegisterClientSession: construct the session, then Allocate.
Register(s) ==
  /\ ClientSessionMutexFree
  /\ Owner[s] \in clients
  /\ connection[s] = InvalidConnectionId
  /\ Allocate(s)
  /\ connection' = [connection EXCEPT ![s] = NextConnectionId]
  /\ lastReceived' = [lastReceived EXCEPT ![s] = now]
  /\ UNCHANGED <<replay, now, queue, worker, heartbeat, clientVars, history>>

\* RemoveClientSession, called by the application with an id it keeps.
RemoveSession(s) ==
  /\ ClientSessionMutexFree
  /\ Release(connection[s])
  /\ UNCHANGED <<sessionVars, now, queue, worker, heartbeat, clientVars,
                 history>>

\* RemoveClient: with clientSessionMutex held, the client's sessions ...
\* (For a client that is gone there is no session to find.)
RemoveClientBegin(c) ==
  /\ ClientSessionMutexFree
  /\ c \in clients
  /\ SweepBegin(c)
  /\ leaving' = c
  /\ UNCHANGED <<sessionVars, now, queue, worker, heartbeat, clients, history>>

RemoveClientSessions ==
  /\ SweepSlot \/ SweepEnd
  /\ UNCHANGED <<sessionVars, now, queue, worker, heartbeat, clientVars,
                 history>>

\* ... and then the client: a visit that gets hold of its entry before it is
\* marked counts as begun before it is taken out of the map.
RemoveClientEnd ==
  /\ ~ClientSessionMutexFree
  /\ SlotsMutexFree
  /\ clients' = clients \ {leaving}
  /\ leaving' = NoClient
  /\ UNCHANGED <<tableVars, sessionVars, now, queue, worker, heartbeat,
                 history>>

RemoveClientStep == RemoveClientSessions \/ RemoveClientEnd

\* A datagram reaches a receive thread, which queues it by its endpoint.
Arrive(s, sequence) ==
  LET sender == PeerOf[s]
      p == PacketProcessor(sender, sequence)
  IN  /\ connection[s] # InvalidConnectionId
      /\ Len(queue[p]) < MaxQueue
      /\ Push(p, PacketTask(connection[s], sequence, sender))
      /\ UNCHANGED <<tableVars, sessionVars, now, worker, heartbeat, clientVars,
                     history>>
-----------------------------------------------------------------------------
(***************************************************************************)
(* A logic processor's thread.  Take pops the next task and makes the      *)
(* lookup most tasks start with; nothing else reads the popped queue in    *)
(* between.  The session found stays alive in the thread's shared_ptr even *)
(* when the table drops it.                                                *)
(***************************************************************************)
Goto(p, pc) == worker' = [worker EXCEPT ![p].pc = pc]

Finish(p) == worker' = [worker EXCEPT ![p] = Idle]

Authentic(s, task) == s # NoSession /\ PeerOf[s] = task.sender

Take(p) ==
  /\ worker[p].pc = "idle"
  /\ queue[p] # <<>>
  /\ SlotsMutexFree \/ Head(queue[p]).kind = "disconnect"
  /\ queue' = [queue EXCEPT ![p] = Tail(@)]
  /\ LET task == Head(queue[p])
         found == Find(task.connection)
         Hold(pc, s) ==
           worker' = [worker EXCEPT ![p] =
                        [pc |-> pc, task |-> task, session |-> s]]
     IN  \/ task.kind = "packet" /\ Authentic(found, task)
              /\ Hold("accept", found)
         \/ task.kind = "packet" /\ ~Authentic(found, task) /\ Finish(p)
         \/ task.kind = "timeout" /\ found # NoSession
              /\ Hold("validate", found)
         \/ task.kind = "timeout" /\ found = NoSession /\ Finish(p)
         \/ task.kind = "disconnect" /\ Hold("release", NoSession)
  /\ UNCHANGED <<tableVars, sessionVars, now, heartbeat, clientVars, history>>

\* Session::AcceptSequence, under replayMutex.
AcceptSequence(p) ==
  LET s == worker[p].session
      sequence == worker[p].task.sequence
  IN  /\ worker[p].pc = "accept"
      /\ \/ /\ Acceptable(replay[s], sequence)
            /\ replay' = [replay EXCEPT ![s] = Accepted(@, sequence)]
            /\ accepted' = [accepted EXCEPT ![s] = Append(@, sequence)]
            /\ Goto(p, "mark")
         \/ /\ ~Acceptable(replay[s], sequence)
            /\ Finish(p)
            /\ UNCHANGED <<replay, accepted>>
      /\ UNCHANGED <<tableVars, connection, lastReceived, now, queue,
                     heartbeat, clientVars, delivered>>

\* Session::MarkReceivedNow, under activityMutex.
MarkReceivedNow(p) ==
  /\ worker[p].pc = "mark"
  /\ lastReceived' = [lastReceived EXCEPT ![worker[p].session] = now]
  /\ Goto(p, "dispatch")
  /\ UNCHANGED <<tableVars, connection, replay, now, queue, heartbeat,
                 clientVars, history>>

\* The rest of AuthenticateAndDispatchPacket: a heartbeat is done, a
\* disconnect is queued where its connection id says, the rest is the client's
\* if a visit gets into it, and lost if it was removed since AcceptSequence.
Dispatch(p) ==
  LET s == worker[p].session
      task == worker[p].task
      type == PacketTypeOf(s, task.sequence)
  IN  /\ worker[p].pc = "dispatch"
      /\ \/ type = "heartbeat" /\ UNCHANGED <<queue, delivered>>
         \/ /\ type = "disconnect"
            /\ Push(DisconnectAffinity(task.connection),
                    DisconnectTask(task.connection))
            /\ UNCHANGED delivered
         \/ /\ type = "data" /\ Owner[s] \notin clients
            /\ UNCHANGED <<queue, delivered>>
         \/ /\ type = "data" /\ Owner[s] \in clients
            /\ delivered' = [delivered EXCEPT ![s] = Append(@, task.sequence)]
            /\ UNCHANGED queue
      /\ Finish(p)
      /\ UNCHANGED <<tableVars, sessionVars, now, heartbeat, clientVars,
                     accepted>>

\* Mutant: the request is taken at its word.
ValidateTimeoutNot(p) ==
  /\ worker[p].pc = "validate"
  /\ Goto(p, "release")
  /\ UNCHANGED <<tableVars, sessionVars, now, queue, heartbeat, clientVars,
                 history>>

\* ProcessClientDisconnect: HasTimedOut once more, at the time of the scan.
ValidateTimeout(p) ==
  /\ worker[p].pc = "validate"
  /\ \/ HasTimedOut(worker[p].session, worker[p].task.requested)
          /\ Goto(p, "release")
     \/ ~HasTimedOut(worker[p].session, worker[p].task.requested) /\ Finish(p)
  /\ UNCHANGED <<tableVars, sessionVars, now, queue, heartbeat, clientVars,
                 history>>

\* ProcessClientDisconnect: RemoveClientSession, whatever became of the id.
ReleaseSession(p) ==
  LET id == worker[p].task.connection
  IN  /\ worker[p].pc = "release"
      /\ SlotsMutexFree
      /\ \/ Release(id)
         \/ ~Releasable(id) /\ UNCHANGED tableVars
      /\ Finish(p)
      /\ UNCHANGED <<sessionVars, now, queue, heartbeat, clientVars, history>>
-----------------------------------------------------------------------------
\* RequestTimedOutSessionDisconnects: read the clock, ...
ScanBegin ==
  /\ heartbeat.pc = "asleep"
  /\ Cardinality(TimeoutTasks) < MaxTimeoutTasks
  /\ heartbeat' = [heartbeat EXCEPT !.pc = "snapshot", !.scanTime = now]
  /\ UNCHANGED <<tableVars, sessionVars, now, queue, worker, clientVars,
                 history>>

NextTarget ==
  CHOOSE t \in heartbeat.targets :
    \A u \in heartbeat.targets : GetIndex(t[1]) <= GetIndex(u[1])

\* The scan goes on with what is left, or its thread goes back to sleep.
ScanOn(targets) ==
  heartbeat' = IF targets = {} THEN Asleep
               ELSE [heartbeat EXCEPT !.pc = "check", !.targets = targets]

\* ... copy the table, ...
ScanSnapshot ==
  /\ heartbeat.pc = "snapshot"
  /\ SlotsMutexFree
  /\ ScanOn(ActiveSnapshot)
  /\ UNCHANGED <<tableVars, sessionVars, now, queue, worker, clientVars,
                 history>>

\* ... and in its order test each session, ...
ScanCheck ==
  /\ heartbeat.pc = "check"
  /\ \/ /\ HasTimedOut(NextTarget[2], heartbeat.scanTime)
        /\ heartbeat' = [heartbeat EXCEPT !.pc = "push"]
     \/ /\ ~HasTimedOut(NextTarget[2], heartbeat.scanTime)
        /\ ScanOn(heartbeat.targets \ {NextTarget})
  /\ UNCHANGED <<tableVars, sessionVars, now, queue, worker, clientVars,
                 history>>

\* ... then ask the logic processor of its id to disconnect it.
ScanPush ==
  /\ heartbeat.pc = "push"
  /\ LET id == NextTarget[1]
     IN  Push(DisconnectAffinity(id), TimeoutTask(id, heartbeat.scanTime))
  /\ ScanOn(heartbeat.targets \ {NextTarget})
  /\ UNCHANGED <<tableVars, sessionVars, now, worker, clientVars, history>>

HeartbeatStep == ScanBegin \/ ScanSnapshot \/ ScanCheck \/ ScanPush

LogicStep(p) ==
  \/ Take(p)
  \/ AcceptSequence(p)
  \/ MarkReceivedNow(p)
  \/ Dispatch(p)
  \/ ValidateTimeout(p)
  \/ ReleaseSession(p)

Next ==
  \/ Tick
  \/ \E s \in Sessions : Register(s) \/ RemoveSession(s)
  \/ \E c \in Clients : RemoveClientBegin(c)
  \/ RemoveClientStep
  \/ \E s \in Sessions : \E n \in DOMAIN PacketTypes[PeerOf[s]] : Arrive(s, n)
  \/ \E p \in LogicProcessors : LogicStep(p)
  \/ HeartbeatStep

(***************************************************************************)
(* The operating system runs every thread and the clock, and a removal of  *)
(* a client that has begun; nothing else is assumed of the application,    *)
(* and nothing of the network.                                             *)
(***************************************************************************)
Fairness ==
  /\ WF_vars(Tick)
  /\ WF_vars(HeartbeatStep)
  /\ WF_vars(RemoveClientStep)
  /\ \A p \in LogicProcessors : WF_vars(LogicStep(p))

Spec == Init /\ [][Next]_vars /\ Fairness
-----------------------------------------------------------------------------
PacketTasks ==
  [kind : {"packet"}, connection : ConnectionIds, sequence : Nat,
   sender : Peers]
DisconnectTasks == [kind : {"disconnect"}, connection : ConnectionIds]
TimeoutRequests ==
  [kind : {"timeout"}, connection : ConnectionIds, requested : Nat]
Tasks == PacketTasks \cup DisconnectTasks \cup TimeoutRequests

\* What a logic thread works on, by the place it has reached.
Works ==
  [pc : {"accept", "mark", "dispatch"}, task : PacketTasks,
   session : Sessions]
  \cup [pc : {"validate", "release"}, task : TimeoutRequests,
        session : Sessions]
  \cup [pc : {"release"}, task : DisconnectTasks, session : {NoSession}]

(* Types: a thread that is past its lookup holds a session, one that is    *)
(* idle neither a task nor a session, and a scan under way has a target.   *)
TypeOK ==
  /\ TableTypeOK
  /\ connection \in [Sessions -> ConnectionIds]
  /\ replay \in [Sessions -> Windows]
  /\ lastReceived \in [Sessions -> Nat]
  /\ now \in Nat
  /\ queue \in [LogicProcessors -> Seq(Tasks)]
  /\ worker \in [LogicProcessors -> {Idle} \cup Works]
  /\ heartbeat \in [pc : {"asleep", "snapshot", "check", "push"},
                    scanTime : Nat,
                    targets : SUBSET (ConnectionIds \X Sessions)]
  /\ heartbeat.pc \in {"check", "push"} => heartbeat.targets # {}
  /\ clients \subseteq Clients
  /\ leaving \in Clients \cup {NoClient}
  /\ accepted \in [Sessions -> Seq(Nat)]
  /\ delivered \in [Sessions -> Seq(Nat)]

(* A thread works on a session for a task addressed to that very session:  *)
(* a late datagram or a late request that carries the id of an earlier     *)
(* session never reaches the one that took its slot, the same peer's       *)
(* included.                                                               *)
TaskReachesItsSession ==
  \A p \in LogicProcessors :
    worker[p].session # NoSession =>
      connection[worker[p].session] = worker[p].task.connection

IsData(s, sequence) == PacketTypeOf(s, sequence) = "data"

\* The data packets of s between AcceptSequence and its client.
InHand(s) ==
  {p \in LogicProcessors :
     /\ worker[p].session = s
     /\ worker[p].pc \in {"mark", "dispatch"}
     /\ IsData(s, worker[p].task.sequence)}

\* Where in accepted[s] the data is that its client must have by now: all
\* of it, but the last number accepted while a thread has that in hand.
DataDue(s) ==
  {k \in DOMAIN accepted[s] :
     /\ IsData(s, accepted[s][k])
     /\ k = Len(accepted[s]) => InHand(s) = {}}

\* The how manieth of the data due k is.
Rank(s, k) == Cardinality({j \in DataDue(s) : j <= k})

(* The client gets what the replay window accepted once, in the order of   *)
(* acceptance, because every packet of an endpoint goes to one logic       *)
(* processor: the n-th packet delivered is the n-th data packet due and    *)
(* nothing else is delivered.  While the client is there nothing is        *)
(* missing; one that is gone has a beginning of what is due, without a gap.*)
DispatchFollowsAcceptance ==
  \A s \in Sessions :
    /\ Cardinality(InHand(s)) <= 1
    /\ Len(delivered[s]) <= Cardinality(DataDue(s))
    /\ Owner[s] \in clients => Len(delivered[s]) = Cardinality(DataDue(s))
    /\ \A k \in DataDue(s) :
         Rank(s, k) <= Len(delivered[s]) =>
           delivered[s][Rank(s, k)] = accepted[s][k]

\* The data accepted ahead of the k-th packet of s is with the client.
DataBefore(s, k) ==
  \A j \in 1 .. k - 1 :
    IsData(s, accepted[s][j]) =>
      \E d \in DOMAIN delivered[s] : delivered[s][d] = accepted[s][j]

\* The peer of s sent a disconnect, after data that is with the client.
PeerLeft(s) ==
  \E k \in DOMAIN accepted[s] :
    PacketTypeOf(s, accepted[s][k]) = "disconnect" /\ DataBefore(s, k)

\* Thread p takes s out of the table in this step.
TakesAway(p, s) ==
  /\ worker[p].pc = "release" /\ worker[p] # worker'[p]
  /\ s \in ActiveSessions /\ s \notin ActiveSessions'

(* A logic thread takes a session away only for a task about that session, *)
(* and for a disconnect only when this session's peer sent one and all the *)
(* data accepted ahead of it is with the client: the request may be late   *)
(* and its slot another session's by then.                                 *)
RemovalHasItsReason ==
  [][\A p \in LogicProcessors, s \in Sessions : TakesAway(p, s) =>
       /\ worker[p].task.connection = connection[s]
       /\ worker[p].task.kind = "disconnect" => PeerLeft(s)]_vars

\* Packets and disconnect requests of s run on the same logic processor.
CoLocated(s) == PacketAffinity[PeerOf[s]] = DisconnectAffinity(connection[s])

IdleSinceScan(p, s) ==
  worker[p].task.kind = "timeout" =>
    HasTimedOut(s, worker[p].task.requested)

(* A session removed for a timeout is still timed out when it is removed,  *)
(* if its packets are processed by the thread that removes it: the second  *)
(* HasTimedOut and the removal have no packet of it between them.          *)
CoLocatedTimeoutIsCurrent ==
  [][\A p \in LogicProcessors, s \in Sessions :
       TakesAway(p, s) /\ CoLocated(s) => IdleSinceScan(p, s)]_vars

(* The same of every session, as the architecture document draws it: a     *)
(* request returns to Active when "timeout validation fails"               *)
(* (Docs/Architecture.md:161).  When its packets run on another logic      *)
(* processor one can be accepted between the validation and the removal.   *)
TimeoutIsCurrent ==
  [][\A p \in LogicProcessors, s \in Sessions :
       TakesAway(p, s) => IdleSinceScan(p, s)]_vars

(* A session its peer is silent on goes away, unless the clock the model   *)
(* stops at MaxTime has no room left for its timeout.                      *)
SilentSessionGoes ==
  \A s \in Sessions : \A t \in 0 .. MaxTime - Timeout :
    (s \in ActiveSessions /\ lastReceived[s] = t)
      ~> (s \notin ActiveSessions \/ lastReceived[s] # t)

(* A session whose peer's disconnect packet was accepted goes away.        *)
DisconnectedSessionGoes ==
  \A s \in Sessions :
    (\E k \in DOMAIN accepted[s] :
       PacketTypeOf(s, accepted[s][k]) = "disconnect")
      ~> s \notin ActiveSessions
=============================================================================
