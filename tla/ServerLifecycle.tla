-------------------------- MODULE ServerLifecycle --------------------------
(***************************************************************************)
(* Starting and stopping a server: ServerCore::Start and Stop, Winsock,    *)
(* ProcessorManager::Start and Stop, and the processors, each as far as    *)
(* Service promises.  Any thread may call: one of the application's own,   *)
(* or a thread of the server that runs application code, in a packet       *)
(* handler on a logic processor or in a callback of the ticker.  Every     *)
(* critical section of a lifecycleMutex, every store to a state and every  *)
(* processor's start or stop is an action; no mutex is held across two.    *)
(***************************************************************************)
EXTENDS Integers

CONSTANTS
  Callers,         \* the application's threads
  LogicCount,      \* logicProcessorCount
  IoCount          \* ioProcessorCount

\* processorGroup: a processor is its type and its index in the group.
Processors ==
  ({"Logic"} \X (1 .. LogicCount)) \cup ({"IO"} \X (1 .. IoCount))
  \cup {<<"TICKER", 1>>, <<"HEARTBEAT", 1>>}

Group(type) == {p \in Processors : p[1] = type}

\* Who may call the server: a logic processor's worker, the ticker's loop.
ServerThreads == Group("Logic") \cup Group("TICKER")
Threads == Callers \cup ServerThreads

ASSUME LifecycleAssumption ==
  /\ LogicCount \in Nat \ {0} /\ IoCount \in Nat \ {0}
  /\ Callers \cap Processors = {}

VARIABLES
  core,            \* ServerCore::state
  winsock,         \* WSAStartup is in force
  configurationValid,
  manager,         \* ProcessorManager::state
  service,         \* [Processors -> state of the processor]
  active,          \* [Processors -> BOOLEAN]: one of its threads may run
  pc,              \* [Threads -> where its call of Start or Stop is]
  todo             \* [Threads -> SUBSET Processors]: what is left of the loop
                   \*   over the groups

coreVars == <<core, winsock, configurationValid>>
processorVars == <<service, active>>
managerVars == <<manager, processorVars, todo>>
vars == <<coreVars, managerVars, pc>>

States == {"Stopped", "Starting", "Running", "Stopping"}

Init ==
  /\ core = "Stopped"
  /\ winsock = FALSE
  /\ configurationValid \in BOOLEAN
  /\ manager = "Stopped"
  /\ service = [p \in Processors |-> "Stopped"]
  /\ active = [p \in Processors |-> FALSE]
  /\ pc = [t \in Threads |-> "out"]
  /\ todo = [t \in Threads |-> {}]

\* A thread of the server calls from a task or a callback it is running.
CanCall(t) == pc[t] = "out" /\ (t \in ServerThreads => active[t])

Goes(t, at) == pc' = [pc EXCEPT ![t] = at]
GoesOn(t, from, at) == pc[t] = from /\ Goes(t, at)

\* Thread t's loop has these processors before it, or is done with p.
Reaches(t, processors) == todo' = [todo EXCEPT ![t] = processors]
DoneWith(t, p) == todo' = [todo EXCEPT ![t] = @ \ {p}]

Becomes(p, state) == service' = [service EXCEPT ![p] = state]

\* startOrder and stopOrder.  Mutant: what is started first is stopped first.
StartRank == [Logic |-> 1, TICKER |-> 2, HEARTBEAT |-> 3, IO |-> 4]
StopRankAsStarted == StartRank
StopRank == [IO |-> 1, TICKER |-> 2, HEARTBEAT |-> 3, Logic |-> 4]

\* p is the next processor in the order, then by index, that t's loop meets.
IsNext(t, p, rank) ==
  /\ p \in todo[t]
  /\ \A q \in todo[t] \ {p} :
       rank[p[1]] < rank[q[1]] \/ (p[1] = q[1] /\ p[2] < q[2])
-----------------------------------------------------------------------------
\* Mutant: a server that is being stopped may be started.
StartableUnlessRunning == core \in {"Stopped", "Stopping"}
Startable == core = "Stopped"

\* ServerCore::Start, its first critical section; otherwise it is refused.
StartBegin(t) ==
  /\ CanCall(t)
  /\ Startable
  /\ core' = "Starting"
  /\ Goes(t, "wsaStartup")
  /\ UNCHANGED <<winsock, configurationValid, managerVars>>

WsaStartup(t) ==
  /\ pc[t] = "wsaStartup"
  /\ \/ Goes(t, "managerStart") /\ winsock' = TRUE
     \/ Goes(t, "coreStopped") /\ UNCHANGED winsock
  /\ UNCHANGED <<core, configurationValid, managerVars>>

\* ProcessorManager::Start.
ManagerStart(t) ==
  /\ pc[t] = "managerStart"
  /\ \/ /\ manager = "Stopped" /\ configurationValid
        /\ manager' = "Starting"
        /\ Reaches(t, Processors)
        /\ Goes(t, "starting")
     \/ /\ ~(manager = "Stopped" /\ configurationValid)
        /\ Goes(t, "cleanup")
        /\ UNCHANGED <<manager, todo>>
  /\ UNCHANGED <<coreVars, processorVars>>

\* ProcessorBase::Start of the next processor: it begins, a thread of it
\* runs, and it is Running; or it fails at some point and stops itself.
StartProcessor(t) ==
  /\ \E p \in Processors :
       /\ IsNext(t, p, StartRank)
       /\ \/ /\ GoesOn(t, "starting", "startingOne")
             /\ service[p] = "Stopped" /\ Becomes(p, "Starting")
             /\ UNCHANGED <<active, todo>>
          \/ /\ pc[t] = "startingOne" /\ ~active[p]
             /\ active' = [active EXCEPT ![p] = TRUE]
             /\ UNCHANGED <<service, pc, todo>>
          \/ /\ GoesOn(t, "startingOne", "starting") /\ active[p]
             /\ Becomes(p, "Running") /\ DoneWith(t, p)
             /\ UNCHANGED active
          \/ /\ GoesOn(t, "startingOne", "failing")
             /\ Becomes(p, "Stopping")
             /\ UNCHANGED <<active, todo>>
          \/ /\ GoesOn(t, "failing", "failed") /\ ~active[p]
             /\ Becomes(p, "Stopped")
             /\ UNCHANGED <<active, todo>>
  /\ UNCHANGED <<coreVars, manager>>

\* The processors started before it are stopped.  Mutant: they are not.
RollBackNothing(t) ==
  /\ GoesOn(t, "failed", "stopping")
  /\ manager' = "Stopping"
  /\ Reaches(t, {})
  /\ UNCHANGED <<coreVars, processorVars>>
RollBack(t) ==
  /\ GoesOn(t, "failed", "stopping")
  /\ manager' = "Stopping"
  /\ Reaches(t, Processors)
  /\ UNCHANGED <<coreVars, processorVars>>

ManagerStarted(t) ==
  /\ GoesOn(t, "starting", "started")
  /\ todo[t] = {}
  /\ manager' = "Running"
  /\ UNCHANGED <<coreVars, processorVars, todo>>
-----------------------------------------------------------------------------
\* ServerCore::Stop, its first critical section; otherwise there is nothing
\* to do, or it is refused.
StopBegin(t) ==
  /\ CanCall(t)
  /\ core = "Running"
  /\ core' = "Stopping"
  /\ Goes(t, "managerStop")
  /\ UNCHANGED <<winsock, configurationValid, managerVars>>

\* Mutant: the manager does not ask whose thread calls.
MayStopAnyone(t) == manager = "Running"
MayStop(t) == manager = "Running" /\ t \notin Processors

\* ProcessorManager::Stop refuses a thread that it would have to join.
ManagerStop(t) ==
  /\ pc[t] = "managerStop"
  /\ \/ /\ MayStop(t)
        /\ manager' = "Stopping"
        /\ Reaches(t, Processors)
        /\ Goes(t, "stopping")
     \/ /\ ~MayStop(t)
        /\ Goes(t, IF manager = "Stopped" THEN "cleanup" ELSE "refused")
        /\ UNCHANGED <<manager, todo>>
  /\ UNCHANGED <<coreVars, processorVars>>

\* Mutant: a refused stop leaves the state as it is.
AfterRefusalStill == "Stopping"
AfterRefusal == "Running"

\* StopAllProcessors: the next one is told to stop and its threads are
\* joined, unless it is not running or t is one of its threads.
StopProcessor(t) ==
  /\ \E p \in Processors :
       /\ IsNext(t, p, StopRank)
       /\ \/ /\ GoesOn(t, "stopping", "joining")
             /\ service[p] = "Running" /\ p # t
             /\ Becomes(p, "Stopping")
             /\ UNCHANGED todo
          \/ /\ pc[t] = "stopping"
             /\ ~(service[p] = "Running" /\ p # t)
             /\ DoneWith(t, p)
             /\ UNCHANGED <<service, pc>>
          \/ /\ GoesOn(t, "joining", "stopping") /\ ~active[p]
             /\ Becomes(p, "Stopped") /\ DoneWith(t, p)
  /\ UNCHANGED <<coreVars, manager, active>>

ManagerStopped(t) ==
  /\ GoesOn(t, "stopping", "cleanup")
  /\ todo[t] = {}
  /\ manager' = "Stopped"
  /\ UNCHANGED <<coreVars, processorVars, todo>>

\* WSACleanup, after a stop and after a start that failed.
Cleanup(t) ==
  /\ GoesOn(t, "cleanup", "coreStopped")
  /\ winsock' = FALSE
  /\ UNCHANGED <<core, configurationValid, managerVars>>

\* What ServerCore::Start and Stop leave behind, in their last lines.
CoreEnds(t) ==
  /\ \/ GoesOn(t, "started", "out") /\ core' = "Running"
     \/ GoesOn(t, "refused", "out") /\ core' = AfterRefusal
     \/ GoesOn(t, "coreStopped", "out") /\ core' = "Stopped"
  /\ UNCHANGED <<winsock, configurationValid, managerVars>>
-----------------------------------------------------------------------------
\* A processor that is stopping runs what it was running to its end.
Finish(p) ==
  /\ service[p] = "Stopping" /\ active[p]
  /\ p \in ServerThreads => pc[p] = "out"
  /\ active' = [active EXCEPT ![p] = FALSE]
  /\ UNCHANGED <<coreVars, manager, service, pc, todo>>

CallStep(t) ==
  \/ WsaStartup(t) \/ ManagerStart(t) \/ StartProcessor(t) \/ RollBack(t)
  \/ ManagerStarted(t) \/ ManagerStop(t) \/ StopProcessor(t)
  \/ ManagerStopped(t) \/ Cleanup(t) \/ CoreEnds(t)

Next ==
  \/ \E t \in Threads : StartBegin(t) \/ StopBegin(t) \/ CallStep(t)
  \/ \E p \in Processors : Finish(p)

Spec == Init /\ [][Next]_vars
-----------------------------------------------------------------------------
(* Types.                                                                  *)
TypeOK ==
  /\ core \in States /\ manager \in States
  /\ winsock \in BOOLEAN /\ configurationValid \in BOOLEAN
  /\ service \in [Processors -> States]
  /\ active \in [Processors -> BOOLEAN]
  /\ todo \in [Threads -> SUBSET Processors]

(* What a caller is told is so, although three levels keep a state each:   *)
(* a server that is Stopped has nothing left of a start that failed or of  *)
(* a stop, one that is Running runs in every part, also after a thread of  *)
(* its own was refused a stop, one thread at a time is in between, and     *)
(* meanwhile Winsock is there for every processor that may have a socket.  *)
ServerStateIsTrue ==
  /\ core = "Stopped" =>
       /\ manager = "Stopped" /\ ~winsock
       /\ \A p \in Processors : service[p] = "Stopped" /\ ~active[p]
  /\ core = "Running" =>
       /\ manager = "Running" /\ winsock
       /\ \A p \in Processors : service[p] = "Running" /\ active[p]
  /\ \A t, u \in Threads : pc[t] # "out" /\ pc[u] # "out" => t = u
  /\ \A p \in Group("IO") : service[p] # "Stopped" => winsock

(* A processor that pushes tasks to another finds it running, from its     *)
(* first turn to its last and in a start that fails too: what I/O receives *)
(* and what the heartbeat asks for is taken by the logic processors, once  *)
(* it is past the manager's own state, and while there is inbound traffic  *)
(* the heartbeat looks after the sessions (Docs/Architecture.md:276, 291). *)
WorkFindsItsProcessor ==
  \A p \in Processors : active[p] =>
    \A q \in Processors :
      \/ q[1] = "Logic" /\ p[1] # "Logic"
      \/ q[1] \in {"TICKER", "HEARTBEAT"} /\ p[1] = "IO"
      => service[q] = "Running"

(* A start or a stop that began is over some day, and the server can be    *)
(* started or stopped again: nobody waits for a thread that waits for him, *)
(* and a refused stop leaves no trace.                                     *)
TransitionsEnd ==
  core \in {"Starting", "Stopping"} ~> core \in {"Stopped", "Running"}
=============================================================================
