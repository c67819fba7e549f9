----------------------------- MODULE Processor -----------------------------
(***************************************************************************)
(* ProcessorBase (ProcessorBase.h/.cpp), the base of the four processors:  *)
(* a task queue, a worker thread that runs its tasks, a second thread that *)
(* a derived class may start (the "loop"), and Start and Stop.  Each       *)
(* critical section, each access to an atomic and each join is an action.  *)
(*                                                                         *)
(* Any thread may push tasks and call Start and Stop: a caller outside the *)
(* processor, a task that is being run by the worker, or the loop.         *)
(*                                                                         *)
(* Tasks are numbered in the order they are accepted.  What a derived      *)
(* class adds is left open here: its StartImpl may start the loop or not   *)
(* or fail, and its loop ends when it sees needStop, or by an exception.   *)
(***************************************************************************)
EXTENDS Integers, Sequences, Functions

CONSTANTS
  Callers,         \* threads outside the processor
  Worker,          \* processTaskThread
  Loop,            \* processorThread
  MaxTasks,        \* bound: tasks accepted
  MaxStarts        \* bound: calls of Start that begin one

ASSUME ProcessorAssumption ==
  /\ Worker # Loop
  /\ Worker \notin Callers /\ Loop \notin Callers
  /\ MaxTasks \in Nat /\ MaxStarts \in Nat

Threads == Callers \cup {Worker, Loop}

VARIABLES
  state,           \* EState
  needStop,
  queue,           \* taskQueue
  worker,          \* where the worker is; "none" when it is not joinable
  loop,            \* the same of the loop
  pc,              \* [Threads -> where its call of the processor is]
  accepted,        \* history: tasks accepted so far
  ran,             \* history: tasks taken by a worker
  dropped,         \* history: tasks thrown away with the queue
  starts,          \* starts begun so far
  startFailed      \* history: the last start failed

taskVars == <<accepted, ran, dropped>>
vars == <<state, needStop, queue, worker, loop, pc, taskVars, starts,
          startFailed>>

States == {"Stopped", "Starting", "Running", "Stopping"}
WorkerPcs == {"none", "check", "asleep", "task", "exited"}
LoopPcs == {"none", "running", "exited"}
StartPcs == {"startImpl", "startWorker", "started", "fail"}
StopPcs == {"stopImpl", "joinLoop", "afterLoop", "notifyAll", "joinWorker",
            "clear", "stopped"}

Init ==
  /\ state = "Stopped"
  /\ needStop = FALSE
  /\ queue = <<>>
  /\ worker = "none"
  /\ loop = "none"
  /\ pc = [t \in Threads |-> "out"]
  /\ accepted = 0 /\ ran = {} /\ dropped = {}
  /\ starts = 0
  /\ startFailed = FALSE

\* Worker and loop call the processor from inside a task or a loop's turn.
CanCall(t) ==
  /\ pc[t] = "out"
  /\ t = Worker => worker = "task"
  /\ t = Loop => loop = "running"

\* Thread t's call goes on from one place to the next.
Goes(t, at) == pc' = [pc EXCEPT ![t] = at]
GoesOn(t, from, at) == pc[t] = from /\ Goes(t, at)
-----------------------------------------------------------------------------
\* Mutant: a stopping processor still takes tasks.
AcceptingUnlessStopped == state # "Stopped"
Accepting == state \in {"Starting", "Running"}

\* PushTaskToProcessor: under messageQueueMutex, ...
Push(t) ==
  /\ CanCall(t)
  /\ Accepting
  /\ accepted < MaxTasks
  /\ accepted' = accepted + 1
  /\ queue' = Append(queue, accepted + 1)
  /\ Goes(t, "notifyOne")
  /\ UNCHANGED <<state, needStop, worker, loop, ran, dropped, starts,
                 startFailed>>

\* What a notification of messageQueueCV does: the worker alone waits there.
\* Mutant: it finds nobody.
WakeNobody == UNCHANGED worker
Wake == worker' = IF worker = "asleep" THEN "check" ELSE worker

\* ... then notify_one, with no mutex held.
NotifyOne(t) ==
  /\ GoesOn(t, "notifyOne", "out")
  /\ Wake
  /\ UNCHANGED <<state, needStop, queue, loop, taskVars, starts, startFailed>>
-----------------------------------------------------------------------------
\* Mutant: a start that is under way is no obstacle.
StartableUnlessRunning == state # "Running"
Startable == state = "Stopped"

\* Start, its critical section of lifecycleMutex.
StartBegin(t) ==
  /\ CanCall(t)
  /\ Startable
  /\ starts < MaxStarts
  /\ state' = "Starting"
  /\ needStop' = FALSE
  /\ starts' = starts + 1
  /\ startFailed' = FALSE
  /\ Goes(t, "startImpl")
  /\ UNCHANGED <<queue, worker, loop, taskVars>>

\* StartImpl of the derived class, with or without StartProcessorThread.
StartImpl(t) ==
  /\ pc[t] = "startImpl"
  /\ \/ Goes(t, "startWorker") /\ loop' \in {"none", "running"}
     \/ Goes(t, "fail") /\ UNCHANGED loop
  /\ UNCHANGED <<state, needStop, queue, worker, taskVars, starts,
                 startFailed>>

\* The worker is created, or the creation throws.
StartWorker(t) ==
  /\ pc[t] = "startWorker"
  /\ \/ Goes(t, "started") /\ worker' = "check"
     \/ Goes(t, "fail") /\ UNCHANGED worker
  /\ UNCHANGED <<state, needStop, queue, loop, taskVars, starts, startFailed>>

StartEnd(t) ==
  /\ GoesOn(t, "started", "out")
  /\ state' = "Running"
  /\ UNCHANGED <<needStop, queue, worker, loop, taskVars, starts,
                 startFailed>>

\* The catch block: from here on as Stop does.
StartFail(t) ==
  /\ GoesOn(t, "fail", "stopImpl")
  /\ state' = "Stopping"
  /\ needStop' = TRUE
  /\ startFailed' = TRUE
  /\ UNCHANGED <<queue, worker, loop, taskVars, starts>>
-----------------------------------------------------------------------------
\* Mutant: only the worker is known, not the derived class's thread.
IsCurrentWorker(t) == t = Worker
IsCurrentThread(t) == t \in {Worker, Loop}

\* Stop, its critical section of lifecycleMutex and messageQueueMutex.
StopBegin(t) ==
  /\ CanCall(t)
  /\ state = "Running"
  /\ ~IsCurrentThread(t)
  /\ state' = "Stopping"
  /\ needStop' = TRUE
  /\ Goes(t, "stopImpl")
  /\ UNCHANGED <<queue, worker, loop, taskVars, starts, startFailed>>

\* StopImpl of the derived class.
StopImpl(t) ==
  /\ GoesOn(t, "stopImpl", "joinLoop")
  /\ UNCHANGED <<state, needStop, queue, worker, loop, taskVars, starts,
                 startFailed>>

\* StopThreads: join the loop if there is one, ...
JoinLoop(t) ==
  /\ GoesOn(t, "joinLoop", "afterLoop")
  /\ loop # "running"
  /\ loop' = "none"
  /\ UNCHANGED <<state, needStop, queue, worker, taskVars, starts,
                 startFailed>>

\* ... StopAfterProcessorThreadImpl of the derived class, ...
StopAfterLoop(t) ==
  /\ GoesOn(t, "afterLoop", IF worker = "none" THEN "clear" ELSE "notifyAll")
  /\ UNCHANGED <<state, needStop, queue, worker, loop, taskVars, starts,
                 startFailed>>

\* ... wake the worker if there is one ...
NotifyAll(t) ==
  /\ GoesOn(t, "notifyAll", "joinWorker")
  /\ Wake
  /\ UNCHANGED <<state, needStop, queue, loop, taskVars, starts, startFailed>>

\* ... and join it, ...
JoinWorker(t) ==
  /\ GoesOn(t, "joinWorker", "clear")
  /\ worker = "exited"
  /\ worker' = "none"
  /\ UNCHANGED <<state, needStop, queue, loop, taskVars, starts, startFailed>>

\* ... and throw away what is left in the queue.
Clear(t) ==
  /\ GoesOn(t, "clear", "stopped")
  /\ dropped' = dropped \cup Range(queue)
  /\ queue' = <<>>
  /\ UNCHANGED <<state, needStop, worker, loop, accepted, ran, starts,
                 startFailed>>

StopEnd(t) ==
  /\ GoesOn(t, "stopped", "out")
  /\ state' = "Stopped"
  /\ UNCHANGED <<needStop, queue, worker, loop, taskVars, starts,
                 startFailed>>
-----------------------------------------------------------------------------
\* Mutants: the worker takes the newest task; it waits for a task only and
\* not for the end.
TakeNewest ==
  /\ ran' = ran \cup {queue[Len(queue)]}
  /\ queue' = SubSeq(queue, 1, Len(queue) - 1)
TakeOldest ==
  /\ ran' = ran \cup {Head(queue)}
  /\ queue' = Tail(queue)


SleepsWhenEmpty == queue = <<>>
Sleeps == queue = <<>> /\ ~needStop

\* The worker holds messageQueueMutex: it takes a task and drops the mutex
\* to run it, or it ends, or it waits, which drops the mutex too.  It is
\* the same after a wakeup, after a task and at the beginning.
WorkerCheck ==
  /\ worker = "check"
  /\ \/ Sleeps /\ worker' = "asleep" /\ UNCHANGED <<queue, ran>>
     \/ /\ ~Sleeps /\ needStop /\ queue = <<>>
        /\ worker' = "exited" /\ UNCHANGED <<queue, ran>>
     \/ queue # <<>> /\ worker' = "task" /\ TakeOldest
  /\ UNCHANGED <<state, needStop, loop, pc, accepted, dropped, starts,
                 startFailed>>

\* ProcessTask returns or throws.
TaskEnd ==
  /\ worker = "task"
  /\ pc[Worker] = "out"
  /\ worker' = "check"
  /\ UNCHANGED <<state, needStop, queue, loop, pc, taskVars, starts,
                 startFailed>>

\* A condition variable may wake a thread that nobody notified.
SpuriousWakeup ==
  /\ worker = "asleep"
  /\ worker' = "check"
  /\ UNCHANGED <<state, needStop, queue, loop, pc, taskVars, starts,
                 startFailed>>

\* The loop sees needStop, or an exception that RunProcessorThread catches
\* ends it early.
LoopLeaves ==
  /\ loop = "running"
  /\ pc[Loop] = "out"
  /\ loop' = "exited"
  /\ UNCHANGED <<state, needStop, queue, worker, pc, taskVars, starts,
                 startFailed>>
LoopEnd == needStop /\ LoopLeaves
LoopThrows == ~needStop /\ LoopLeaves
-----------------------------------------------------------------------------
LifecycleStep(t) ==
  \/ StartImpl(t) \/ StartWorker(t) \/ StartEnd(t) \/ StartFail(t)
  \/ StopImpl(t) \/ JoinLoop(t) \/ StopAfterLoop(t) \/ NotifyAll(t)
  \/ JoinWorker(t) \/ Clear(t) \/ StopEnd(t)

CallStep(t) == NotifyOne(t) \/ LifecycleStep(t)
WorkerStep == WorkerCheck \/ TaskEnd

Next ==
  \/ \E t \in Threads : Push(t) \/ StartBegin(t) \/ StopBegin(t)
  \/ \E t \in Threads : CallStep(t)
  \/ WorkerStep \/ SpuriousWakeup \/ LoopEnd \/ LoopThrows

\* Threads that can run do, tasks return, and the derived class's loop looks
\* at needStop again and again.  Nobody has to call.
Fairness ==
  /\ \A t \in Threads : WF_vars(CallStep(t))
  /\ WF_vars(WorkerStep)
  /\ WF_vars(LoopEnd)

Spec == Init /\ [][Next]_vars
FairSpec == Spec /\ Fairness
-----------------------------------------------------------------------------
(* Types; the processor's own threads make calls only while they run a     *)
(* task or a turn of the loop, and never one that would join themselves.   *)
TypeOK ==
  /\ state \in States
  /\ needStop \in BOOLEAN
  /\ queue \in Seq(1 .. accepted)
  /\ worker \in WorkerPcs
  /\ loop \in LoopPcs
  /\ pc \in [Threads -> {"out", "notifyOne"} \cup StartPcs \cup StopPcs]
  /\ accepted \in Nat
  /\ ran \subseteq 1 .. accepted
  /\ dropped \subseteq 1 .. accepted
  /\ starts \in Nat
  /\ startFailed \in BOOLEAN
  /\ pc[Worker] # "out" => worker = "task" /\ pc[Worker] = "notifyOne"
  /\ pc[Loop] # "out" => loop = "running" /\ pc[Loop] = "notifyOne"

InLifecycle(t) == pc[t] \in StartPcs \cup StopPcs

(* Starting and stopping exclude one another although lifecycleMutex is    *)
(* held for their first lines only: one thread at a time is inside, just   *)
(* as long as the state says so, and a processor that is Stopped has no    *)
(* thread and no task left over for its next start.                        *)
LifecycleIsExclusive ==
  /\ \A t, u \in Threads : InLifecycle(t) /\ InLifecycle(u) => t = u
  /\ state = "Starting" <=> \E t \in Threads : pc[t] \in StartPcs
  /\ state = "Stopping" <=> \E t \in Threads : pc[t] \in StopPcs
  /\ state = "Stopped" => worker = "none" /\ loop = "none" /\ queue = <<>>

(* Tasks run once each and in the order they were accepted in, across      *)
(* restarts too: every task is in the queue, taken or thrown away, one in  *)
(* the queue is younger than those before it and than all that have left.  *)
TasksInOrder ==
  /\ 1 .. accepted = Range(queue) \cup ran \cup dropped
  /\ \A i, j \in DOMAIN queue : i < j => queue[i] < queue[j]
  /\ \A i \in DOMAIN queue : \A n \in ran \cup dropped : n < queue[i]
  /\ ran \cap dropped = {}

(* No wakeup is lost: when the worker sleeps although there is a task or   *)
(* it should end, some thread has yet to notify it.                        *)
NoLostWakeup ==
  worker = "asleep" =>
    /\ queue # <<>> => \E t \in Threads : pc[t] = "notifyOne"
    /\ needStop => \E t \in Threads :
         pc[t] \in {"stopImpl", "joinLoop", "afterLoop", "notifyAll"}

(* A task that was accepted (PushTaskToProcessor returned true) has run by *)
(* the time Stop returns: StopThreads finds nothing to throw away, unless  *)
(* it is the start that failed and let the task in.                        *)
StopDropsNothing == [][dropped' # dropped => startFailed]_vars

(* The processor keeps the promise its manager relies on (Service): while  *)
(* it is Running its worker lives, and when Stop or a failed start is done *)
(* none of its threads is left.                                            *)
Active == worker \in {"check", "asleep", "task"} \/ loop = "running"
Manageable == INSTANCE Service WITH state <- state, active <- Active
ImplementsService == Manageable!Spec

(* A call of Start or Stop that began comes to its end: nobody joins his   *)
(* own thread, and the threads that are joined end.                        *)
LifecycleCallsReturn ==
  \A t \in Threads : InLifecycle(t) ~> pc[t] = "out"

(* A task that is accepted gets taken, or falls to a failed start.         *)
AcceptedTaskRuns ==
  \A n \in 1 .. MaxTasks : n <= accepted ~> n \in ran \cup dropped
=============================================================================
