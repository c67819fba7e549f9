-------------------------- MODULE TickerProcessor --------------------------
(***************************************************************************)
(* TickerProcessor (TickerProcessor.h/.cpp, TickerTask.h): the processor   *)
(* with a clock.  Its tasks are callbacks with a time: the worker files    *)
(* them in a priority queue, and the loop calls those that are due at each *)
(* tick.  Every action of Processor is taken over, with what it does to    *)
(* the timers added.  A callback may call the processor it runs on.        *)
(***************************************************************************)
EXTENDS Processor, FiniteSets

CONSTANTS MaxTime  \* bound: time goes from 0 to MaxTime

ASSUME TickerAssumption == MaxTime \in Nat

VARIABLES
  now,             \* steady_clock
  fireTime,        \* [tasks -> time]: what a task is constructed with
  filing,          \* the task the worker is about to file, or 0
  timers,          \* tickerTaskQueue
  due,             \* tasksToFire, what is left of it
  tickAt,          \* where the loop is, while it is running
  cleared,         \* StopImpl has emptied the timers
  fired            \* history: tasks whose callback was called

timerVars == <<filing, timers, due, tickAt, cleared, fired>>
tickerVars == <<vars, now, fireTime, timerVars>>

TickerInit ==
  /\ Init
  /\ now = 0
  /\ fireTime \in [1 .. MaxTasks -> 0 .. MaxTime]
  /\ filing = 0
  /\ timers = {} /\ due = <<>> /\ fired = {}
  /\ tickAt = "top"
  /\ cleared = FALSE

Clock ==
  /\ now < MaxTime
  /\ now' = now + 1
  /\ UNCHANGED <<vars, fireTime, timerVars>>

\* The steps of Processor that do not touch the timers.
Untimed == UNCHANGED <<now, fireTime, timerVars>>
-----------------------------------------------------------------------------
\* StartImpl starts the loop or fails.
TickerStartImpl(t) ==
  /\ StartImpl(t)
  /\ pc'[t] = "fail" \/ loop' = "running"
  /\ tickAt' = "top"
  /\ UNCHANGED <<now, fireTime, filing, timers, due, cleared, fired>>

\* StopImpl empties the queue under tickerTaskQueueMutex ...
ClearTimers(t) ==
  /\ pc[t] = "stopImpl" /\ ~cleared
  /\ cleared' = TRUE
  /\ timers' = {}
  /\ UNCHANGED <<vars, now, fireTime, filing, due, tickAt, fired>>

\* ... then takes and drops tickerCallbackMutex, which waits for a callback
\* that is on.
TickerStopImpl(t) ==
  /\ cleared
  /\ tickAt # "callback"
  /\ StopImpl(t)
  /\ cleared' = FALSE
  /\ UNCHANGED <<now, fireTime, filing, timers, due, tickAt, fired>>
-----------------------------------------------------------------------------
\* ProcessTask, when the worker has taken a task.
TakeTimer ==
  /\ WorkerCheck
  /\ filing' = IF worker' = "task" THEN Head(queue) ELSE 0
  /\ UNCHANGED <<now, fireTime, timers, due, tickAt, cleared, fired>>

\* Mutant: a task is filed even while the processor stops.
FiledAlways == {filing}
Filed == IF needStop THEN {} ELSE {filing}

\* Under tickerTaskQueueMutex.
FileTimer ==
  /\ TaskEnd
  /\ timers' = timers \cup Filed
  /\ filing' = 0
  /\ UNCHANGED <<now, fireTime, due, tickAt, cleared, fired>>
-----------------------------------------------------------------------------
At(from, to) == loop = "running" /\ tickAt = from /\ tickAt' = to

\* RunTickerThread: the loop's condition, ...
TickTop ==
  /\ ~needStop
  /\ At("top", "wait")
  /\ UNCHANGED <<vars, now, fireTime, filing, timers, due, cleared, fired>>

TickLeaves ==
  /\ tickAt \in {"top", "wait"}
  /\ LoopEnd
  /\ Untimed

\* ... the wait for the next tick (or for StopImpl's notification, which no
\* one depends on, since the tick comes anyway), ...
DueAt(time) == {n \in timers : fireTime[n] <= time}

\* The orders in which a priority queue by fireTime may give up the tasks in
\* set S: by time, and in any order among equals.  Mutant: in any order.
AnyOrder(S) == {s \in [1 .. Cardinality(S) -> S] : Range(s) = S}
ByFireTime(S) ==
  {s \in [1 .. Cardinality(S) -> S] :
     /\ Range(s) = S
     /\ \A i, j \in DOMAIN s : i < j => fireTime[s[i]] <= fireTime[s[j]]}

\* Mutant: all are taken out, due or not.
NoneRemain == {}
Remaining == timers \ DueAt(now)

Tick ==
  /\ ~needStop
  /\ At("wait", "fire")
  /\ due' \in ByFireTime(DueAt(now))
  /\ timers' = Remaining
  /\ UNCHANGED <<vars, now, fireTime, filing, cleared, fired>>

\* ... and the callbacks, each under tickerCallbackMutex, unless a stop has
\* come in between.  Mutant: needStop is not looked at again.
StillFires == TRUE
Fires == ~needStop

FireBegin ==
  /\ due # <<>> /\ Fires
  /\ At("fire", "callback")
  /\ fired' = fired \cup {Head(due)}
  /\ due' = Tail(due)
  /\ UNCHANGED <<vars, now, fireTime, filing, timers, cleared>>

\* The callback returns or throws.
FireEnd ==
  /\ pc[Loop] = "out"
  /\ At("callback", "fire")
  /\ UNCHANGED <<vars, now, fireTime, filing, timers, due, cleared, fired>>

\* What has not been called is forgotten: tasksToFire.clear().
TickEnd ==
  /\ due = <<>> \/ ~Fires
  /\ At("fire", "top")
  /\ due' = <<>>
  /\ UNCHANGED <<vars, now, fireTime, filing, timers, cleared, fired>>
-----------------------------------------------------------------------------
TickerCallStep(t) ==
  \/ TickerStartImpl(t) \/ ClearTimers(t) \/ TickerStopImpl(t)
  \/ /\ \/ NotifyOne(t) \/ StartWorker(t) \/ StartEnd(t) \/ StartFail(t)
        \/ JoinLoop(t) \/ StopAfterLoop(t) \/ NotifyAll(t) \/ JoinWorker(t)
        \/ Clear(t) \/ StopEnd(t)
     /\ Untimed

TickStep == TickTop \/ TickLeaves \/ Tick \/ FireBegin \/ FireEnd \/ TickEnd
FileStep == TakeTimer \/ FileTimer

\* A callback may call; what files the timers does not.
InCallback(t) == t = Loop => tickAt = "callback"

TickerNext ==
  \/ \E t \in Callers \cup {Loop} :
       /\ InCallback(t)
       /\ Push(t) \/ StartBegin(t) \/ StopBegin(t)
       /\ Untimed
  \/ \E t \in Callers \cup {Loop} : TickerCallStep(t)
  \/ TickStep \/ FileStep \/ Clock
  \/ SpuriousWakeup /\ Untimed

TickerFairness ==
  /\ \A t \in Callers \cup {Loop} : WF_tickerVars(TickerCallStep(t))
  /\ WF_tickerVars(TickStep)
  /\ WF_tickerVars(FileStep)
  /\ WF_tickerVars(Clock)

TickerSpec == TickerInit /\ [][TickerNext]_tickerVars /\ TickerFairness
-----------------------------------------------------------------------------
Tasks == 1 .. MaxTasks

(* Types; the loop is in a callback only while it runs, and the worker     *)
(* files the task it has taken.                                            *)
TickerTypeOK ==
  /\ TypeOK
  /\ now \in 0 .. MaxTime
  /\ fireTime \in [Tasks -> 0 .. MaxTime]
  /\ filing \in Tasks \cup {0}
  /\ filing # 0 <=> worker = "task"
  /\ timers \subseteq Tasks
  /\ due \in Seq(Tasks)
  /\ tickAt \in {"top", "wait", "fire", "callback"}
  /\ tickAt = "callback" => loop = "running"
  /\ cleared \in BOOLEAN
  /\ fired \subseteq Tasks

(* Once StopImpl is done no callback is on and none begins: whoever stops  *)
(* the ticker may destroy what the callbacks use, before the loop is even  *)
(* joined.                                                                 *)
NoCallbackAfterStopImpl ==
  (\E t \in Threads : pc[t] \in StopPcs \ {"stopImpl"}) =>
    tickAt # "callback"

(* No timer outlives its run: a ticker that is stopped has none, filed or  *)
(* about to be called, and a later start begins with an empty queue.  The  *)
(* worker is still draining the task queue when StopImpl empties it.       *)
TimersEndWithTheirRun ==
  state = "Stopped" => timers = {} /\ due = <<>> /\ filing = 0

(* Callbacks are called once and not before their time, and at one tick in *)
(* the order of their times.                                               *)
CallbacksAreTimely ==
  [][\A n \in fired' \ fired :
       /\ fireTime[n] <= now
       /\ n \notin timers
       /\ \A m \in Range(due) : m \notin fired
                                  /\ fireTime[n] <= fireTime[m]]_tickerVars

(* A timer that was filed is called in the end, unless the ticker stops.   *)
FiledTimerIsCalled ==
  \A n \in Tasks : n \in timers ~> n \in fired \/ needStop
=============================================================================
