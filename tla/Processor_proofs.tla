------------------------- MODULE Processor_proofs --------------------------
(***************************************************************************)
(* Proofs about Processor, for any callers, tasks and restarts, and about  *)
(* the two processors built on it, IOProcessor and TickerProcessor, which  *)
(* are Processors, so that its theorems hold of them.                      *)
(*                                                                         *)
(* The inductive invariant adds to Processor's properties what each place  *)
(* in Start and Stop knows of the two threads and of the queue.            *)
(***************************************************************************)
EXTENDS IOProcessor, TickerProcessor, FiniteSetTheorems, TLAPS

AtThreads ==
  /\ state = "Stopped" => worker = "none" /\ loop = "none" /\ queue = <<>>
  /\ state = "Running" => worker \notin {"none", "exited"}
  /\ state \in {"Starting", "Running"} => ~needStop /\ ~startFailed
  /\ state = "Stopping" => needStop
  /\ worker = "exited" => needStop /\ queue = <<>>
  /\ worker # "none" => ~startFailed

\* What thread t knows inside of Start or Stop.
Knows(t) ==
  /\ pc[t] \in StartPcs <=> state = "Starting" /\ InLifecycle(t)
  /\ pc[t] \in StopPcs <=> state = "Stopping" /\ InLifecycle(t)
  /\ pc[t] = "startImpl" => loop = "none"
  /\ pc[t] \in {"startImpl", "startWorker", "fail"} => worker = "none"
  /\ pc[t] = "started" => worker \notin {"none", "exited"}
  /\ pc[t] \in {"stopImpl", "joinLoop", "afterLoop"} =>
       worker # "none" \/ startFailed
  /\ pc[t] \in {"notifyAll", "joinWorker"} => worker # "none"
  /\ pc[t] \in {"afterLoop", "notifyAll", "joinWorker", "clear", "stopped"}
       => loop = "none"
  /\ pc[t] = "clear" => worker = "none" /\ (startFailed \/ queue = <<>>)
  /\ pc[t] = "stopped" => worker = "none" /\ queue = <<>>
  /\ pc[t] \in {"joinWorker"} => worker # "asleep"

LifecycleInv ==
  /\ AtThreads
  /\ \A t \in Threads : Knows(t)
  /\ \A t, u \in Threads : InLifecycle(t) /\ InLifecycle(u) => t = u
  /\ state \in {"Starting", "Stopping"} => \E t \in Threads : InLifecycle(t)

\* Queue q is in order, younger than the tasks in gone, and holds all the
\* others of the first a.
Ordered(q, gone, a) ==
  /\ \A i, j \in DOMAIN q : i < j => q[i] < q[j]
  /\ \A i \in DOMAIN q : \A n \in gone : n < q[i]
  /\ \A n \in 1 .. a : n \in gone \/ \E i \in DOMAIN q : q[i] = n

QueueInv == Ordered(queue, ran \cup dropped, accepted) /\ ran \cap dropped = {}

TaskIsNotified ==
  worker = "asleep" /\ queue # <<>> => \E t \in Threads : pc[t] = "notifyOne"

IInv == TypeOK /\ LifecycleInv /\ QueueInv /\ TaskIsNotified
-----------------------------------------------------------------------------
(* Taking the oldest task leaves the rest in order.                        *)
LEMMA TakingKeepsOrder ==
  ASSUME NEW a \in Nat, NEW q \in Seq(1 .. a), q # <<>>,
         NEW gone \in SUBSET (1 .. a), Ordered(q, gone, a)
  PROVE  /\ Tail(q) \in Seq(1 .. a)
         /\ Head(q) \in 1 .. a /\ Head(q) \notin gone
         /\ Ordered(Tail(q), gone \cup {Head(q)}, a)
<1>1. /\ Len(q) \in Nat \ {0} /\ DOMAIN q = 1 .. Len(q)
      /\ DOMAIN Tail(q) = 1 .. Len(q) - 1
      /\ \A i \in 1 .. Len(q) - 1 : Tail(q)[i] = q[i + 1]
      /\ Head(q) = q[1]
      /\ \A i \in 1 .. Len(q) : q[i] \in 1 .. a
      /\ Tail(q) \in Seq(1 .. a)
  OBVIOUS
<1>2. \A i, j \in DOMAIN Tail(q) : i < j => Tail(q)[i] < Tail(q)[j]
  <2> SUFFICES ASSUME NEW i \in 1 .. Len(q) - 1, NEW j \in 1 .. Len(q) - 1,
                      i < j
               PROVE  q[i + 1] < q[j + 1]
    BY <1>1
  <2>1. i + 1 \in DOMAIN q /\ j + 1 \in DOMAIN q /\ i + 1 < j + 1
    BY <1>1
  <2> QED  BY <2>1 DEF Ordered
<1>3. \A i \in DOMAIN Tail(q) : \A n \in gone \cup {Head(q)} : n < Tail(q)[i]
  <2> SUFFICES ASSUME NEW i \in 1 .. Len(q) - 1, NEW n \in gone \cup {q[1]}
               PROVE  n < q[i + 1]
    BY <1>1
  <2>1. i + 1 \in DOMAIN q /\ 1 \in DOMAIN q /\ 1 < i + 1
    BY <1>1
  <2> QED  BY <2>1 DEF Ordered
<1>4. ASSUME NEW n \in 1 .. a, n \notin gone \cup {Head(q)}
      PROVE  \E i \in DOMAIN Tail(q) : Tail(q)[i] = n
  <2>1. PICK i \in DOMAIN q : q[i] = n
    BY <1>4 DEF Ordered
  <2>2. i - 1 \in 1 .. Len(q) - 1 /\ Tail(q)[i - 1] = n
    BY <1>1, <1>4, <2>1
  <2> QED  BY <1>1, <2>2
<1>5. Head(q) \notin gone
  BY <1>1 DEF Ordered
<1> QED  BY <1>1, <1>2, <1>3, <1>4, <1>5 DEF Ordered

(* So does appending the next.                                             *)
LEMMA AppendingKeepsOrder ==
  ASSUME NEW a \in Nat, NEW q \in Seq(1 .. a),
         NEW gone \in SUBSET (1 .. a), Ordered(q, gone, a)
  PROVE  /\ Append(q, a + 1) \in Seq(1 .. a + 1) /\ Append(q, a + 1) # <<>>
         /\ Ordered(Append(q, a + 1), gone, a + 1)
<1> DEFINE r == Append(q, a + 1)
<1>1. /\ Len(q) \in Nat /\ DOMAIN q = 1 .. Len(q)
      /\ \A i \in 1 .. Len(q) : q[i] \in 1 .. a
  OBVIOUS
<1>2. q \in Seq(1 .. a + 1)
  BY <1>1
<1>3. r \in Seq(1 .. a + 1) /\ Len(r) = Len(q) + 1 /\ r # <<>>
  BY <1>2
<1>4. /\ DOMAIN r = 1 .. Len(q) + 1
      /\ r[Len(q) + 1] = a + 1
      /\ \A i \in 1 .. Len(q) : r[i] = q[i]
  BY <1>2, <1>3
<1> HIDE DEF r
<1>5. \A i, j \in DOMAIN r : i < j => r[i] < r[j]
  <2> SUFFICES ASSUME NEW i \in 1 .. Len(q), NEW j \in 1 .. Len(q) + 1, i < j
               PROVE  r[i] < r[j]
    BY <1>1, <1>4
  <2>1. CASE j = Len(q) + 1
    BY <1>1, <1>4, <2>1
  <2>2. CASE j \in 1 .. Len(q)
    BY <1>1, <1>4, <2>2 DEF Ordered
  <2> QED  BY <1>1, <2>1, <2>2
<1>6. \A i \in DOMAIN r : \A n \in gone : n < r[i]
  <2> SUFFICES ASSUME NEW i \in 1 .. Len(q) + 1, NEW n \in gone
               PROVE  n < r[i]
    BY <1>4
  <2>1. CASE i = Len(q) + 1
    <3>1. n \in 1 .. a
      OBVIOUS
    <3> QED  BY <1>4, <2>1, <3>1
  <2>2. CASE i \in 1 .. Len(q)
    BY <1>1, <1>4, <2>2 DEF Ordered
  <2> QED  BY <1>1, <2>1, <2>2
<1>7. ASSUME NEW n \in 1 .. a + 1, n \notin gone
      PROVE  \E i \in DOMAIN r : r[i] = n
  <2>1. CASE n = a + 1
    BY <1>1, <1>4, <2>1
  <2>2. CASE n \in 1 .. a
    <3>1. PICK i \in DOMAIN q : q[i] = n
      BY <1>7, <2>2 DEF Ordered
    <3> QED  BY <1>1, <1>4, <3>1
  <2> QED  BY <2>1, <2>2
<1>8. Ordered(r, gone, a + 1)
  BY <1>5, <1>6, <1>7 DEF Ordered
<1> QED  BY <1>3, <1>8 DEF r

(* The steps of a call that leave the queue alone keep the invariant.      *)
LEMMA CallKeeps ==
  ASSUME IInv, NEW t \in Threads,
         \/ NotifyOne(t) \/ StartBegin(t) \/ StartImpl(t) \/ StartWorker(t)
         \/ StartEnd(t) \/ StartFail(t) \/ StopBegin(t) \/ StopImpl(t)
         \/ JoinLoop(t) \/ StopAfterLoop(t) \/ NotifyAll(t) \/ JoinWorker(t)
         \/ StopEnd(t)
  PROVE  IInv'
<1> USE ProcessorAssumption DEF IInv, TypeOK, Goes, GoesOn, Threads, States,
        WorkerPcs, LoopPcs, StartPcs, StopPcs, taskVars
<1>1. QueueInv'
  BY DEF QueueInv, NotifyOne, StartBegin, StartImpl, StartWorker, StartEnd,
         StartFail, StopBegin, StopImpl, JoinLoop, StopAfterLoop, NotifyAll,
         JoinWorker, StopEnd
<1>2. CASE NotifyOne(t)
  <2>1. TypeOK'
    BY <1>2 DEF NotifyOne, Wake
  <2>2. LifecycleInv'
    BY <1>2 DEF LifecycleInv, AtThreads, Knows, InLifecycle, NotifyOne, Wake
  <2>3. TaskIsNotified'
    BY <1>2 DEF TaskIsNotified, LifecycleInv, AtThreads, Knows,
           InLifecycle, NotifyOne, Wake
  <2> QED  BY <1>1, <2>1, <2>2, <2>3
<1>3. CASE StartImpl(t)
  <2>1. TypeOK'
    BY <1>3 DEF LifecycleInv, AtThreads, Knows, InLifecycle, StartImpl
  <2>2. LifecycleInv'
    BY <1>3 DEF LifecycleInv, AtThreads, Knows, InLifecycle, StartImpl
  <2>3. TaskIsNotified'
    BY <1>3 DEF TaskIsNotified, LifecycleInv, AtThreads, Knows,
           InLifecycle, StartImpl
  <2> QED  BY <1>1, <2>1, <2>2, <2>3
<1>4. CASE StartWorker(t)
  <2>1. TypeOK'
    BY <1>4 DEF LifecycleInv, AtThreads, Knows, InLifecycle,
           StartWorker
  <2>2. LifecycleInv'
    BY <1>4 DEF LifecycleInv, AtThreads, Knows, InLifecycle, StartWorker
  <2>3. TaskIsNotified'
    BY <1>4 DEF TaskIsNotified, LifecycleInv, AtThreads, Knows,
           InLifecycle, StartWorker
  <2> QED  BY <1>1, <2>1, <2>2, <2>3
<1>5. CASE StartEnd(t)
  <2>1. TypeOK'
    BY <1>5 DEF StartEnd
  <2>2. LifecycleInv'
    BY <1>5 DEF LifecycleInv, AtThreads, Knows, InLifecycle, StartEnd
  <2>3. TaskIsNotified'
    BY <1>5 DEF TaskIsNotified, LifecycleInv, AtThreads, Knows,
           InLifecycle, StartEnd
  <2> QED  BY <1>1, <2>1, <2>2, <2>3
<1>6. CASE StartFail(t)
  <2>1. TypeOK'
    BY <1>6 DEF StartFail
  <2>2. LifecycleInv'
    BY <1>6 DEF LifecycleInv, AtThreads, Knows, InLifecycle, StartFail
  <2>3. TaskIsNotified'
    BY <1>6 DEF TaskIsNotified, LifecycleInv, AtThreads, Knows,
           InLifecycle, StartFail
  <2> QED  BY <1>1, <2>1, <2>2, <2>3
<1>7. CASE StopImpl(t)
  <2>1. TypeOK'
    BY <1>7 DEF StopImpl
  <2>2. LifecycleInv'
    BY <1>7 DEF LifecycleInv, AtThreads, Knows, InLifecycle, StopImpl
  <2>3. TaskIsNotified'
    BY <1>7 DEF TaskIsNotified, LifecycleInv, AtThreads, Knows,
           InLifecycle, StopImpl
  <2> QED  BY <1>1, <2>1, <2>2, <2>3
<1>8. CASE JoinLoop(t)
  <2>1. TypeOK'
    BY <1>8 DEF JoinLoop
  <2>2. LifecycleInv'
    BY <1>8 DEF LifecycleInv, AtThreads, Knows, InLifecycle, JoinLoop
  <2>3. TaskIsNotified'
    BY <1>8 DEF TaskIsNotified, LifecycleInv, AtThreads, Knows,
           InLifecycle, JoinLoop
  <2> QED  BY <1>1, <2>1, <2>2, <2>3
<1>9. CASE StopAfterLoop(t)
  <2>1. TypeOK'
    BY <1>9 DEF StopAfterLoop
  <2>2. LifecycleInv'
    BY <1>9 DEF LifecycleInv, AtThreads, Knows, InLifecycle, StopAfterLoop
  <2>3. TaskIsNotified'
    BY <1>9 DEF TaskIsNotified, LifecycleInv, AtThreads, Knows,
           InLifecycle, StopAfterLoop
  <2> QED  BY <1>1, <2>1, <2>2, <2>3
<1>10. CASE NotifyAll(t)
  <2>1. TypeOK'
    BY <1>10 DEF NotifyAll, Wake
  <2>2. LifecycleInv'
    BY <1>10 DEF LifecycleInv, AtThreads, Knows, InLifecycle, NotifyAll, Wake
  <2>3. TaskIsNotified'
    BY <1>10 DEF TaskIsNotified, LifecycleInv, AtThreads, Knows,
           InLifecycle, NotifyAll, Wake
  <2> QED  BY <1>1, <2>1, <2>2, <2>3
<1>11. CASE JoinWorker(t)
  <2>1. TypeOK'
    BY <1>11 DEF JoinWorker
  <2>2. LifecycleInv'
    BY <1>11 DEF LifecycleInv, AtThreads, Knows, InLifecycle, JoinWorker
  <2>3. TaskIsNotified'
    BY <1>11 DEF TaskIsNotified, LifecycleInv, AtThreads, Knows,
           InLifecycle, JoinWorker
  <2> QED  BY <1>1, <2>1, <2>2, <2>3
<1>12. CASE StopEnd(t)
  <2>1. TypeOK'
    BY <1>12 DEF StopEnd
  <2>2. LifecycleInv'
    BY <1>12 DEF LifecycleInv, AtThreads, Knows, InLifecycle, StopEnd
  <2>3. TaskIsNotified'
    BY <1>12 DEF TaskIsNotified, LifecycleInv, AtThreads, Knows,
           InLifecycle, StopEnd
  <2> QED  BY <1>1, <2>1, <2>2, <2>3
<1>13. CASE StartBegin(t)
  <2>0. t # Worker /\ t # Loop
    BY <1>13 DEF LifecycleInv, AtThreads, StartBegin, CanCall, Startable
  <2>1. TypeOK'
    <3>1. starts' \in Nat /\ pc'[Worker] = pc[Worker] /\ pc'[Loop] = pc[Loop]
      BY <1>13, <2>0 DEF StartBegin
    <3> QED  BY <1>13, <3>1 DEF StartBegin
  <2>2. LifecycleInv'
    BY <1>13 DEF LifecycleInv, AtThreads, Knows, InLifecycle,
           StartBegin, CanCall, Startable
  <2>3. TaskIsNotified'
    BY <1>13 DEF TaskIsNotified, LifecycleInv, AtThreads, Knows,
           InLifecycle, StartBegin, CanCall, Startable
  <2> QED  BY <1>1, <2>1, <2>2, <2>3
<1>14. CASE StopBegin(t)
  <2>1. TypeOK'
    BY <1>14 DEF StopBegin, CanCall, IsCurrentThread
  <2>2. LifecycleInv'
    BY <1>14 DEF LifecycleInv, AtThreads, Knows, InLifecycle,
           StopBegin, CanCall, IsCurrentThread
  <2>3. TaskIsNotified'
    BY <1>14 DEF TaskIsNotified, LifecycleInv, AtThreads, Knows,
           InLifecycle, StopBegin, CanCall, IsCurrentThread
  <2> QED  BY <1>1, <2>1, <2>2, <2>3
<1> QED  BY <1>2, <1>3, <1>4, <1>5, <1>6, <1>7, <1>8, <1>9, <1>10, <1>11,
            <1>12, <1>13, <1>14
-----------------------------------------------------------------------------
(* A task is appended: it is younger than all there were.                  *)
LEMMA PushKeeps == ASSUME IInv, NEW t \in Threads, Push(t)  PROVE IInv'
<1> USE ProcessorAssumption DEF IInv, TypeOK, Goes, Threads, States,
        WorkerPcs, LoopPcs, StartPcs, StopPcs, Push, CanCall
<1>1. /\ queue' \in Seq(1 .. accepted') /\ queue' # <<>>
      /\ Ordered(queue', ran \cup dropped, accepted')
  BY AppendingKeepsOrder DEF QueueInv
<1>2. TypeOK'
  BY <1>1
<1>3. LifecycleInv'
  BY <1>1 DEF LifecycleInv, AtThreads, Knows, InLifecycle, Accepting
<1>4. QueueInv'
  BY <1>1 DEF QueueInv
<1>5. TaskIsNotified'
  BY DEF TaskIsNotified
<1> QED  BY <1>2, <1>3, <1>4, <1>5

(* The queue is thrown away: the one place where tasks get lost.           *)
LEMMA ClearKeeps == ASSUME IInv, NEW t \in Threads, Clear(t)  PROVE IInv'
<1> USE ProcessorAssumption DEF IInv, TypeOK, Goes, GoesOn, Threads, States,
        WorkerPcs, LoopPcs, StartPcs, StopPcs
<1>1. /\ dropped' = dropped \cup {queue[i] : i \in DOMAIN queue}
      /\ queue' = <<>> /\ UNCHANGED <<ran, accepted>>
  BY DEF Clear, Range
<1>2. \A i \in DOMAIN queue : queue[i] \in 1 .. accepted
  OBVIOUS
<1>3. TypeOK'
  <2>1. dropped' \subseteq 1 .. accepted'
    BY <1>1, <1>2
  <2>2. queue' \in Seq(1 .. accepted')
    BY <1>1
  <2> QED  BY <2>1, <2>2 DEF Clear
<1>4. LifecycleInv'
  BY DEF LifecycleInv, AtThreads, Knows, InLifecycle, Clear
<1>5. QueueInv'
  <2>1. Ordered(<<>>, (ran \cup dropped)', accepted)
    BY <1>1 DEF QueueInv, Ordered
  <2>2. \A i \in DOMAIN queue : queue[i] \notin ran
    BY <1>2 DEF QueueInv, Ordered
  <2>3. ran \cap dropped' = {}
    BY <1>1, <2>2 DEF QueueInv
  <2> QED  BY <1>1, <2>1, <2>3 DEF QueueInv
<1>6. TaskIsNotified'
  BY <1>1 DEF TaskIsNotified
<1> QED  BY <1>3, <1>4, <1>5, <1>6

(* The worker takes a task, waits or ends.                                 *)
LEMMA CheckKeeps == ASSUME IInv, WorkerCheck  PROVE IInv'
<1> USE ProcessorAssumption DEF IInv, TypeOK, Threads, States,
        WorkerPcs, LoopPcs, StartPcs, StopPcs, WorkerCheck
<1>1. CASE queue = <<>> /\ UNCHANGED <<queue, ran>>
  <2>1. TypeOK'
    BY <1>1
  <2>2. LifecycleInv'
    BY <1>1 DEF LifecycleInv, AtThreads, Knows, InLifecycle, Sleeps
  <2>3. QueueInv' /\ TaskIsNotified'
    BY <1>1 DEF QueueInv, TaskIsNotified
  <2> QED  BY <2>1, <2>2, <2>3
<1>2. CASE queue # <<>> /\ worker' = "task" /\ TakeOldest
  <2>1. /\ queue' \in Seq(1 .. accepted)
        /\ Head(queue) \in 1 .. accepted /\ Head(queue) \notin ran \cup dropped
        /\ Ordered(queue', ran \cup dropped \cup {Head(queue)}, accepted)
    BY <1>2, TakingKeepsOrder DEF TakeOldest, QueueInv
  <2>2. ran' = ran \cup {Head(queue)} /\ UNCHANGED <<dropped, accepted>>
    BY <1>2 DEF TakeOldest
  <2>3. TypeOK'
    BY <1>2, <2>1, <2>2
  <2>4. LifecycleInv'
    BY <1>2 DEF LifecycleInv, AtThreads, Knows, InLifecycle
  <2>5. QueueInv'
    <3>1. (ran \cup dropped)' = ran \cup dropped \cup {Head(queue)}
      BY <2>2
    <3>2. (ran \cap dropped)' = {}
      BY <2>1, <2>2 DEF QueueInv
    <3> QED  BY <2>1, <2>2, <3>1, <3>2 DEF QueueInv
  <2>6. TaskIsNotified'
    BY <1>2 DEF TaskIsNotified
  <2> QED  BY <2>3, <2>4, <2>5, <2>6
<1> QED  BY <1>1, <1>2 DEF Sleeps

(* What the two threads do beside.                                         *)
LEMMA ThreadsKeep ==
  ASSUME IInv, TaskEnd \/ SpuriousWakeup \/ LoopEnd \/ LoopThrows
  PROVE  IInv'
<1> USE ProcessorAssumption DEF IInv, TypeOK, Threads, States, WorkerPcs,
        LoopPcs, StartPcs, StopPcs, taskVars, TaskEnd, SpuriousWakeup,
        LoopEnd, LoopThrows, LoopLeaves
<1>1. TypeOK'
  OBVIOUS
<1>2. LifecycleInv'
  BY DEF LifecycleInv, AtThreads, Knows, InLifecycle
<1>3. QueueInv' /\ TaskIsNotified'
  BY DEF QueueInv, TaskIsNotified
<1> QED  BY <1>1, <1>2, <1>3
-----------------------------------------------------------------------------
LEMMA InitInv == Init => IInv
<1> SUFFICES ASSUME Init  PROVE IInv
  OBVIOUS
<1> USE ProcessorAssumption DEF Init, Threads, StartPcs, StopPcs
<1>1. queue \in Seq(1 .. accepted) /\ DOMAIN queue = {}
  OBVIOUS
<1>2. TypeOK
  BY <1>1 DEF TypeOK, States, WorkerPcs, LoopPcs
<1>3. LifecycleInv
  BY DEF LifecycleInv, AtThreads, Knows, InLifecycle
<1>4. QueueInv /\ TaskIsNotified
  BY <1>1 DEF QueueInv, Ordered, TaskIsNotified
<1> QED  BY <1>2, <1>3, <1>4 DEF IInv

LEMMA NextInv == IInv /\ [Next]_vars => IInv'
<1> SUFFICES ASSUME IInv, [Next]_vars  PROVE IInv'
  OBVIOUS
<1>1. CASE UNCHANGED vars
  BY <1>1 DEF IInv, TypeOK, LifecycleInv, AtThreads, Knows, InLifecycle,
     QueueInv, TaskIsNotified, vars, taskVars
<1>2. CASE \E t \in Threads : Push(t) \/ StartBegin(t) \/ StopBegin(t)
  BY <1>2, PushKeeps, CallKeeps
<1>3. CASE \E t \in Threads : CallStep(t)
  BY <1>3, CallKeeps, ClearKeeps DEF CallStep, LifecycleStep
<1>4. CASE WorkerStep \/ SpuriousWakeup \/ LoopEnd \/ LoopThrows
  BY <1>4, CheckKeeps, ThreadsKeep DEF WorkerStep
<1> QED  BY <1>1, <1>2, <1>3, <1>4 DEF Next

LEMMA SpecInv == Spec => []IInv
BY InitInv, NextInv, PTL DEF Spec

(* Type correctness; in particular neither the worker nor the loop ever    *)
(* gets into Start or Stop, where it would join itself.                    *)
THEOREM TypeCorrect == Spec => []TypeOK
<1>1. IInv => TypeOK
  BY DEF IInv
<1> QED  BY <1>1, SpecInv, PTL

(* Starts and stops exclude one another, and leave nothing behind.         *)
THEOREM LifecycleExclusion == Spec => []LifecycleIsExclusive
<1>1. IInv => LifecycleIsExclusive
  BY DEF IInv, LifecycleInv, AtThreads, Knows, InLifecycle, TypeOK,
     LifecycleIsExclusive, StartPcs, StopPcs
<1> QED  BY <1>1, SpecInv, PTL

(* Each accepted task runs at most once and in its turn, across restarts.  *)
THEOREM TasksRunInOrder == Spec => []TasksInOrder
<1>1. IInv => TasksInOrder
  <2> SUFFICES ASSUME IInv  PROVE TasksInOrder
    OBVIOUS
  <2>1. Range(queue) = {queue[i] : i \in DOMAIN queue}
    BY DEF Range
  <2>2. \A i \in DOMAIN queue : queue[i] \in 1 .. accepted
    BY DEF IInv, TypeOK
  <2>3. 1 .. accepted = Range(queue) \cup ran \cup dropped
    BY <2>1, <2>2 DEF IInv, TypeOK, QueueInv, Ordered
  <2> QED  BY <2>3 DEF IInv, QueueInv, Ordered, TasksInOrder
<1> QED  BY <1>1, SpecInv, PTL

(* The worker never sleeps over a task or over its end without somebody    *)
(* about to wake it.                                                       *)
THEOREM WakeupsAreNotLost == Spec => []NoLostWakeup
<1>1. IInv => NoLostWakeup
  BY DEF IInv, TypeOK, LifecycleInv, AtThreads, Knows, InLifecycle,
     TaskIsNotified, NoLostWakeup, States, StartPcs, StopPcs
<1> QED  BY <1>1, SpecInv, PTL

(* Stop throws no accepted task away; only a start that fails does.        *)
THEOREM StopsDropNothing == Spec => StopDropsNothing
<1>1. IInv /\ [Next]_vars => [dropped' # dropped => startFailed]_vars
  <2> SUFFICES ASSUME IInv, Next, dropped' # dropped  PROVE startFailed
    BY DEF vars, taskVars
  <2>1. PICK t \in Threads : Clear(t)
    BY DEF Next, CallStep, LifecycleStep, WorkerStep, Push, StartBegin,
       StopBegin, NotifyOne, StartImpl, StartWorker, StartEnd, StartFail,
       StopImpl, JoinLoop, StopAfterLoop, NotifyAll, JoinWorker, StopEnd,
       WorkerCheck, TaskEnd, SpuriousWakeup, LoopEnd, LoopThrows, LoopLeaves,
       taskVars
  <2>2. queue = <<>> => Range(queue) = {}
    BY DEF Range
  <2> QED  BY <2>1, <2>2 DEF IInv, LifecycleInv, Knows, Clear, GoesOn
<1> QED  BY <1>1, SpecInv, PTL DEF Spec, StopDropsNothing
-----------------------------------------------------------------------------
(* What a step does to the state and to the threads, seen as Service sees  *)
(* it: one of its actions or nothing.                                      *)
LEMMA StepIsService ==
  ASSUME IInv, IInv', [Next]_vars
  PROVE  [Manageable!Next]_(Manageable!vars)
<1> USE ProcessorAssumption DEF IInv, TypeOK, Goes, GoesOn, Threads, States,
        WorkerPcs, LoopPcs, StartPcs, StopPcs, taskVars, Active,
        LifecycleInv, AtThreads, Knows, InLifecycle,
        Manageable!Next, Manageable!vars
<1>1. CASE UNCHANGED vars
  BY <1>1 DEF vars
<1>2. ASSUME NEW t \in Threads, Push(t) \/ StartBegin(t) \/ StopBegin(t)
      PROVE  [Manageable!Next]_(Manageable!vars)
  <2>1. CASE Push(t)
    BY <2>1 DEF Push
  <2>2. CASE StartBegin(t)
    BY <2>2 DEF StartBegin, Startable, Manageable!Start
  <2>3. CASE StopBegin(t)
    BY <2>3 DEF StopBegin, Manageable!Stop
  <2> QED  BY <1>2, <2>1, <2>2, <2>3
<1>3. ASSUME NEW t \in Threads, CallStep(t)
      PROVE  [Manageable!Next]_(Manageable!vars)
  <2>1. CASE NotifyOne(t) \/ NotifyAll(t)
    BY <2>1 DEF NotifyOne, NotifyAll, Wake
  <2>2. CASE StartImpl(t)
    BY <2>2 DEF StartImpl, Manageable!Activate
  <2>3. CASE StartWorker(t)
    BY <2>3 DEF StartWorker, Manageable!Activate
  <2>4. CASE StartEnd(t)
    BY <2>4 DEF StartEnd, Manageable!Started
  <2>5. CASE StartFail(t)
    BY <2>5 DEF StartFail, Manageable!StartFails
  <2>6. CASE StopImpl(t) \/ StopAfterLoop(t) \/ Clear(t)
    BY <2>6 DEF StopImpl, StopAfterLoop, Clear
  <2>7. CASE JoinLoop(t) \/ JoinWorker(t)
    BY <2>7 DEF JoinLoop, JoinWorker
  <2>8. CASE StopEnd(t)
    BY <2>8 DEF StopEnd, Manageable!Stopped
  <2> QED  BY <1>3, <2>1, <2>2, <2>3, <2>4, <2>5, <2>6, <2>7, <2>8
       DEF CallStep, LifecycleStep
<1>4. CASE WorkerCheck
  BY <1>4 DEF WorkerCheck, Manageable!Finish
<1>5. CASE TaskEnd \/ SpuriousWakeup
  BY <1>5 DEF TaskEnd, SpuriousWakeup
<1>6. CASE LoopEnd \/ LoopThrows
  BY <1>6 DEF LoopEnd, LoopThrows, LoopLeaves, Manageable!Finish
<1> QED  BY <1>1, <1>2, <1>3, <1>4, <1>5, <1>6 DEF Next, WorkerStep

(* A processor is a Service, for any callers, tasks and restarts.          *)
THEOREM ProcessorImplementsService == Spec => ImplementsService
<1>1. Init => Manageable!Init
  BY DEF Init, Active, Manageable!Init
<1>2. IInv /\ IInv' /\ [Next]_vars => [Manageable!Next]_(Manageable!vars)
  BY StepIsService
<1> QED  BY <1>1, <1>2, SpecInv, PTL DEF Spec, ImplementsService, Manageable!Spec
-----------------------------------------------------------------------------
(* IOProcessor: no socket leaks or is used when it is closed.              *)

LEMMA IOCallRefines ==
  ASSUME NEW t \in Threads, IOCallStep(t)  PROVE CallStep(t)
BY DEF IOCallStep, IOStartImpl, IOStopImpl, IOStopAfterLoop, CallStep,
   LifecycleStep

LEMMA IOStepRefines == [IONext]_ioVars => [Next]_vars
<1> SUFFICES ASSUME IONext  PROVE [Next]_vars
  BY DEF ioVars
<1>1. Callers \subseteq Threads
  BY DEF Threads
<1>2. CASE \E t \in Callers : Push(t) \/ StartBegin(t) \/ StopBegin(t)
  BY <1>1, <1>2 DEF Next
<1>3. CASE \E t \in Callers : IOCallStep(t)
  BY <1>1, <1>3, IOCallRefines DEF Next
<1>4. CASE ReceiveStep \/ ReceiveThrows
  BY <1>4 DEF ReceiveStep, ReadSocket, Receive, ReceiveFails, ReceiveThrows,
     LeavesOnError, LoopEnd, LoopThrows, LoopLeaves, Next
<1>5. CASE SendStep \/ SpuriousWakeup
  BY <1>5 DEF SendStep, SendBegin, SendRefused, SendEnd, Next, WorkerStep
<1> QED  BY <1>2, <1>3, <1>4, <1>5 DEF IONext

(* An I/O processor is a processor: without the socket, each of its steps  *)
(* is one of ProcessorBase or nothing.                                     *)
THEOREM IOImplementsProcessor == IOSpec => Spec
<1>1. IOInit => Init
  BY DEF IOInit
<1> QED  BY <1>1, IOStepRefines, PTL DEF IOSpec, Spec
-----------------------------------------------------------------------------
\* Where in Start and Stop there is a socket.
SocketAt(t) ==
  /\ pc[t] = "startImpl" => sock = INVALID_SOCKET
  /\ pc[t] \in {"startWorker", "started"} => sock # INVALID_SOCKET
  /\ pc[t] \in {"notifyAll", "joinWorker", "clear", "stopped"} =>
       sock = INVALID_SOCKET

SocketTypes ==
  /\ sock \in Sockets \cup {INVALID_SOCKET}
  /\ recvAt \in {"top", "recv"}
  /\ receiveSocket \in Sockets \cup {INVALID_SOCKET}
  /\ receiveSocket # INVALID_SOCKET <=> recvAt = "recv"
  /\ sending \in Sockets \cup {INVALID_SOCKET}
  /\ sending # INVALID_SOCKET => worker = "task"
  /\ starts <= MaxStarts /\ (state # "Stopped" => starts >= 1)

SocketInv ==
  /\ SocketTypes
  /\ \A t \in Threads : SocketAt(t)
  /\ state = "Stopped" => sock = INVALID_SOCKET
  /\ state = "Running" => sock # INVALID_SOCKET
  /\ open = {sock} \ {INVALID_SOCKET}
  /\ recvAt = "recv" => loop = "running" /\ receiveSocket = sock
  /\ sending # INVALID_SOCKET => sending = sock

LEMMA CallKeepsSockets ==
  ASSUME IInv, SocketInv, NEW t \in Threads,
         IOCallStep(t) \/ (/\ Push(t) \/ StartBegin(t) \/ StopBegin(t)
                           /\ UNCHANGED socketVars)
  PROVE  SocketInv'
<1> USE ProcessorAssumption DEF IInv, TypeOK, LifecycleInv, AtThreads, Knows,
        InLifecycle, Goes, GoesOn, Threads, States, WorkerPcs, LoopPcs,
        StartPcs, StopPcs, socketVars, taskVars, SocketInv, SocketTypes,
        SocketAt, Sockets, INVALID_SOCKET, SocketMutexFree
<1>1. CASE IOStartImpl(t)
  BY <1>1 DEF IOStartImpl, StartImpl
<1>2. CASE IOStopImpl(t)
  BY <1>2 DEF IOStopImpl, StopImpl
<1>3. CASE IOStopAfterLoop(t)
  BY <1>3 DEF IOStopAfterLoop, StopAfterLoop, CloseSocket
<1>4. CASE NotifyOne(t) /\ UNCHANGED socketVars
  BY <1>4 DEF NotifyOne, Wake
<1>5. CASE StartWorker(t) /\ UNCHANGED socketVars
  BY <1>5 DEF StartWorker
<1>6. CASE (StartEnd(t) \/ StartFail(t)) /\ UNCHANGED socketVars
  BY <1>6 DEF StartEnd, StartFail
<1>7. CASE JoinLoop(t) /\ UNCHANGED socketVars
  BY <1>7 DEF JoinLoop
<1>8. CASE (NotifyAll(t) \/ JoinWorker(t)) /\ UNCHANGED socketVars
  BY <1>8 DEF NotifyAll, JoinWorker, Wake
<1>9. CASE (Clear(t) \/ StopEnd(t)) /\ UNCHANGED socketVars
  BY <1>9 DEF Clear, StopEnd
<1>10. CASE Push(t) /\ UNCHANGED socketVars
  BY <1>10 DEF Push, CanCall
<1>11. CASE StartBegin(t) /\ UNCHANGED socketVars
  BY <1>11 DEF StartBegin, CanCall, Startable
<1>12. CASE StopBegin(t) /\ UNCHANGED socketVars
  BY <1>12 DEF StopBegin, CanCall
<1> QED  BY <1>1, <1>2, <1>3, <1>4, <1>5, <1>6, <1>7, <1>8, <1>9, <1>10,
            <1>11, <1>12 DEF IOCallStep

LEMMA ThreadsKeepSockets ==
  ASSUME IInv, SocketInv,
         ReceiveStep \/ ReceiveThrows \/ SendStep
           \/ (SpuriousWakeup /\ UNCHANGED socketVars)
  PROVE  SocketInv'
<1> USE ProcessorAssumption DEF IInv, TypeOK, LifecycleInv, AtThreads, Knows,
        InLifecycle, Threads, States, WorkerPcs, LoopPcs,
        StartPcs, StopPcs, socketVars, taskVars, vars, SocketInv, SocketTypes,
        SocketAt, Sockets, INVALID_SOCKET, SocketMutexFree
<1>1. CASE ReceiveStep \/ ReceiveThrows
  BY <1>1 DEF ReceiveStep, ReadSocket, Receive, ReceiveFails, ReceiveThrows,
     BackToTop, LeavesOnError, LoopEnd, LoopThrows, LoopLeaves
<1>2. CASE WorkerCheck /\ UNCHANGED socketVars
  BY <1>2 DEF WorkerCheck
<1>3. CASE SendBegin
  BY <1>3 DEF SendBegin
<1>4. CASE SendRefused \/ SendEnd
  BY <1>4 DEF SendRefused, SendEnd, TaskEnd
<1>5. CASE SpuriousWakeup /\ UNCHANGED socketVars
  BY <1>5 DEF SpuriousWakeup
<1> QED  BY <1>1, <1>2, <1>3, <1>4, <1>5 DEF SendStep

LEMMA IOInitInv == IOInit => IInv /\ SocketInv
BY InitInv, ProcessorAssumption DEF IOInit, Init, SocketInv, SocketTypes,
   SocketAt, Sockets, INVALID_SOCKET, Threads

LEMMA IONextInv == IInv /\ SocketInv /\ [IONext]_ioVars => SocketInv'
<1> SUFFICES ASSUME IInv, SocketInv, [IONext]_ioVars  PROVE SocketInv'
  OBVIOUS
<1>1. CASE UNCHANGED ioVars
  BY <1>1 DEF ioVars, vars, socketVars, SocketInv, SocketTypes, SocketAt
<1>2. CASE IONext
  <2>1. Callers \subseteq Threads
    BY DEF Threads
  <2> QED  BY <1>2, <2>1, CallKeepsSockets, ThreadsKeepSockets DEF IONext
<1> QED  BY <1>1, <1>2

LEMMA IOSpecInv == IOSpec => [](IInv /\ SocketInv)
<1>1. IInv /\ SocketInv /\ [IONext]_ioVars => (IInv /\ SocketInv)'
  BY NextInv, IOStepRefines, IONextInv
<1> QED  BY <1>1, IOInitInv, PTL DEF IOSpec

(* No thread receives or sends on a socket that is closed.                 *)
THEOREM SocketsAreUsedOpen == IOSpec => []SocketInUseIsOpen
<1>1. IInv /\ SocketInv => SocketInUseIsOpen
  BY DEF SocketInv, SocketTypes, SocketInUseIsOpen
<1> QED  BY <1>1, IOSpecInv, PTL

(* Stops and failed starts leave no socket open.                           *)
THEOREM SocketsAreClosed == IOSpec => []SocketsDoNotLeak
<1>1. IInv /\ SocketInv => SocketsDoNotLeak
  BY DEF SocketInv, SocketsDoNotLeak, INVALID_SOCKET
<1> QED  BY <1>1, IOSpecInv, PTL
-----------------------------------------------------------------------------
(* TickerProcessor: callbacks come in time, none once StopImpl is done,    *)
(* and no timer outlives its run.                                          *)

LEMMA TickerStepRefines == [TickerNext]_tickerVars => [Next]_vars
<1> SUFFICES ASSUME TickerNext  PROVE [Next]_vars
  BY DEF tickerVars
<1>1. Callers \cup {Loop} \subseteq Threads
  BY DEF Threads
<1>2. CASE \E t \in Callers \cup {Loop} :
             Push(t) \/ StartBegin(t) \/ StopBegin(t)
  BY <1>1, <1>2 DEF Next
<1>3. CASE \E t \in Callers \cup {Loop} : TickerCallStep(t)
  BY <1>1, <1>3 DEF Next, TickerCallStep, TickerStartImpl, ClearTimers,
     TickerStopImpl, CallStep, LifecycleStep
<1>4. CASE TickStep
  BY <1>4 DEF TickStep, TickTop, TickLeaves, Tick, FireBegin, FireEnd, TickEnd,
     Next
<1>5. CASE FileStep \/ Clock \/ SpuriousWakeup
  BY <1>5 DEF FileStep, TakeTimer, FileTimer, Clock, Next, WorkerStep
<1> QED  BY <1>2, <1>3, <1>4, <1>5 DEF TickerNext

(* A ticker is a processor: without the timers, each of its steps is one   *)
(* of ProcessorBase or nothing.                                            *)
THEOREM TickerImplementsProcessor == TickerSpec => Spec
<1>1. TickerInit => Init
  BY DEF TickerInit
<1> QED  BY <1>1, TickerStepRefines, PTL DEF TickerSpec, Spec
-----------------------------------------------------------------------------
\* The threads past StopImpl.
Stopping(t) == pc[t] \in StopPcs \ {"stopImpl"}

TickerInv ==
  /\ tickAt \in {"fire", "callback"} => loop = "running"
  /\ tickAt = "callback" => \A t \in Threads : ~Stopping(t)
  /\ due # <<>> => tickAt \in {"fire", "callback"}
  /\ filing # 0 => worker = "task"
  /\ cleared => timers = {} /\ \E t \in Threads : pc[t] = "stopImpl"
  /\ \A t \in Threads : Stopping(t) => timers = {}
  /\ state = "Stopped" => timers = {}

LEMMA CallKeepsTimers ==
  ASSUME IInv, TickerInv, NEW t \in Threads,
         TickerCallStep(t) \/ (/\ Push(t) \/ StartBegin(t) \/ StopBegin(t)
                               /\ Untimed)
  PROVE  TickerInv'
<1> USE ProcessorAssumption DEF IInv, TypeOK, LifecycleInv, AtThreads, Knows,
        InLifecycle, Goes, GoesOn, Threads, States, WorkerPcs, LoopPcs,
        StartPcs, StopPcs, vars, taskVars, TickerInv, Stopping, Untimed,
        timerVars
<1>1. CASE TickerStartImpl(t)
  BY <1>1 DEF TickerStartImpl, StartImpl
<1>2. CASE ClearTimers(t)
  BY <1>2 DEF ClearTimers
<1>3. CASE TickerStopImpl(t)
  BY <1>3 DEF TickerStopImpl, StopImpl
<1>4. CASE (NotifyOne(t) \/ StartWorker(t)) /\ Untimed
  BY <1>4 DEF NotifyOne, Wake, StartWorker
<1>5. CASE (StartEnd(t) \/ StartFail(t)) /\ Untimed
  BY <1>5 DEF StartEnd, StartFail
<1>6. CASE (JoinLoop(t) \/ StopAfterLoop(t)) /\ Untimed
  BY <1>6 DEF JoinLoop, StopAfterLoop
<1>7. CASE (NotifyAll(t) \/ JoinWorker(t)) /\ Untimed
  BY <1>7 DEF NotifyAll, JoinWorker, Wake
<1>8. CASE (Clear(t) \/ StopEnd(t)) /\ Untimed
  BY <1>8 DEF Clear, StopEnd
<1>9. CASE Push(t) /\ Untimed
  BY <1>9 DEF Push, CanCall
<1>10. CASE StartBegin(t) /\ Untimed
  BY <1>10 DEF StartBegin, CanCall, Startable
<1>11. CASE StopBegin(t) /\ Untimed
  BY <1>11 DEF StopBegin, CanCall
<1> QED  BY <1>1, <1>2, <1>3, <1>4, <1>5, <1>6, <1>7, <1>8, <1>9, <1>10,
            <1>11 DEF TickerCallStep

LEMMA ThreadsKeepTimers ==
  ASSUME IInv, TickerInv,
         TickStep \/ FileStep \/ Clock \/ (SpuriousWakeup /\ Untimed)
  PROVE  TickerInv'
<1> USE ProcessorAssumption DEF IInv, TypeOK, LifecycleInv, AtThreads, Knows,
        InLifecycle, Threads, States, WorkerPcs, LoopPcs, StartPcs, StopPcs,
        vars, taskVars, TickerInv, Stopping, Untimed, timerVars, At
<1>1. CASE TickTop \/ TickLeaves
  BY <1>1 DEF TickTop, TickLeaves, LoopEnd, LoopLeaves
<1>2. CASE Tick
  BY <1>2 DEF Tick, Remaining
<1>3. CASE FireBegin
  BY <1>3 DEF FireBegin, Fires
<1>4. CASE FireEnd \/ TickEnd
  BY <1>4 DEF FireEnd, TickEnd
<1>5. CASE TakeTimer
  BY <1>5 DEF TakeTimer, WorkerCheck
<1>6. CASE FileTimer
  BY <1>6 DEF FileTimer, TaskEnd, Filed
<1>7. CASE Clock \/ (SpuriousWakeup /\ Untimed)
  BY <1>7 DEF Clock, SpuriousWakeup
<1> QED  BY <1>1, <1>2, <1>3, <1>4, <1>5, <1>6, <1>7 DEF TickStep, FileStep

LEMMA TickerNextInv == IInv /\ TickerInv /\ [TickerNext]_tickerVars => TickerInv'
<1> SUFFICES ASSUME IInv, TickerInv, [TickerNext]_tickerVars  PROVE TickerInv'
  OBVIOUS
<1>1. CASE UNCHANGED tickerVars
  BY <1>1 DEF tickerVars, vars, timerVars, TickerInv, Stopping
<1>2. CASE TickerNext
  <2>1. Callers \cup {Loop} \subseteq Threads
    BY DEF Threads
  <2> QED  BY <1>2, <2>1, CallKeepsTimers, ThreadsKeepTimers DEF TickerNext
<1> QED  BY <1>1, <1>2

LEMMA TickerSpecInv == TickerSpec => [](IInv /\ TickerInv)
<1>1. TickerInit => IInv /\ TickerInv
  BY InitInv DEF TickerInit, Init, TickerInv, Stopping, Threads, StopPcs
<1>2. IInv /\ TickerInv /\ [TickerNext]_tickerVars => (IInv /\ TickerInv)'
  BY NextInv, TickerStepRefines, TickerNextInv
<1> QED  BY <1>1, <1>2, PTL DEF TickerSpec

(* When StopImpl is done no callback is on, and none will be.              *)
THEOREM CallbacksEndWithStopImpl == TickerSpec => []NoCallbackAfterStopImpl
<1>1. IInv /\ TickerInv => NoCallbackAfterStopImpl
  BY DEF TickerInv, Stopping, NoCallbackAfterStopImpl
<1> QED  BY <1>1, TickerSpecInv, PTL

(* A stopped ticker has no timer left, wherever it was on its way.         *)
THEOREM TimersEnd == TickerSpec => []TimersEndWithTheirRun
<1>1. IInv /\ TickerInv => TimersEndWithTheirRun
  BY DEF IInv, LifecycleInv, AtThreads, TickerInv, TimersEndWithTheirRun
<1> QED  BY <1>1, TickerSpecInv, PTL
-----------------------------------------------------------------------------
\* Every task is in one place from its turn in the worker to its callback,
\* and what is due is due, in the order of time.
TimelyInv ==
  /\ due \in Seq(Tasks) /\ now \in Nat /\ ran \subseteq Tasks
  /\ accepted \in Nat /\ accepted <= MaxTasks
  /\ timers \cup fired \cup Range(due) \cup ({filing} \ {0}) \subseteq ran
  /\ worker = "task" => filing # 0
  /\ filing \notin timers \cup fired \cup Range(due)
  /\ timers \cap fired = {}
  /\ timers \cap Range(due) = {} /\ fired \cap Range(due) = {}
  /\ \A i, j \in DOMAIN due : i < j =>
       due[i] # due[j] /\ fireTime[due[i]] <= fireTime[due[j]]
  /\ \A n \in Range(due) : fireTime[n] <= now
  /\ fireTime \in [Tasks -> 0 .. MaxTime]

LEMMA RangeMembers ==
  ASSUME NEW s, NEW n
  PROVE  n \in Range(s) <=> \E i \in DOMAIN s : s[i] = n
BY DEF Range

(* A sequence as long as its set is large has each member once, so what a  *)
(* tick takes out of the timers comes up once and in its time.             *)
LEMMA DueInOrder ==
  ASSUME TimelyInv, NEW s \in ByFireTime(DueAt(now))
  PROVE  /\ s \in Seq(Tasks) /\ Range(s) = DueAt(now)
         /\ \A i, j \in DOMAIN s : i < j =>
              s[i] # s[j] /\ fireTime[s[i]] <= fireTime[s[j]]
<1> DEFINE S == DueAt(now)
<1>1. /\ s \in [1 .. Cardinality(S) -> S] /\ Range(s) = S
      /\ \A i, j \in DOMAIN s : i < j => fireTime[s[i]] <= fireTime[s[j]]
  BY DEF ByFireTime
<1>2. S \subseteq Tasks /\ IsFiniteSet(S) /\ Cardinality(S) \in Nat
  <2>1. S \subseteq 1 .. MaxTasks
    BY DEF DueAt, TimelyInv, Tasks
  <2>2. IsFiniteSet(1 .. MaxTasks)
    BY FS_Interval, ProcessorAssumption
  <2> QED
    BY <2>1, <2>2, FS_Subset, FS_CardinalityType DEF Tasks
<1> HIDE DEF S
<1>3. /\ IsFiniteSet(1 .. Cardinality(S))
      /\ Cardinality(1 .. Cardinality(S)) = Cardinality(S)
  BY <1>2, FS_Interval
<1>4. s \in Surjection(1 .. Cardinality(S), S)
  BY <1>1, RangeMembers DEF Surjection
<1>5. \A i, j \in DOMAIN s : s[i] = s[j] => i = j
  BY <1>3, <1>4, FS_SurjSameCardinalityImpliesInj DEF Injection, IsInjective
<1>6. s \in Seq(Tasks)
  BY <1>1, <1>2
<1>7. \A i \in DOMAIN s : i \in Nat
  BY <1>1, <1>2
<1> QED
  BY <1>1, <1>5, <1>6, <1>7 DEF S

(* Most steps leave the timers where they are or lose some.                *)
LEMMA LosingKeepsTimely ==
  ASSUME TimelyInv, fireTime' = fireTime, now' \in Nat, now <= now',
         fired' = fired, due' = due \/ due' = <<>>, timers' \subseteq timers,
         filing' = filing \/ filing' = 0, ran' = ran,
         accepted' \in Nat, accepted' <= MaxTasks,
         worker' = "task" => worker = "task" /\ filing' = filing
  PROVE  TimelyInv'
<1>1. Range(due') \subseteq Range(due) /\ due' \in Seq(Tasks)
  <2>1. due' = <<>> => Range(due') = {} /\ due' \in Seq(Tasks)
    BY RangeMembers
  <2> QED
    BY <2>1 DEF TimelyInv
<1>2. 0 \notin ran
  BY DEF TimelyInv, Tasks
<1>3. \A n \in Range(due') : fireTime'[n] <= now'
  <2>1. \A n \in Range(due) : n \in Tasks /\ fireTime[n] \in Nat
    <3>1. /\ Range(due) \subseteq Tasks /\ MaxTime \in Nat
          /\ fireTime \in [Tasks -> 0 .. MaxTime]
      BY TickerAssumption DEF TimelyInv
    <3> QED
      BY <3>1
  <2> QED
    BY <1>1, <2>1 DEF TimelyInv
<1> QED
  BY <1>1, <1>2, <1>3 DEF TimelyInv

LEMMA CallKeepsTimely ==
  ASSUME TimelyInv, NEW t \in Threads,
         TickerCallStep(t) \/ (/\ Push(t) \/ StartBegin(t) \/ StopBegin(t)
                               /\ Untimed)
  PROVE  TimelyInv'
<1>1. now \in Nat /\ now <= now
  BY DEF TimelyInv
<1>2. /\ UNCHANGED <<ran, now, fireTime, filing, due, fired>>
      /\ timers' = timers \/ timers' = {}
      /\ accepted' \in Nat /\ accepted' <= MaxTasks
      /\ worker' = "task" => worker = "task"
  <2>4. accepted \in Nat /\ accepted <= MaxTasks /\ MaxTasks \in Nat
    BY ProcessorAssumption DEF TimelyInv
  <2>1. CASE TickerStartImpl(t) \/ ClearTimers(t) \/ TickerStopImpl(t)
    BY <2>1, <2>4 DEF TickerStartImpl, StartImpl, ClearTimers, TickerStopImpl,
       StopImpl, vars, taskVars
  <2>2. CASE NotifyOne(t) \/ StartWorker(t) \/ StartEnd(t) \/ StartFail(t)
               \/ JoinLoop(t) \/ StopAfterLoop(t) \/ NotifyAll(t)
               \/ JoinWorker(t) \/ Clear(t) \/ StopEnd(t)
    <3>1. Untimed
      BY <2>2 DEF TickerCallStep, NotifyOne, StartWorker, StartEnd, StartFail,
         JoinLoop, StopAfterLoop, NotifyAll, JoinWorker, Clear, StopEnd,
         TickerStartImpl, StartImpl, ClearTimers, TickerStopImpl, StopImpl,
         Push, StartBegin, StopBegin, CanCall, GoesOn
    <3> QED
      BY <2>2, <2>4, <3>1 DEF Untimed, timerVars, NotifyOne, Wake, StartWorker, StartEnd,
         StartFail, JoinLoop, StopAfterLoop, NotifyAll, JoinWorker, Clear,
         StopEnd, vars, taskVars
  <2>3. CASE (Push(t) \/ StartBegin(t) \/ StopBegin(t)) /\ Untimed
    BY <2>3, <2>4 DEF Push, StartBegin, StopBegin, Untimed, timerVars, taskVars
  <2> QED
    BY <2>1, <2>2, <2>3 DEF TickerCallStep
<1> QED
  BY <1>1, <1>2, LosingKeepsTimely

LEMMA ThreadsKeepTimely ==
  ASSUME IInv, TimelyInv,
         TickStep \/ FileStep \/ Clock \/ (SpuriousWakeup /\ Untimed)
  PROVE  TimelyInv'
<1>1. /\ now \in Nat /\ now <= now /\ now <= now + 1
      /\ accepted \in Nat /\ accepted <= MaxTasks
  BY DEF TimelyInv
<1>2. CASE \/ TickTop \/ TickLeaves \/ FireEnd \/ TickEnd \/ Clock
           \/ (SpuriousWakeup /\ Untimed)
  <2>1. /\ UNCHANGED <<accepted, ran, fireTime, filing, timers, fired>>
        /\ now' = now \/ now' = now + 1
        /\ due' = due \/ due' = <<>>
        /\ worker' = "task" => worker = "task"
    BY <1>2 DEF TickTop, TickLeaves, LoopEnd, LoopLeaves, FireEnd, TickEnd,
       Clock, SpuriousWakeup, Untimed, timerVars, vars, taskVars
  <2> QED
    BY <1>1, <2>1, LosingKeepsTimely
<1>3. CASE Tick
  <2>1. /\ UNCHANGED <<worker, accepted, ran, now, fireTime, filing, fired>>
        /\ due' \in ByFireTime(DueAt(now)) /\ timers' = timers \ DueAt(now)
    BY <1>3 DEF Tick, Remaining, vars, taskVars
  <2>2. /\ due' \in Seq(Tasks) /\ Range(due') = DueAt(now)
        /\ \A i, j \in DOMAIN due' : i < j =>
             due'[i] # due'[j] /\ fireTime[due'[i]] <= fireTime[due'[j]]
    BY <2>1, DueInOrder
  <2>3. DueAt(now) \subseteq timers /\ \A n \in DueAt(now) : fireTime[n] <= now
    BY DEF DueAt
  <2> QED
    BY <2>1, <2>2, <2>3 DEF TimelyInv
<1>4. CASE FireBegin
  <2>1. /\ UNCHANGED <<worker, accepted, ran, now, fireTime, filing, timers>>
        /\ due # <<>> /\ due' = Tail(due) /\ fired' = fired \cup {Head(due)}
        /\ due \in Seq(Tasks)
    BY <1>4 DEF FireBegin, vars, taskVars, TimelyInv
  <2>2. /\ Tail(due) \in Seq(Tasks) /\ Head(due) = due[1] /\ 1 \in DOMAIN due
        /\ \A i \in DOMAIN Tail(due) :
             /\ i \in Nat \ {0} /\ i + 1 \in DOMAIN due
             /\ Tail(due)[i] = due[i + 1]
    BY <2>1
  <2>3. Range(Tail(due)) \subseteq Range(due) \ {Head(due)}
    <3> SUFFICES ASSUME NEW i \in DOMAIN Tail(due)
                 PROVE  Tail(due)[i] \in Range(due) \ {Head(due)}
      BY RangeMembers
    <3>1. due[i + 1] \in Range(due) /\ 1 < i + 1
      BY <2>2, RangeMembers
    <3>2. due[1] # due[i + 1]
      BY <2>2, <3>1 DEF TimelyInv
    <3> QED
      BY <2>2, <3>1, <3>2
  <2>4. Head(due) \in Range(due)
    BY <2>2, RangeMembers
  <2>5. \A i, j \in DOMAIN Tail(due) : i < j =>
          /\ Tail(due)[i] # Tail(due)[j]
          /\ fireTime[Tail(due)[i]] <= fireTime[Tail(due)[j]]
    <3> SUFFICES ASSUME NEW i \in DOMAIN Tail(due), NEW j \in DOMAIN Tail(due),
                        i < j
                 PROVE  /\ due[i + 1] # due[j + 1]
                        /\ fireTime[due[i + 1]] <= fireTime[due[j + 1]]
      BY <2>2
    <3>1. i + 1 \in DOMAIN due /\ j + 1 \in DOMAIN due /\ i + 1 < j + 1
      BY <2>2
    <3> QED
      BY <3>1 DEF TimelyInv
  <2> QED
    BY <2>1, <2>2, <2>3, <2>4, <2>5 DEF TimelyInv
<1>5. CASE TakeTimer
  <2>1. /\ UNCHANGED <<accepted, now, fireTime, timers, due, fired>>
        /\ \/ ran' = ran /\ worker' # "task"
           \/ /\ queue # <<>> /\ ran' = ran \cup {Head(queue)}
              /\ worker' = "task"
        /\ filing' = IF worker' = "task" THEN Head(queue) ELSE 0
    BY <1>5 DEF TakeTimer, WorkerCheck, TakeOldest
  <2>2. CASE ran' = ran /\ worker' # "task"
    BY <1>1, <2>1, <2>2, LosingKeepsTimely
  <2>3. CASE /\ queue # <<>> /\ ran' = ran \cup {Head(queue)}
             /\ worker' = "task"
    <3>1. /\ queue \in Seq(1 .. accepted)
          /\ ran \cup dropped \in SUBSET (1 .. accepted)
          /\ Ordered(queue, ran \cup dropped, accepted)
      BY DEF IInv, TypeOK, QueueInv
    <3>2. Head(queue) \in 1 .. accepted /\ Head(queue) \notin ran \cup dropped
      BY <1>1, <2>3, <3>1, TakingKeepsOrder
    <3>3. Head(queue) \in Tasks /\ Head(queue) # 0
      BY <1>1, <3>2, ProcessorAssumption DEF Tasks
    <3>4. filing' = Head(queue)
      BY <2>1, <2>3
    <3> QED
      BY <2>1, <2>3, <3>2, <3>3, <3>4 DEF TimelyInv
  <2> QED
    BY <2>1, <2>2, <2>3
<1>6. CASE FileTimer
  <2>1. /\ UNCHANGED <<accepted, ran, now, fireTime, due, fired>>
        /\ worker' = "check"
        /\ timers' = timers \/ timers' = timers \cup {filing}
        /\ filing' = 0 /\ worker = "task"
    BY <1>6 DEF FileTimer, TaskEnd, Filed, taskVars
  <2>2. CASE timers' = timers
    BY <1>1, <2>1, <2>2, LosingKeepsTimely
  <2>3. CASE timers' = timers \cup {filing}
    <3>1. filing \in ran \/ filing = 0
      BY DEF TimelyInv
    <3>2. filing # 0 /\ 0 \notin ran
      BY <2>1 DEF TimelyInv, Tasks
    <3> QED
      BY <2>1, <2>3, <3>1, <3>2 DEF TimelyInv
  <2> QED
    BY <2>1, <2>2, <2>3
<1> QED
  BY <1>2, <1>3, <1>4, <1>5, <1>6 DEF TickStep, FileStep

LEMMA TimelyNextInv == IInv /\ TimelyInv /\ [TickerNext]_tickerVars => TimelyInv'
<1> SUFFICES ASSUME IInv, TimelyInv, [TickerNext]_tickerVars  PROVE TimelyInv'
  OBVIOUS
<1>1. CASE UNCHANGED tickerVars
  BY <1>1 DEF tickerVars, vars, taskVars, timerVars, TimelyInv
<1>2. CASE TickerNext
  <2>1. Callers \cup {Loop} \subseteq Threads
    BY DEF Threads
  <2> QED
    BY <1>2, <2>1, CallKeepsTimely, ThreadsKeepTimely DEF TickerNext
<1> QED
  BY <1>1, <1>2

(* Only FireBegin calls one.                                               *)
LEMMA FireIsTimely ==
  ASSUME TimelyInv, [TickerNext]_tickerVars, NEW n \in fired' \ fired
  PROVE  /\ fireTime[n] <= now /\ n \notin timers
         /\ \A m \in Range(due) : m \notin fired /\ fireTime[n] <= fireTime[m]
<1>1. FireBegin
  BY DEF TickerNext, TickerCallStep, TickerStartImpl, ClearTimers,
     TickerStopImpl, TickStep, TickTop, TickLeaves, Tick, FireEnd, TickEnd,
     FileStep, TakeTimer, FileTimer, Clock, Untimed, timerVars, tickerVars
<1>2. due # <<>> /\ n = Head(due) /\ due \in Seq(Tasks)
  BY <1>1 DEF FireBegin, TimelyInv
<1>3. n = due[1] /\ 1 \in DOMAIN due /\ \A i \in DOMAIN due : i = 1 \/ 1 < i
  BY <1>2
<1>4. n \in Range(due) /\ fireTime[n] \in Nat
  <2>1. n \in Range(due)
    BY <1>3, RangeMembers
  <2> QED
    BY <1>2, <1>3, <2>1 DEF TimelyInv
<1>5. ASSUME NEW m \in Range(due)  PROVE fireTime[n] <= fireTime[m]
  <2>1. PICK i \in DOMAIN due : due[i] = m
    BY RangeMembers
  <2> QED
    BY <1>3, <1>4, <2>1 DEF TimelyInv
<1> QED
  BY <1>4, <1>5 DEF TimelyInv

(* A callback is called once, not before its time, and before those of the *)
(* same tick that are due later, for any number of timers and however the  *)
(* worker files them meanwhile.                                            *)
THEOREM CallbacksComeInTime == TickerSpec => CallbacksAreTimely
<1>1. TickerInit => IInv /\ TimelyInv
  <2> SUFFICES ASSUME TickerInit  PROVE IInv /\ TimelyInv
    OBVIOUS
  <2>1. /\ Init /\ due = <<>> /\ now = 0 /\ filing = 0 /\ timers = {}
        /\ fired = {} /\ fireTime \in [Tasks -> 0 .. MaxTime]
    BY DEF TickerInit, Tasks
  <2>2. Range(due) = {}
    BY <2>1, RangeMembers
  <2>3. ran = {} /\ accepted = 0 /\ worker = "none" /\ MaxTasks \in Nat
    BY <2>1, ProcessorAssumption DEF Init
  <2> QED
    BY <2>1, <2>2, <2>3, InitInv DEF TimelyInv
<1>2. IInv /\ TimelyInv /\ [TickerNext]_tickerVars => (IInv /\ TimelyInv)'
  BY NextInv, TickerStepRefines, TimelyNextInv
<1> DEFINE A == \A n \in fired' \ fired :
                  /\ fireTime[n] <= now
                  /\ n \notin timers
                  /\ \A m \in Range(due) : m \notin fired
                                             /\ fireTime[n] <= fireTime[m]
<1>3. TimelyInv /\ [TickerNext]_tickerVars => [A]_tickerVars
  BY FireIsTimely
<1> QED
  BY <1>1, <1>2, <1>3, PTL DEF TickerSpec, CallbacksAreTimely
=============================================================================
