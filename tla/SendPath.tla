------------------------------ MODULE SendPath ------------------------------
(***************************************************************************)
(* Sending to a session, while the server starts and stops: Client and     *)
(* ServerCore::SendPacket hand the packet to SendAuthenticatedPacket,      *)
(* BuildSendPacket numbers it under the session's sendMutex, then the I/O  *)
(* processor with the shortest queue is looked for, one queue at a time,   *)
(* and its worker sends the packet.  The session is one that was found:    *)
(* from there on the call holds it, whether it stays registered or not.    *)
(***************************************************************************)
EXTENDS ServerLifecycle, Sequences, FiniteSets, Functions

CONSTANTS
  Senders,         \* threads that send
  SequenceMax      \* 2^64 - 1 in the code

ASSUME SendAssumption ==
  /\ Senders \subseteq Threads /\ IsFiniteSet(Senders)
  /\ SequenceMax \in Nat \ {0}

IO == Group("IO")
NoProcessor == <<"none", 0>>

VARIABLES
  nextSendSequence,
  stage,           \* [Senders -> where its call of SendPacket is]
  number,          \* [Senders -> the sequence number it has, or 0]
  scanned,         \* [Senders -> Nat]: how many queues it has looked at
  best,            \* [Senders -> the processor to choose, or NoProcessor]
  bestSize,        \* [Senders -> the size of its queue, when seen]
  queue,           \* [IO -> Seq(number)]: taskQueue
  sent,            \* history: numbers given to sendto
  peak             \* history: [IO -> Nat]: the longest its queue has been

scanVars == <<number, scanned, best, bestSize>>
packetVars == <<queue, sent, peak>>
sendVars == <<vars, nextSendSequence, stage, scanVars, packetVars>>

SendInit ==
  /\ Init
  /\ nextSendSequence = 1
  /\ stage = [t \in Senders |-> "out"]
  /\ number = [t \in Senders |-> 0]
  /\ scanned = [t \in Senders |-> 0]
  /\ best = [t \in Senders |-> NoProcessor]
  /\ bestSize = [t \in Senders |-> 0]
  /\ queue = [p \in IO |-> <<>>]
  /\ sent = {}
  /\ peak = [p \in IO |-> 0]

Passes(t, from, to) == stage[t] = from /\ stage' = [stage EXCEPT ![t] = to]
-----------------------------------------------------------------------------
\* Mutant: sendMutex is not locked.
SendMutexUnused == TRUE
SendMutexFree == \A t \in Senders : stage[t] # "build"

\* Mutant: the sequence is used up to its last number, and wraps.
NumberedAlways == TRUE
Numbered == nextSendSequence \notin {0, SequenceMax}

\* BuildSendPacket, with sendMutex held from here ...
BuildBegin(t) ==
  /\ CanCall(t)
  /\ SendMutexFree
  /\ Numbered
  /\ Passes(t, "out", "build")
  /\ number' = [number EXCEPT ![t] = nextSendSequence]
  /\ UNCHANGED <<vars, nextSendSequence, scanned, best, bestSize, packetVars>>

\* ... to here; a packet that cannot be serialized costs no number.
BuildEnd(t) ==
  /\ \/ /\ Passes(t, "build", "state")
        /\ nextSendSequence' = (nextSendSequence + 1) % (SequenceMax + 1)
        /\ UNCHANGED number
     \/ /\ Passes(t, "build", "out")
        /\ number' = [number EXCEPT ![t] = 0]
        /\ UNCHANGED nextSendSequence
  /\ UNCHANGED <<vars, scanned, best, bestSize, packetVars>>

\* The call is over, and its locals are gone.
Returns(t, from) ==
  /\ Passes(t, from, "out")
  /\ number' = [number EXCEPT ![t] = 0]
  /\ scanned' = [scanned EXCEPT ![t] = 0]
  /\ best' = [best EXCEPT ![t] = NoProcessor]
  /\ bestSize' = [bestSize EXCEPT ![t] = 0]

\* PushTaskToProcessor of the manager looks at its own state.
CheckManager(t) ==
  /\ \/ /\ manager \in {"Starting", "Running"}
        /\ Passes(t, "state", "scan")
        /\ UNCHANGED scanVars
     \/ /\ manager \notin {"Starting", "Running"}
        /\ Returns(t, "state")
  /\ UNCHANGED <<vars, nextSendSequence, packetVars>>

\* Mutants: the longest queue; the last one is not looked at.
FewerSeenReversed(t, size) == size > bestSize[t]
FewerSeen(t, size) == best[t] = NoProcessor \/ size < bestSize[t]
LastButOne(n) == n = IoCount - 1
Last(n) == n = IoCount

\* GetLeastBusyProcessorIndex: the next queue's size; an empty one is it.
ScanQueue(t) ==
  LET next == scanned[t] + 1
      p == <<"IO", next>>
      size == Len(queue[p])
  IN  /\ Passes(t, "scan", IF size = 0 \/ Last(next) THEN "push" ELSE "scan")
      /\ IF size = 0 \/ FewerSeen(t, size)
         THEN /\ best' = [best EXCEPT ![t] = p]
              /\ bestSize' = [bestSize EXCEPT ![t] = size]
         ELSE UNCHANGED <<best, bestSize>>
      /\ scanned' = [scanned EXCEPT ![t] = next]
      /\ UNCHANGED <<vars, nextSendSequence, number, packetVars>>

\* ProcessorBase::PushTaskToProcessor, by now maybe of a processor that is
\* not started yet or stopping.
PushPacket(t) ==
  /\ Returns(t, "push")
  /\ IF service[best[t]] \in {"Starting", "Running"}
     THEN /\ queue' = [queue EXCEPT ![best[t]] = Append(@, number[t])]
          /\ peak' = [peak EXCEPT ![best[t]] =
                        IF @ > Len(queue[best[t]]) THEN @ ELSE @ + 1]
     ELSE UNCHANGED <<queue, peak>>
  /\ UNCHANGED <<vars, nextSendSequence, sent>>
-----------------------------------------------------------------------------
\* The worker of p takes a packet and sends it; not when p is told to stop,
\* and sendto may fail.
SendTask(p) ==
  /\ active[p] /\ queue[p] # <<>>
  /\ queue' = [queue EXCEPT ![p] = Tail(@)]
  /\ \/ service[p] # "Stopping" /\ sent' = sent \cup {Head(queue[p])}
     \/ UNCHANGED sent
  /\ UNCHANGED <<vars, nextSendSequence, stage, scanVars, peak>>

\* Lifecycle's steps; a thread that sends is not done, nor is a worker with
\* packets left, and StopThreads throws away what is left in a queue.
SendLifecycle ==
  /\ \/ \E t \in Threads :
          \/ CallStep(t)
          \/ (t \in Senders => stage[t] = "out") /\ (StartBegin(t) \/ StopBegin(t))
     \/ \E p \in Processors :
          /\ p \in Senders => stage[p] = "out"
          /\ p \in IO => queue[p] = <<>>
          /\ Finish(p)
  /\ queue' = [p \in IO |-> IF service'[p] = "Stopped" THEN <<>> ELSE queue[p]]
  /\ UNCHANGED <<nextSendSequence, stage, scanVars, sent, peak>>

SendStep(t) ==
  BuildEnd(t) \/ CheckManager(t) \/ ScanQueue(t) \/ PushPacket(t)

SendNext ==
  \/ \E t \in Senders : BuildBegin(t) \/ SendStep(t)
  \/ \E p \in IO : SendTask(p)
  \/ SendLifecycle

SendSpec == SendInit /\ [][SendNext]_sendVars
-----------------------------------------------------------------------------
Queued == UNION {Range(queue[p]) : p \in IO}
InHand == {t \in Senders : stage[t] \in {"state", "scan", "push"}}

(* No number is used twice for a session, whoever sends and however long   *)
(* between the numbering and the sending, across restarts and up to the    *)
(* end of the numbers: every number issued is with one thread, in one      *)
(* place of one queue, or was sent or lost once, and 0 and the last number *)
(* are never issued (a receiver would take a second packet for a replay).  *)
NumbersAreUnique ==
  /\ \A p, q \in IO : \A i \in DOMAIN queue[p], j \in DOMAIN queue[q] :
       queue[p][i] = queue[q][j] => p = q /\ i = j
  /\ \A t \in InHand :
       /\ number[t] \notin sent \cup Queued
       /\ \A u \in InHand \ {t} : number[u] # number[t]
  /\ sent \cap Queued = {}
  /\ sent \cup Queued \subseteq 1 .. SequenceMax - 1

(* The sizes a sender compares are stale by the time it pushes, but the    *)
(* load is spread all the same: no queue is longer than the longest that   *)
(* any other has ever been by more than the number of senders, each of     *)
(* which pushes once on what it saw.                                       *)
NoQueueRunsAway ==
  \A p, q \in IO : Len(queue[p]) <= peak[q] + Cardinality(Senders)
=============================================================================
