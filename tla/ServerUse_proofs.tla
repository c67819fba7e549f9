-------------------------- MODULE ServerUse_proofs --------------------------
(***************************************************************************)
(* Proofs about the two compositions over ServerLifecycle: SendPath, for   *)
(* any finite set of senders, any number of I/O processors and any last    *)
(* sequence number, and Server, for any threads, clients and connection    *)
(* ids.  Both take only the lifecycle's own steps, so that what is proved  *)
(* of ServerLifecycle is so of a server under use.                         *)
(***************************************************************************)
EXTENDS SendPath, Server, ServerLifecycle_proofs, FiniteSetTheorems

Stages == {"out", "build", "state", "scan", "push"}

SendTypes ==
  /\ nextSendSequence \in 1 .. SequenceMax
  /\ stage \in [Senders -> Stages]
  /\ number \in [Senders -> Nat]
  /\ scanned \in [Senders -> Nat]
  /\ best \in [Senders -> IO \cup {NoProcessor}]
  /\ bestSize \in [Senders -> Nat]
  /\ queue \in [IO -> Seq(Nat)]
  /\ sent \subseteq Nat
  /\ peak \in [IO -> Nat]

\* The processors whose queues t has looked at.
Seen(t) == {p \in IO : p[2] <= scanned[t]}

\* What a sender knows at each stage: its number is the next, or issued;
\* the queue it has chosen was no longer than any it looked at ever was.
Sends(t) ==
  /\ stage[t] = "build" =>
       /\ number[t] = nextSendSequence /\ nextSendSequence < SequenceMax
       /\ \A u \in Senders : stage[u] = "build" => u = t
  /\ t \in InHand => number[t] \in 1 .. nextSendSequence - 1
  /\ stage[t] \in {"out", "build", "state"} =>
       scanned[t] = 0 /\ best[t] = NoProcessor
  /\ stage[t] = "scan" =>
       /\ scanned[t] < IoCount
       /\ scanned[t] = 0 <=> best[t] = NoProcessor
       /\ best[t] # NoProcessor => \A q \in Seen(t) : bestSize[t] <= peak[q]
  /\ stage[t] = "push" =>
       best[t] \in IO /\ \A q \in IO : bestSize[t] <= peak[q]

\* Every number issued is below the next one, and in one place.
NumberInv == NumbersAreUnique /\ sent \cup Queued \subseteq 1 .. nextSendSequence - 1

\* The senders that may push to p after seeing no more than k packets there.
Behind(p, k) == {t \in Senders : best[t] = p /\ bestSize[t] <= k}

\* Above a peak of any queue, another grows by these senders only: each
\* makes room for its packet when it pushes, and who looks now chooses
\* another one.
LoadInv ==
  /\ \A p \in IO : Len(queue[p]) <= peak[p]
  /\ \A p, q \in IO : \A k \in Nat : peak[q] <= k =>
       Len(queue[p]) + Cardinality(Behind(p, k)) <= k + Cardinality(Senders)

SendInv == SendTypes /\ (\A t \in Senders : Sends(t)) /\ NumberInv /\ LoadInv
-----------------------------------------------------------------------------
LEMMA IOFacts ==
  /\ \A p \in IO : /\ p \in Processors /\ p[2] \in 1 .. IoCount
                   /\ p = <<"IO", p[2]>> /\ p # NoProcessor
  /\ \A n \in 1 .. IoCount : <<"IO", n>> \in IO /\ <<"IO", n>>[2] = n
  /\ NoProcessor \notin IO /\ IoCount \in Nat \ {0}
<1>1. IO = {"IO"} \X (1 .. IoCount)
  <2>1. \A p \in {"Logic"} \X (1 .. LogicCount) : p[1] # "IO"
    OBVIOUS
  <2> QED
    BY <2>1 DEF IO, Group, Processors
<1> QED
  BY <1>1, LifecycleAssumption DEF NoProcessor, Processors

LEMMA QueuedMembers ==
  /\ \A n : n \in Queued <=>
       \E p \in IO : \E i \in DOMAIN queue[p] : queue[p][i] = n
  /\ \A n : (n \in Queued)' <=>
       \E p \in IO : \E i \in DOMAIN queue'[p] : queue'[p][i] = n
BY DEF Queued, Range

LEMMA BehindFinite ==
  ASSUME NEW p, NEW k
  PROVE  /\ IsFiniteSet(Behind(p, k)) /\ IsFiniteSet(Behind(p, k)')
         /\ Cardinality(Behind(p, k)) \in Nat
         /\ Cardinality(Behind(p, k)') \in Nat
         /\ Cardinality(Behind(p, k)') <= Cardinality(Senders)
         /\ Cardinality(Senders) \in Nat
<1>1. Behind(p, k) \subseteq Senders /\ Behind(p, k)' \subseteq Senders
  BY DEF Behind
<1> QED
  BY <1>1, FS_Subset, FS_CardinalityType, SendAssumption

LEMMA SendInitInv == SendInit => SendInv
<1> SUFFICES ASSUME SendInit  PROVE SendInv
  OBVIOUS
<1> USE DEF SendInit
<1>1. SendTypes
  BY SendAssumption DEF SendTypes, Stages
<1>2. \A t \in Senders : Sends(t)
  BY DEF Sends, InHand
<1>3. InHand = {} /\ \A n : n \notin Queued
  BY QueuedMembers DEF InHand
<1>4. NumberInv
  BY <1>3 DEF NumberInv, NumbersAreUnique
<1>5. LoadInv
  <2>1. \A p \in IO, k \in Nat : Behind(p, k) = {}
    BY IOFacts DEF Behind
  <2>2. \A p \in IO : Len(queue[p]) = 0 /\ peak[p] = 0
    OBVIOUS
  <2>3. Cardinality(Senders) \in Nat
    BY FS_CardinalityType, SendAssumption
  <2>4. \A p \in IO, k \in Nat : Cardinality(Behind(p, k)) = 0
    BY <2>1, FS_EmptySet
  <2> QED
    BY <2>2, <2>3, <2>4 DEF LoadInv
<1> QED
  BY <1>1, <1>2, <1>4, <1>5 DEF SendInv

(* A sender's knowledge outlives the steps of the others: numbers and      *)
(* peaks only grow, and one thread at a time holds sendMutex.              *)
LEMMA OthersStillSend ==
  ASSUME SendInv, NEW t \in Senders,
         \A u \in Senders \ {t} :
           /\ stage'[u] = stage[u] /\ number'[u] = number[u]
           /\ scanned'[u] = scanned[u] /\ best'[u] = best[u]
           /\ bestSize'[u] = bestSize[u],
         \/ nextSendSequence' = nextSendSequence
         \/ stage[t] = "build" /\ nextSendSequence' = nextSendSequence + 1,
         stage'[t] = "build" => \A u \in Senders : stage[u] # "build",
         \A q \in IO : peak'[q] \in Nat /\ peak[q] <= peak'[q]
  PROVE  \A u \in Senders \ {t} : Sends(u)'
<1> SUFFICES ASSUME NEW u \in Senders \ {t}  PROVE Sends(u)'
  OBVIOUS
<1>1. /\ Sends(u) /\ nextSendSequence \in Nat /\ number[u] \in Nat
      /\ bestSize[u] \in Nat /\ \A q \in IO : peak[q] \in Nat
  BY DEF SendInv, SendTypes
<1>2. stage'[u] = "build" =>
        /\ number'[u] = nextSendSequence' /\ nextSendSequence' < SequenceMax
        /\ \A v \in Senders : stage'[v] = "build" => v = u
  BY <1>1 DEF Sends, SendInv
<1>3. t \in Senders /\ u \in InHand' => number'[u] \in 1 .. nextSendSequence' - 1
  BY <1>1 DEF Sends, InHand
<1>4. Seen(u)' = Seen(u)
  BY DEF Seen
<1>5. \A q \in IO : bestSize[u] <= peak[q] => bestSize'[u] <= peak'[q]
  BY <1>1
<1>6. Seen(u) \subseteq IO
  BY DEF Seen
<1> QED
  BY <1>1, <1>2, <1>3, <1>4, <1>5, <1>6 DEF Sends

(* The numbers stay in one place each as long as none is handed over.      *)
LEMMA NumbersKept ==
  ASSUME SendInv, UNCHANGED <<queue, sent>>,
         nextSendSequence' \in 1 .. SequenceMax,
         nextSendSequence <= nextSendSequence',
         InHand' \subseteq InHand,
         \A u \in InHand' : number'[u] = number[u]
  PROVE  NumberInv'
<1>1. Queued' = Queued
  BY DEF Queued
<1>2. nextSendSequence \in Nat
  BY DEF SendInv, SendTypes
<1> QED
  BY <1>1, <1>2, SendAssumption DEF SendInv, NumberInv, NumbersAreUnique

(* And the queues stay as even as they were as long as nobody looks at one *)
(* and nothing is pushed.                                                  *)
LEMMA LoadKept ==
  ASSUME SendInv, UNCHANGED peak,
         \A p \in IO : Len(queue'[p]) \in Nat /\ Len(queue'[p]) <= Len(queue[p]),
         \A p \in IO, k \in Nat : Behind(p, k)' \subseteq Behind(p, k)
  PROVE  LoadInv'
<1>1. \A p \in IO : Len(queue[p]) \in Nat /\ peak[p] \in Nat
  BY DEF SendInv, SendTypes
<1>2. \A p \in IO : Len(queue'[p]) <= peak'[p]
  BY <1>1 DEF SendInv, LoadInv
<1>3. ASSUME NEW p \in IO, NEW q \in IO, NEW k \in Nat, peak'[q] <= k
      PROVE  Len(queue'[p]) + Cardinality(Behind(p, k)') <= k + Cardinality(Senders)
  <2>1. Len(queue[p]) + Cardinality(Behind(p, k)) <= k + Cardinality(Senders)
    BY <1>3 DEF SendInv, LoadInv
  <2>2. Cardinality(Behind(p, k)') <= Cardinality(Behind(p, k))
    BY BehindFinite, FS_Subset
  <2>3. /\ Cardinality(Behind(p, k)) \in Nat /\ Cardinality(Behind(p, k)') \in Nat
        /\ Cardinality(Senders) \in Nat
    BY BehindFinite
  <2> QED
    BY <1>1, <2>1, <2>2, <2>3
<1> QED
  BY <1>2, <1>3 DEF LoadInv

LEMMA BuildKeeps ==
  ASSUME SendInv, NEW t \in Senders, BuildBegin(t) \/ BuildEnd(t)
  PROVE  SendInv'
<1>1. /\ UNCHANGED <<scanned, best, bestSize, queue, sent, peak>>
      /\ \E s \in Stages : stage' = [stage EXCEPT ![t] = s]
      /\ \E n \in Nat : number' = [number EXCEPT ![t] = n]
  <2>1. number = [number EXCEPT ![t] = number[t]] /\ number[t] \in Nat
    BY DEF SendInv, SendTypes
  <2> QED
    BY <2>1 DEF BuildBegin, BuildEnd, Passes, packetVars, Stages, SendInv,
       SendTypes
<1>2. /\ stage \in [Senders -> Stages] /\ number \in [Senders -> Nat]
      /\ nextSendSequence \in 1 .. SequenceMax /\ SequenceMax \in Nat \ {0}
  BY SendAssumption DEF SendInv, SendTypes
<1>3. \A u \in Senders \ {t} :
        /\ stage'[u] = stage[u] /\ number'[u] = number[u]
        /\ scanned'[u] = scanned[u] /\ best'[u] = best[u]
        /\ bestSize'[u] = bestSize[u]
  BY <1>1, <1>2
<1>4. \A q \in IO : peak'[q] \in Nat /\ peak[q] <= peak'[q]
  BY <1>1 DEF SendInv, SendTypes
<1>5. LoadInv'
  <2>1. \A p \in IO, k \in Nat : Behind(p, k)' \subseteq Behind(p, k)
    BY <1>1 DEF Behind
  <2>2. \A p \in IO : Len(queue'[p]) \in Nat /\ Len(queue'[p]) <= Len(queue[p])
    BY <1>1 DEF SendInv, SendTypes
  <2> QED
    BY <1>1, <2>1, <2>2, LoadKept
<1>6. CASE BuildBegin(t)
  <2>1. /\ \A u \in Senders : stage[u] # "build"
        /\ nextSendSequence < SequenceMax
        /\ stage[t] = "out" /\ stage'[t] = "build"
        /\ number'[t] = nextSendSequence
        /\ nextSendSequence' = nextSendSequence
    BY <1>2, <1>6 DEF BuildBegin, SendMutexFree, Numbered, Passes
  <2>2. \A u \in Senders \ {t} : Sends(u)'
    BY <1>3, <1>4, <2>1, OthersStillSend
  <2>3. Sends(t)'
    BY <1>1, <1>2, <1>3, <2>1 DEF SendInv, Sends, InHand
  <2>4. InHand' \subseteq InHand /\ \A u \in InHand' : number'[u] = number[u]
    BY <1>2, <1>3, <2>1 DEF InHand
  <2>5. NumberInv'
    BY <1>1, <1>2, <2>1, <2>4, NumbersKept
  <2>6. SendTypes'
    BY <1>1, <1>2, <2>1 DEF SendInv, SendTypes
  <2> QED
    BY <1>5, <2>2, <2>3, <2>5, <2>6 DEF SendInv
<1>7. CASE BuildEnd(t)
  <2>1. /\ stage[t] = "build" /\ number[t] = nextSendSequence
        /\ nextSendSequence < SequenceMax
    BY <1>7 DEF BuildEnd, Passes, SendInv, Sends
  <2>2. (nextSendSequence + 1) % (SequenceMax + 1) = nextSendSequence + 1
    BY <1>2, <2>1
  <2>3. \/ /\ stage'[t] = "state" /\ nextSendSequence' = nextSendSequence + 1
           /\ number' = number
        \/ /\ stage'[t] = "out" /\ nextSendSequence' = nextSendSequence
    BY <1>2, <1>7, <2>2 DEF BuildEnd, Passes
  <2>4. \A u \in Senders \ {t} : Sends(u)'
    BY <1>3, <1>4, <2>1, <2>3, OthersStillSend
  <2>5. Sends(t)'
    BY <1>1, <1>2, <2>1, <2>3 DEF SendInv, Sends, InHand
  <2>6. SendTypes'
    BY <1>1, <1>2, <2>1, <2>3 DEF SendInv, SendTypes
  <2>7. NumberInv'
    <3>1. CASE stage'[t] = "out" /\ nextSendSequence' = nextSendSequence
      <4>1. InHand' \subseteq InHand /\ \A u \in InHand' : number'[u] = number[u]
        BY <1>2, <1>3, <3>1 DEF InHand
      <4> QED
        BY <1>1, <1>2, <3>1, <4>1, NumbersKept
    <3>2. CASE /\ stage'[t] = "state" /\ number' = number
               /\ nextSendSequence' = nextSendSequence + 1
      <4>1. \A u \in InHand' : u = t \/ u \in InHand
        BY <1>3 DEF InHand
      <4>2. Queued' = Queued
        BY <1>1 DEF Queued
      <4>3. \A u \in InHand : number[u] \in 1 .. nextSendSequence - 1
        BY DEF SendInv, Sends, InHand
      <4>4. sent \cup Queued \subseteq 1 .. nextSendSequence - 1
        BY DEF SendInv, NumberInv
      <4>5. \A u \in InHand' :
              /\ number'[u] \notin sent \cup Queued
              /\ \A v \in InHand' \ {u} : number'[v] # number'[u]
        BY <1>2, <2>1, <3>2, <4>1, <4>3, <4>4
        DEF SendInv, NumberInv, NumbersAreUnique
      <4> QED
        BY <1>1, <1>2, <2>1, <3>2, <4>2, <4>4, <4>5
        DEF SendInv, NumberInv, NumbersAreUnique
    <3> QED
      BY <2>3, <3>1, <3>2
  <2> QED
    BY <1>5, <2>4, <2>5, <2>6, <2>7 DEF SendInv
<1> QED
  BY <1>6, <1>7

LEMMA CheckManagerKeeps ==
  ASSUME SendInv, NEW t \in Senders, CheckManager(t)
  PROVE  SendInv'
<1>1. /\ UNCHANGED <<nextSendSequence, queue, sent, peak>>
      /\ stage[t] = "state"
      /\ \/ stage' = [stage EXCEPT ![t] = "scan"] /\ UNCHANGED scanVars
         \/ /\ stage' = [stage EXCEPT ![t] = "out"]
            /\ number' = [number EXCEPT ![t] = 0]
            /\ scanned' = [scanned EXCEPT ![t] = 0]
            /\ best' = [best EXCEPT ![t] = NoProcessor]
            /\ bestSize' = [bestSize EXCEPT ![t] = 0]
  BY DEF CheckManager, Passes, Returns, packetVars
<1>2. /\ SendTypes /\ Sends(t) /\ IoCount \in Nat \ {0}
      /\ scanned[t] = 0 /\ best[t] = NoProcessor /\ t \in InHand
  BY <1>1, IOFacts DEF SendInv, Sends, InHand
<1>3. \A u \in Senders \ {t} :
        /\ stage'[u] = stage[u] /\ number'[u] = number[u]
        /\ scanned'[u] = scanned[u] /\ best'[u] = best[u]
        /\ bestSize'[u] = bestSize[u]
  BY <1>1, <1>2 DEF SendTypes, scanVars
<1>4. /\ stage'[t] \in {"scan", "out"} /\ scanned'[t] = 0
      /\ best'[t] = NoProcessor
      /\ stage'[t] = "scan" => number'[t] = number[t]
  BY <1>1, <1>2 DEF SendTypes, scanVars
<1>5. SendTypes'
  <2>1. /\ stage' \in [Senders -> Stages] /\ number' \in [Senders -> Nat]
        /\ scanned' \in [Senders -> Nat] /\ bestSize' \in [Senders -> Nat]
    BY <1>1, <1>2 DEF SendTypes, Stages, scanVars
  <2>2. best' \in [Senders -> IO \cup {NoProcessor}]
    <3> HIDE DEF IO, NoProcessor
    <3> QED
      BY <1>1, <1>2 DEF SendTypes, scanVars
  <2> QED
    BY <1>1, <1>2, <2>1, <2>2 DEF SendTypes
<1>6. \A u \in Senders \ {t} : Sends(u)'
  <2>1. nextSendSequence' = nextSendSequence /\ stage'[t] # "build"
    BY <1>1, <1>4
  <2>2. \A q \in IO : peak'[q] \in Nat /\ peak[q] <= peak'[q]
    BY <1>1, <1>2 DEF SendTypes
  <2> QED
    BY <1>3, <2>1, <2>2, OthersStillSend
<1>7. Sends(t)'
  BY <1>1, <1>2, <1>4 DEF Sends, InHand
<1>8. NumberInv'
  <2>1. InHand' \subseteq InHand /\ \A u \in InHand' : number'[u] = number[u]
    BY <1>2, <1>3, <1>4 DEF InHand
  <2> QED
    BY <1>1, <1>2, <2>1, NumbersKept DEF SendTypes
<1>9. LoadInv'
  <2>1. \A p \in IO, k \in Nat : Behind(p, k)' \subseteq Behind(p, k)
    BY <1>3, <1>4, IOFacts DEF Behind
  <2>2. \A p \in IO : Len(queue'[p]) \in Nat /\ Len(queue'[p]) <= Len(queue[p])
    BY <1>1, <1>2 DEF SendTypes
  <2> QED
    BY <1>1, <2>1, <2>2, LoadKept
<1> QED
  BY <1>5, <1>6, <1>7, <1>8, <1>9 DEF SendInv

LEMMA ScanQueueKeeps ==
  ASSUME SendInv, NEW t \in Senders, ScanQueue(t)
  PROVE  SendInv'
<1>0. PICK next, p, size :
      next = scanned[t] + 1 /\ p = <<"IO", next>> /\ size = Len(queue[p])
  OBVIOUS
<1>1. /\ UNCHANGED <<nextSendSequence, number, queue, sent, peak>>
      /\ stage[t] = "scan"
      /\ stage' = [stage EXCEPT ![t] =
                     IF size = 0 \/ next = IoCount THEN "push" ELSE "scan"]
      /\ scanned' = [scanned EXCEPT ![t] = next]
      /\ \/ /\ best[t] = NoProcessor \/ size < bestSize[t] \/ size = 0
            /\ best' = [best EXCEPT ![t] = p]
            /\ bestSize' = [bestSize EXCEPT ![t] = size]
         \/ /\ best[t] # NoProcessor /\ ~(size < bestSize[t]) /\ size # 0
            /\ UNCHANGED <<best, bestSize>>
  BY <1>0 DEF ScanQueue, Passes, Last, FewerSeen, packetVars
<1>2. /\ SendTypes /\ Sends(t) /\ IoCount \in Nat \ {0}
      /\ scanned[t] \in Nat /\ scanned[t] < IoCount
      /\ p \in IO /\ size \in Nat /\ bestSize[t] \in Nat
      /\ peak[p] \in Nat /\ size <= peak[p] /\ p # NoProcessor /\ p[2] = next
      /\ next \in Nat \ {0} /\ next <= IoCount
      /\ \A q \in IO : peak[q] \in Nat
  <2>1. /\ scanned[t] \in Nat /\ scanned[t] < IoCount /\ IoCount \in Nat \ {0}
        /\ bestSize[t] \in Nat /\ \A q \in IO : peak[q] \in Nat
    BY <1>1, IOFacts DEF SendInv, SendTypes, Sends
  <2>2. p \in IO /\ p # NoProcessor /\ p[2] = next
    BY <1>0, <2>1, IOFacts
  <2>3. size \in Nat /\ size <= peak[p]
    BY <1>0, <2>2 DEF SendInv, SendTypes, LoadInv
  <2> QED
    BY <1>0, <2>1, <2>2, <2>3 DEF SendInv
<1>3. \A u \in Senders \ {t} :
        /\ stage'[u] = stage[u] /\ number'[u] = number[u]
        /\ scanned'[u] = scanned[u] /\ best'[u] = best[u]
        /\ bestSize'[u] = bestSize[u]
  BY <1>1, <1>2 DEF SendTypes
<1>4. /\ stage'[t] = IF size = 0 \/ next = IoCount THEN "push" ELSE "scan"
      /\ scanned'[t] = next
      /\ best'[t] \in IO /\ bestSize'[t] \in Nat /\ bestSize'[t] <= size
      /\ \/ best'[t] = p /\ bestSize'[t] = size
         \/ best'[t] = best[t] /\ bestSize'[t] = bestSize[t]
      /\ best[t] # NoProcessor => bestSize'[t] <= bestSize[t]
  <2>1. /\ t \in DOMAIN stage /\ t \in DOMAIN scanned
        /\ t \in DOMAIN best /\ t \in DOMAIN bestSize
        /\ best[t] \in IO \cup {NoProcessor}
    BY <1>2 DEF SendTypes
  <2> HIDE DEF IO, NoProcessor
  <2> QED
    BY <1>1, <1>2, <2>1
<1>5. SendTypes'
  <2>1. /\ stage' \in [Senders -> Stages] /\ scanned' \in [Senders -> Nat]
        /\ bestSize' \in [Senders -> Nat]
    BY <1>1, <1>2 DEF SendTypes, Stages
  <2>2. best' \in [Senders -> IO \cup {NoProcessor}]
    <3> HIDE DEF IO, NoProcessor
    <3> QED
      BY <1>1, <1>2 DEF SendTypes
  <2> QED
    BY <1>1, <1>2, <2>1, <2>2 DEF SendTypes
<1>6. \A u \in Senders \ {t} : Sends(u)'
  <2>1. nextSendSequence' = nextSendSequence /\ stage'[t] # "build"
    BY <1>1, <1>4
  <2>2. \A q \in IO : peak'[q] \in Nat /\ peak[q] <= peak'[q]
    BY <1>1, <1>2 DEF SendTypes
  <2> QED
    BY <1>3, <2>1, <2>2, OthersStillSend
<1>7. Sends(t)'
  <2>1. \A q \in IO : q \in Seen(t)' => q \in Seen(t) \/ q = p
    BY <1>0, <1>2, <1>4, IOFacts DEF Seen
  <2>2. \A q \in Seen(t) : best[t] # NoProcessor /\ bestSize[t] <= peak[q]
    BY <1>0, <1>1, <1>2, IOFacts DEF Sends, Seen
  <2>3. \A q \in Seen(t)' : bestSize'[t] <= peak[q]
    <3> SUFFICES ASSUME NEW q \in Seen(t)'  PROVE bestSize'[t] <= peak[q]
      OBVIOUS
    <3>1. q \in IO
      BY DEF Seen
    <3>2. CASE q = p
      BY <1>2, <1>4, <3>2
    <3>3. CASE q # p
      <4>1. best[t] # NoProcessor /\ bestSize[t] <= peak[q]
        BY <2>1, <2>2, <3>1, <3>3
      <4> QED
        BY <1>2, <1>4, <3>1, <4>1
    <3> QED
      BY <3>2, <3>3
  <2>4. CASE stage'[t] = "push"
    <3>1. size = 0 \/ \A q \in IO : q \in Seen(t)'
      BY <1>2, <1>4, <2>4, IOFacts DEF Seen
    <3>2. \A q \in IO : bestSize'[t] <= peak[q]
      BY <1>2, <1>4, <2>3, <3>1
    <3> QED
      BY <1>1, <1>2, <1>4, <2>4, <3>2 DEF Sends, InHand
  <2>5. CASE stage'[t] = "scan"
    <3>1. next < IoCount /\ next # 0 /\ best'[t] # NoProcessor
      BY <1>2, <1>4, <2>5, IOFacts
    <3> QED
      BY <1>1, <1>2, <1>4, <2>3, <2>5, <3>1 DEF Sends, InHand
  <2> QED
    BY <1>4, <2>4, <2>5
<1>8. NumberInv'
  <2>1. InHand' \subseteq InHand /\ \A u \in InHand' : number'[u] = number[u]
    BY <1>1, <1>3 DEF InHand
  <2> QED
    BY <1>1, <1>2, <2>1, NumbersKept DEF SendTypes
<1>9. LoadInv'
  <2> SUFFICES ASSUME NEW r \in IO, NEW q \in IO, NEW k \in Nat, peak[q] <= k
               PROVE  Len(queue[r]) + Cardinality(Behind(r, k)')
                        <= k + Cardinality(Senders)
    BY <1>1 DEF SendInv, LoadInv
  <2>1. /\ Cardinality(Behind(r, k)) \in Nat /\ Cardinality(Behind(r, k)') \in Nat
        /\ Cardinality(Senders) \in Nat
        /\ Cardinality(Behind(r, k)') <= Cardinality(Senders)
        /\ Len(queue[r]) \in Nat
    <3>1. Len(queue[r]) \in Nat
      BY DEF SendInv, SendTypes
    <3> QED
      BY <3>1, BehindFinite
  <2>2. CASE r = p /\ size <= k
    BY <1>0, <2>1, <2>2
  <2>3. CASE ~(r = p /\ size <= k)
    <3>1. Behind(r, k)' \subseteq Behind(r, k)
      BY <1>3, <1>4, <2>3 DEF Behind
    <3>2. Cardinality(Behind(r, k)') <= Cardinality(Behind(r, k))
      BY <3>1, BehindFinite, FS_Subset
    <3>3. Len(queue[r]) + Cardinality(Behind(r, k)) <= k + Cardinality(Senders)
      BY DEF SendInv, LoadInv
    <3> QED
      BY <2>1, <3>2, <3>3
  <2> QED
    BY <2>2, <2>3
<1> QED
  BY <1>5, <1>6, <1>7, <1>8, <1>9 DEF SendInv

LEMMA PlacesAreUnique ==
  ASSUME SendInv, NEW p \in IO, NEW q \in IO, NEW i \in DOMAIN queue[p],
         NEW j \in DOMAIN queue[q], queue[p][i] = queue[q][j]
  PROVE  p = q /\ i = j
BY DEF SendInv, NumberInv, NumbersAreUnique

(* A queue that loses its front keeps its numbers apart, whether that      *)
(* number is sent or lost.                                                 *)
LEMMA ShorterQueuesKeep ==
  ASSUME SendInv, UNCHANGED <<nextSendSequence, stage, scanVars, peak>>,
         queue' \in [IO -> Seq(Nat)], sent' \subseteq sent \cup Queued,
         sent' \cap Queued' = {},
         \A p \in IO : \A i \in DOMAIN queue'[p] :
           /\ \E k \in DOMAIN queue[p] : queue'[p][i] = queue[p][k]
           /\ \A j \in DOMAIN queue'[p] : queue'[p][i] = queue'[p][j] => i = j,
         \A p \in IO : Len(queue'[p]) <= Len(queue[p])
  PROVE  SendInv'
<1>1. \A n : (n \in Queued)' => n \in Queued
  BY QueuedMembers
<1>2. SendTypes' /\ \A t \in Senders : Sends(t)'
  <2>1. sent \cup Queued \subseteq 1 .. nextSendSequence - 1
    BY DEF SendInv, NumberInv
  <2>2. sent' \subseteq Nat
    BY <2>1 DEF SendInv, SendTypes
  <2>3. SendTypes'
    BY <2>2 DEF SendInv, SendTypes, scanVars
  <2> QED
    BY <2>3 DEF SendInv, scanVars, Sends, InHand, Seen
<1>3. sent' \cup Queued' \subseteq sent \cup Queued
  BY <1>1
<1>4. InHand' = InHand /\ number' = number
  BY DEF InHand, scanVars
<1>5. \A p, q \in IO : \A i \in DOMAIN queue'[p], j \in DOMAIN queue'[q] :
        queue'[p][i] = queue'[q][j] => p = q /\ i = j
  <2> SUFFICES ASSUME NEW p \in IO, NEW q \in IO, NEW i \in DOMAIN queue'[p],
                      NEW j \in DOMAIN queue'[q], queue'[p][i] = queue'[q][j]
               PROVE  p = q /\ i = j
    OBVIOUS
  <2>1. PICK k \in DOMAIN queue[p] : queue'[p][i] = queue[p][k]
    OBVIOUS
  <2>2. PICK l \in DOMAIN queue[q] : queue'[q][j] = queue[q][l]
    OBVIOUS
  <2>3. queue[p][k] = queue[q][l]
    BY <2>1, <2>2
  <2>4. p = q
    BY <2>3, PlacesAreUnique
  <2> QED
    BY <2>4
<1>6. NumberInv'
  <2>1. \A t \in InHand :
          /\ number[t] \notin sent' \cup Queued'
          /\ \A u \in InHand \ {t} : number[u] # number[t]
    BY <1>3 DEF SendInv, NumberInv, NumbersAreUnique
  <2>2. sent' \cup Queued' \subseteq 1 .. nextSendSequence - 1
    BY <1>3 DEF SendInv, NumberInv
  <2>3. sent' \cup Queued' \subseteq 1 .. SequenceMax - 1
    BY <1>3 DEF SendInv, NumberInv, NumbersAreUnique
  <2> QED
    BY <1>4, <1>5, <2>1, <2>2, <2>3 DEF NumberInv, NumbersAreUnique
<1>7. LoadInv'
  <2>1. \A p \in IO : Len(queue'[p]) \in Nat /\ Len(queue'[p]) <= Len(queue[p])
    OBVIOUS
  <2>2. \A p \in IO, k \in Nat : Behind(p, k)' \subseteq Behind(p, k)
    BY DEF Behind, scanVars
  <2> QED
    BY <2>1, <2>2, LoadKept
<1> QED
  BY <1>2, <1>6, <1>7 DEF SendInv

LEMMA SendTaskKeeps ==
  ASSUME SendInv, NEW p \in IO, SendTask(p)
  PROVE  SendInv'
<1>1. /\ UNCHANGED <<nextSendSequence, stage, scanVars, peak>>
      /\ queue[p] # <<>> /\ queue' = [queue EXCEPT ![p] = Tail(queue[p])]
      /\ sent' = sent \cup {Head(queue[p])} \/ sent' = sent
      /\ queue \in [IO -> Seq(Nat)]
  BY DEF SendTask, SendInv, SendTypes
<1>2. /\ queue[p] \in Seq(Nat) /\ Tail(queue[p]) \in Seq(Nat)
      /\ Len(queue[p]) \in Nat \ {0}
      /\ Len(Tail(queue[p])) = Len(queue[p]) - 1
      /\ \A i \in DOMAIN Tail(queue[p]) :
           i + 1 \in DOMAIN queue[p] /\ Tail(queue[p])[i] = queue[p][i + 1]
      /\ 1 \in DOMAIN queue[p] /\ Head(queue[p]) = queue[p][1]
  BY <1>1
<1>3. \A q \in IO : \/ q = p /\ queue'[q] = Tail(queue[p])
                    \/ q # p /\ queue'[q] = queue[q]
  BY <1>1
<1>4. queue' \in [IO -> Seq(Nat)]
  BY <1>1, <1>2
<1>5. ASSUME NEW q \in IO, NEW i \in DOMAIN queue'[q]
      PROVE  \E k \in DOMAIN queue[q] : /\ queue'[q][i] = queue[q][k]
                                        /\ q = p => k = i + 1
  <2>1. CASE q = p
    <3>1. i \in DOMAIN Tail(queue[p]) /\ queue'[q] = Tail(queue[p])
      BY <1>3, <2>1
    <3> QED
      BY <1>2, <2>1, <3>1
  <2>2. CASE q # p
    BY <1>3, <2>2
  <2> QED
    BY <2>1, <2>2
<1>6. ASSUME NEW q \in IO, NEW i \in DOMAIN queue'[q], NEW j \in DOMAIN queue'[q],
             queue'[q][i] = queue'[q][j]
      PROVE  i = j
  <2>1. PICK k \in DOMAIN queue[q] : /\ queue'[q][i] = queue[q][k]
                                     /\ q = p => k = i + 1
    BY <1>5
  <2>2. PICK l \in DOMAIN queue[q] : /\ queue'[q][j] = queue[q][l]
                                     /\ q = p => l = j + 1
    BY <1>5
  <2>3. k = l
    <3>1. queue[q][k] = queue[q][l]
      BY <1>6, <2>1, <2>2
    <3> QED
      BY <3>1, PlacesAreUnique
  <2>4. CASE q = p
    <3>1. i \in Nat /\ j \in Nat
      BY <1>4
    <3> QED
      BY <2>1, <2>2, <2>3, <2>4, <3>1
  <2>5. CASE q # p
    <3>1. queue'[q] = queue[q]
      BY <1>3, <2>5
    <3> QED
      BY <1>6, <3>1, PlacesAreUnique
  <2> QED
    BY <2>4, <2>5
<1>7. sent' \subseteq sent \cup Queued
  BY <1>1, <1>2, QueuedMembers
<1>8. sent' \cap Queued' = {}
  <2> SUFFICES ASSUME NEW q \in IO, NEW i \in DOMAIN queue'[q],
                      queue'[q][i] \in sent'
               PROVE  FALSE
    BY QueuedMembers
  <2>1. PICK k \in DOMAIN queue[q] : /\ queue'[q][i] = queue[q][k]
                                     /\ q = p => k = i + 1
    BY <1>5
  <2>2. queue'[q][i] \in Queued
    BY <2>1, QueuedMembers
  <2>3. queue[q][k] = queue[p][1]
    BY <1>1, <1>2, <2>1, <2>2 DEF SendInv, NumberInv, NumbersAreUnique
  <2>4. q = p /\ k = 1
    BY <1>2, <2>3, PlacesAreUnique
  <2>5. i \in Nat \ {0}
    BY <1>4
  <2> QED
    BY <2>1, <2>4, <2>5
<1>9. ASSUME NEW q \in IO  PROVE Len(queue'[q]) <= Len(queue[q])
  <2>1. Len(queue[q]) \in Nat
    BY <1>1
  <2>2. CASE q = p
    <3>1. queue'[q] = Tail(queue[p])
      BY <1>3, <2>2
    <3> QED
      BY <1>2, <2>2, <3>1
  <2>3. CASE q # p
    <3>1. queue'[q] = queue[q]
      BY <1>3, <2>3
    <3> QED
      BY <2>1, <3>1
  <2> QED
    BY <2>2, <2>3
<1> QED
  BY <1>1, <1>4, <1>5, <1>6, <1>7, <1>8, <1>9, ShorterQueuesKeep

LEMMA SendLifecycleKeeps ==
  ASSUME SendInv, SendLifecycle
  PROVE  SendInv'
<1>1. /\ UNCHANGED <<nextSendSequence, stage, scanVars, sent, peak>>
      /\ queue' = [p \in IO |-> IF service'[p] = "Stopped" THEN <<>> ELSE queue[p]]
      /\ queue \in [IO -> Seq(Nat)]
  BY DEF SendLifecycle, SendInv, SendTypes
<1>2. queue' \in [IO -> Seq(Nat)]
  BY <1>1
<1>3. \A p \in IO : queue'[p] = <<>> \/ queue'[p] = queue[p]
  BY <1>1
<1>4. ASSUME NEW p \in IO
      PROVE  /\ DOMAIN queue'[p] \subseteq DOMAIN queue[p]
             /\ \A i \in DOMAIN queue'[p] : queue'[p][i] = queue[p][i]
             /\ Len(queue'[p]) <= Len(queue[p])
  <2>1. queue[p] \in Seq(Nat) /\ Len(queue[p]) \in Nat
    BY <1>1
  <2> QED
    BY <1>3, <2>1
<1>5. ASSUME NEW p \in IO, NEW i \in DOMAIN queue'[p]
      PROVE  /\ \E k \in DOMAIN queue[p] : queue'[p][i] = queue[p][k]
             /\ \A j \in DOMAIN queue'[p] : queue'[p][i] = queue'[p][j] => i = j
  BY <1>4, PlacesAreUnique
<1>6. sent' \subseteq sent \cup Queued /\ sent' \cap Queued' = {}
  <2>1. \A n : (n \in Queued)' => n \in Queued
    BY <1>4, <1>3, QueuedMembers
  <2> QED
    BY <1>1, <2>1 DEF SendInv, NumberInv, NumbersAreUnique
<1> QED
  BY <1>1, <1>2, <1>4, <1>5, <1>6, ShorterQueuesKeep

LEMMA PushPacketKeeps ==
  ASSUME SendInv, NEW t \in Senders, PushPacket(t)
  PROVE  SendInv'
<1>0. PICK p : p = best[t]
  OBVIOUS
<1>1. /\ UNCHANGED <<nextSendSequence, sent>>
      /\ stage[t] = "push"
      /\ stage' = [stage EXCEPT ![t] = "out"]
      /\ number' = [number EXCEPT ![t] = 0]
      /\ scanned' = [scanned EXCEPT ![t] = 0]
      /\ best' = [best EXCEPT ![t] = NoProcessor]
      /\ bestSize' = [bestSize EXCEPT ![t] = 0]
      /\ \/ UNCHANGED <<queue, peak>>
         \/ /\ queue' = [queue EXCEPT ![p] = Append(queue[p], number[t])]
            /\ peak' = [peak EXCEPT ![p] = IF peak[p] > Len(queue[p])
                                           THEN peak[p] ELSE peak[p] + 1]
  <2>1. /\ queue \in [IO -> Seq(Nat)] /\ peak \in [IO -> Nat]
    BY DEF SendInv, SendTypes
  <2> QED
    BY <1>0, <2>1 DEF PushPacket, Passes, Returns
<1>2. /\ SendTypes /\ p \in IO /\ t \in InHand /\ number[t] \in Nat
      /\ \A q \in IO : bestSize[t] <= peak[q]
      /\ number[t] \in 1 .. nextSendSequence - 1
  BY <1>0, <1>1 DEF SendInv, SendTypes, Sends, InHand
<1>3. \A u \in Senders \ {t} :
        /\ stage'[u] = stage[u] /\ number'[u] = number[u]
        /\ scanned'[u] = scanned[u] /\ best'[u] = best[u]
        /\ bestSize'[u] = bestSize[u]
  BY <1>1, <1>2 DEF SendTypes
<1>4. /\ stage'[t] = "out" /\ scanned'[t] = 0 /\ best'[t] = NoProcessor
      /\ number'[t] = 0 /\ bestSize'[t] = 0
  BY <1>1, <1>2 DEF SendTypes
<1>5. /\ queue \in [IO -> Seq(Nat)] /\ peak \in [IO -> Nat]
      /\ \A q \in IO : Len(queue[q]) \in Nat /\ Len(queue[q]) <= peak[q]
      /\ \A q \in IO : peak[q] \in Nat
  BY <1>2 DEF SendTypes, SendInv, LoadInv
<1>6. /\ \A q \in IO : /\ peak'[q] \in Nat /\ peak[q] <= peak'[q]
                       /\ queue'[q] \in Seq(Nat) /\ Len(queue'[q]) \in Nat
                       /\ Len(queue'[q]) <= peak'[q]
                       /\ q # p => queue'[q] = queue[q]
      /\ Len(queue'[p]) <= Len(queue[p]) + 1
      /\ queue' \in [IO -> Seq(Nat)] /\ peak' \in [IO -> Nat]
  <2>1. CASE UNCHANGED <<queue, peak>>
    BY <1>2, <1>5, <2>1
  <2>2. CASE /\ queue' = [queue EXCEPT ![p] = Append(queue[p], number[t])]
             /\ peak' = [peak EXCEPT ![p] = IF peak[p] > Len(queue[p])
                                            THEN peak[p] ELSE peak[p] + 1]
    <3>1. /\ Append(queue[p], number[t]) \in Seq(Nat)
          /\ Len(Append(queue[p], number[t])) = Len(queue[p]) + 1
      BY <1>2, <1>5
    <3>2. /\ queue'[p] = Append(queue[p], number[t])
          /\ peak'[p] = IF peak[p] > Len(queue[p]) THEN peak[p] ELSE peak[p] + 1
          /\ \A q \in IO \ {p} : queue'[q] = queue[q] /\ peak'[q] = peak[q]
      BY <1>2, <1>5, <2>2
    <3>3. queue' \in [IO -> Seq(Nat)]
      BY <1>2, <1>5, <2>2, <3>1
    <3>4. peak' \in [IO -> Nat]
      BY <1>2, <1>5, <2>2
    <3>5. /\ peak'[p] \in Nat /\ peak[p] <= peak'[p]
          /\ Len(queue'[p]) = Len(queue[p]) + 1 /\ Len(queue'[p]) <= peak'[p]
      BY <1>2, <1>5, <3>1, <3>2
    <3> QED
      BY <1>2, <1>5, <3>1, <3>2, <3>3, <3>4, <3>5
  <2> QED
    BY <1>1, <2>1, <2>2
<1>7. SendTypes'
  <2>1. /\ stage' \in [Senders -> Stages] /\ number' \in [Senders -> Nat]
        /\ scanned' \in [Senders -> Nat] /\ bestSize' \in [Senders -> Nat]
    BY <1>1, <1>2 DEF SendTypes, Stages
  <2>2. best' \in [Senders -> IO \cup {NoProcessor}]
    <3> HIDE DEF IO, NoProcessor
    <3> QED
      BY <1>1, <1>2 DEF SendTypes
  <2>3. nextSendSequence' \in 1 .. SequenceMax /\ sent' \subseteq Nat
    BY <1>1, <1>2 DEF SendTypes
  <2> QED
    BY <1>6, <2>1, <2>2, <2>3 DEF SendTypes
<1>8. \A u \in Senders \ {t} : Sends(u)'
  <2>1. nextSendSequence' = nextSendSequence /\ stage'[t] # "build"
    BY <1>1, <1>4
  <2>2. \A q \in IO : peak'[q] \in Nat /\ peak[q] <= peak'[q]
    BY <1>6
  <2> QED
    BY <1>3, <2>1, <2>2, OthersStillSend
<1>9. Sends(t)'
  BY <1>4 DEF Sends, InHand
<1>10. NumberInv'
  <2>1. \A u \in InHand' : u \in InHand /\ u # t /\ number'[u] = number[u]
    BY <1>3, <1>4 DEF InHand
  <2>2. CASE UNCHANGED <<queue, peak>>
    <3>1. nextSendSequence \in 1 .. SequenceMax
      BY <1>2 DEF SendTypes
    <3> QED
      BY <1>1, <2>1, <2>2, <3>1, NumbersKept
  <2>3. CASE queue' = [queue EXCEPT ![p] = Append(queue[p], number[t])]
    <3>1. /\ queue'[p] = Append(queue[p], number[t])
          /\ queue[p] \in Seq(Nat) /\ Len(queue[p]) \in Nat
      BY <1>2, <1>5, <2>3
    <3>2. ASSUME NEW q \in IO, NEW i \in DOMAIN queue'[q]
          PROVE  \/ i \in DOMAIN queue[q] /\ queue'[q][i] = queue[q][i]
                 \/ q = p /\ i = Len(queue[p]) + 1 /\ queue'[q][i] = number[t]
      <4>1. CASE q = p
        BY <1>2, <3>1, <4>1
      <4>2. CASE q # p
        BY <1>6, <4>2
      <4> QED
        BY <4>1, <4>2
    <3>3. number[t] \notin sent \cup Queued
      BY <1>2 DEF SendInv, NumberInv, NumbersAreUnique
    <3>4. \A n : (n \in Queued)' => n \in Queued \/ n = number[t]
      BY <3>2, QueuedMembers
    <3>5. \A q, r \in IO : \A i \in DOMAIN queue'[q], j \in DOMAIN queue'[r] :
            queue'[q][i] = queue'[r][j] => q = r /\ i = j
      <4> SUFFICES ASSUME NEW q \in IO, NEW r \in IO, NEW i \in DOMAIN queue'[q],
                          NEW j \in DOMAIN queue'[r],
                          queue'[q][i] = queue'[r][j]
                   PROVE  q = r /\ i = j
        OBVIOUS
      <4>1. CASE i \in DOMAIN queue[q] /\ queue'[q][i] = queue[q][i]
        <5>1. queue'[r][j] # number[t]
          BY <3>3, <4>1, QueuedMembers
        <5>2. j \in DOMAIN queue[r] /\ queue'[r][j] = queue[r][j]
          BY <3>2, <5>1
        <5>3. /\ i \in DOMAIN queue[q] /\ j \in DOMAIN queue[r]
              /\ queue[q][i] = queue[r][j]
          BY <4>1, <5>2
        <5> QED
          BY <5>3, PlacesAreUnique
      <4>2. CASE q = p /\ i = Len(queue[p]) + 1 /\ queue'[q][i] = number[t]
        <5>1. ~(j \in DOMAIN queue[r] /\ queue'[r][j] = queue[r][j])
          BY <3>3, <4>2, QueuedMembers
        <5> QED
          BY <3>2, <4>2, <5>1
      <4> QED
        BY <3>2, <4>1, <4>2
    <3>6. sent \cup Queued' \subseteq 1 .. nextSendSequence - 1
      BY <1>2, <3>4 DEF SendInv, NumberInv
    <3>7. nextSendSequence \in Nat /\ nextSendSequence <= SequenceMax
      BY <1>2, SendAssumption DEF SendTypes
    <3>8. \A u \in InHand' :
            /\ number'[u] \notin sent \cup Queued'
            /\ \A v \in InHand' \ {u} : number'[v] # number'[u]
      BY <1>2, <2>1, <3>4 DEF SendInv, NumberInv, NumbersAreUnique
    <3>9. sent \cap Queued' = {}
      BY <3>3, <3>4 DEF SendInv, NumberInv, NumbersAreUnique
    <3>10. sent \cup Queued' \subseteq 1 .. SequenceMax - 1
      BY <3>6, <3>7, SendAssumption
    <3> QED
      BY <1>1, <3>5, <3>6, <3>8, <3>9, <3>10 DEF NumberInv, NumbersAreUnique
  <2> QED
    BY <1>1, <2>2, <2>3
<1>11. LoadInv'
  <2> SUFFICES ASSUME NEW r \in IO, NEW q \in IO, NEW k \in Nat, peak'[q] <= k
               PROVE  Len(queue'[r]) + Cardinality(Behind(r, k)')
                        <= k + Cardinality(Senders)
    BY <1>6 DEF LoadInv
  <2>1. peak[q] <= k /\ bestSize[t] <= k
    <3>1. bestSize[t] \in Nat /\ bestSize[t] <= peak[q]
      BY <1>2 DEF SendTypes
    <3> QED
      BY <1>6, <1>5, <3>1
  <2>2. Len(queue[r]) + Cardinality(Behind(r, k)) <= k + Cardinality(Senders)
    BY <2>1 DEF SendInv, LoadInv
  <2>3. /\ Cardinality(Behind(r, k)) \in Nat /\ Cardinality(Behind(r, k)') \in Nat
        /\ Cardinality(Senders) \in Nat /\ IsFiniteSet(Behind(r, k))
    BY BehindFinite
  <2>4. Behind(r, k)' = Behind(r, k) \ {t}
    BY <1>2, <1>3, <1>4, IOFacts DEF Behind
  <2>5. CASE r = p
    <3>1. t \in Behind(r, k)
      BY <1>0, <2>1, <2>5 DEF Behind
    <3>2. Cardinality(Behind(r, k)') = Cardinality(Behind(r, k)) - 1
      BY <2>3, <2>4, <3>1, FS_RemoveElement
    <3> QED
      BY <1>5, <1>6, <2>2, <2>3, <2>5, <3>2
  <2>6. CASE r # p
    <3>1. Cardinality(Behind(r, k)') <= Cardinality(Behind(r, k))
      BY <2>3, <2>4, FS_Subset
    <3> QED
      BY <1>5, <1>6, <2>2, <2>3, <2>6, <3>1
  <2> QED
    BY <2>5, <2>6
<1> QED
  BY <1>7, <1>8, <1>9, <1>10, <1>11 DEF SendInv

LEMMA SendNextInv == SendInv /\ [SendNext]_sendVars => SendInv'
<1> SUFFICES ASSUME SendInv, [SendNext]_sendVars  PROVE SendInv'
  OBVIOUS
<1>1. CASE UNCHANGED sendVars
  <2>1. UNCHANGED <<nextSendSequence, stage, number, scanned, best, bestSize,
                    queue, sent, peak>>
    BY <1>1 DEF sendVars, scanVars, packetVars
  <2>2. Queued' = Queued /\ InHand' = InHand
    BY <2>1 DEF Queued, InHand
  <2>3. \A p, k : Behind(p, k)' = Behind(p, k)
    BY <2>1 DEF Behind
  <2>4. SendTypes' /\ NumberInv' /\ \A t \in Senders : Sends(t)'
    BY <2>1, <2>2 DEF SendInv, SendTypes, NumberInv, NumbersAreUnique, Sends,
       Seen
  <2>5. LoadInv'
    BY <2>1, <2>3 DEF SendInv, LoadInv
  <2> QED
    BY <2>4, <2>5 DEF SendInv
<1>2. ASSUME NEW t \in Senders, BuildBegin(t) \/ SendStep(t)  PROVE SendInv'
  BY <1>2, BuildKeeps, CheckManagerKeeps, ScanQueueKeeps, PushPacketKeeps
  DEF SendStep
<1>3. ASSUME NEW p \in IO, SendTask(p)  PROVE SendInv'
  BY <1>3, SendTaskKeeps
<1>4. CASE SendLifecycle
  BY <1>4, SendLifecycleKeeps
<1> QED
  BY <1>1, <1>2, <1>3, <1>4 DEF SendNext

LEMMA SendSpecInv == SendSpec => []SendInv
BY SendInitInv, SendNextInv, PTL DEF SendSpec

(* No sequence number is used twice, however many threads send to the      *)
(* session, however the lifecycle's steps fall between numbering a packet, *)
(* queueing it and sending it, and whatever the last number is.            *)
THEOREM NumbersUnique == SendSpec => []NumbersAreUnique
<1>1. SendInv => NumbersAreUnique
  BY DEF SendInv, NumberInv
<1> QED
  BY <1>1, SendSpecInv, PTL

(* The choice of the shortest queue, stale as it is, keeps every I/O       *)
(* queue within the number of senders of every other's peak.               *)
THEOREM LoadIsSpread == SendSpec => []NoQueueRunsAway
<1>1. SendInv => NoQueueRunsAway
  <2> SUFFICES ASSUME SendInv, NEW p \in IO, NEW q \in IO
               PROVE  Len(queue[p]) <= peak[q] + Cardinality(Senders)
    BY DEF NoQueueRunsAway
  <2>1. peak[q] \in Nat /\ Len(queue[p]) \in Nat
    BY DEF SendInv, SendTypes
  <2>2. Len(queue[p]) + Cardinality(Behind(p, peak[q])) <= peak[q] + Cardinality(Senders)
    BY <2>1 DEF SendInv, LoadInv
  <2>3. Cardinality(Behind(p, peak[q])) \in Nat /\ Cardinality(Senders) \in Nat
    BY BehindFinite
  <2> QED
    BY <2>1, <2>2, <2>3
<1> QED
  BY <1>1, SendSpecInv, PTL

LEMMA SendStepIsLifecycle == [SendNext]_sendVars => [Next]_vars
<1> SUFFICES ASSUME SendNext  PROVE [Next]_vars
  BY DEF sendVars
<1>1. ASSUME NEW t \in Senders, BuildBegin(t) \/ SendStep(t)
      PROVE  UNCHANGED vars
  BY <1>1 DEF BuildBegin, SendStep, BuildEnd, CheckManager, ScanQueue, PushPacket
<1>2. ASSUME NEW p \in IO, SendTask(p)  PROVE UNCHANGED vars
  BY <1>2 DEF SendTask
<1>3. SendLifecycle => Next
  BY DEF SendLifecycle, Next
<1> QED
  BY <1>1, <1>2, <1>3 DEF SendNext

(* A server whose sessions are being sent to starts and stops the way      *)
(* ServerLifecycle says, and so its states mean what they say there.       *)
THEOREM SendPathImplementsLifecycle == SendSpec => Spec
<1>1. SendInit => Init
  BY DEF SendInit
<1> QED
  BY <1>1, SendStepIsLifecycle, PTL DEF SendSpec, Spec
-----------------------------------------------------------------------------
Places ==
  {"out", "dispatch", "AddClient", "RemoveClient", "RegisterClientSession",
   "RemoveClientSession", "add", "sweep", "remove", "contains", "allocate",
   "release"}

ServerTypes ==
  /\ unused \subseteq ClientIds /\ clients \subseteq ClientIds
  /\ owner \in [ConnectionIds -> ClientIds \cup {NoClient}]
  /\ at \in [Threads -> Places]
  /\ about \in [Threads -> ClientIds \cup ConnectionIds \cup {NoClient}]

\* What a call knows at each place of its critical section.
CallKnows(t) ==
  /\ Held(at[t]) => \A u \in Threads : Held(at[u]) => u = t
  /\ at[t] \in {"RemoveClient", "sweep", "remove", "RegisterClientSession",
                "contains", "allocate"} => about[t] \in ClientIds
  /\ at[t] = "remove" => \A id \in ConnectionIds : owner[id] # about[t]
  /\ at[t] = "allocate" => about[t] \in clients

ServerInv ==
  /\ ServerTypes
  /\ \A t \in Threads : CallKnows(t)
  /\ SessionsHaveClients

LEMMA ServerInitInv == ServerInit => ServerInv
BY DEF ServerInit, Registry!Init, ServerInv, ServerTypes, CallKnows, Places,
   Held, SessionsHaveClients

(* A call of the lifecycle, a handler that begins or ends, a client that   *)
(* is destroyed: no thread moves in a critical section.                    *)
LEMMA OutsideKeepsServer ==
  ASSUME ServerInv, NEW t \in Threads,
         NEW place \in {"out", "dispatch"}, NEW id \in ClientIds \cup {NoClient},
         at[t] \in {"out", "dispatch"},
         \/ UNCHANGED callVars
         \/ Begins(t, place, id) \/ Proceeds(t, "dispatch", place),
         UNCHANGED <<unused, clients>>,
         \/ UNCHANGED owner
         \/ \E i \in ConnectionIds : owner' = [owner EXCEPT ![i] = NoClient]
  PROVE  ServerInv'
<1>1. /\ \A u \in Threads : at'[u] = at[u] \/ (u = t /\ at'[u] \in {"out", "dispatch"})
      /\ \A u \in Threads : about'[u] = about[u] \/ u = t
      /\ at' \in [Threads -> Places]
      /\ about' \in [Threads -> ClientIds \cup ConnectionIds \cup {NoClient}]
  BY DEF ServerInv, ServerTypes, callVars, Begins, Proceeds, Moves, Places
<1>2. /\ owner' \in [ConnectionIds -> ClientIds \cup {NoClient}]
      /\ \A i \in ConnectionIds : owner'[i] \in {owner[i], NoClient}
  BY DEF ServerInv, ServerTypes
<1>3. ServerTypes' /\ SessionsHaveClients'
  BY <1>1, <1>2 DEF ServerInv, ServerTypes, SessionsHaveClients
<1>4. ASSUME NEW u \in Threads  PROVE CallKnows(u)'
  <2>1. CASE at'[u] \in {"out", "dispatch"}
    BY <2>1 DEF CallKnows, Held
  <2>2. CASE at'[u] \notin {"out", "dispatch"}
    <3>1. u # t /\ at'[u] = at[u] /\ about'[u] = about[u]
      BY <1>1, <2>2
    <3>2. \A v \in Threads : Held(at'[v]) => Held(at[v])
      BY <1>1 DEF Held
    <3>3. CallKnows(u) /\ (at[u] = "remove" => about[u] # NoClient)
      BY ServerAssumption DEF ServerInv, CallKnows
    <3> QED
      BY <1>2, <3>1, <3>2, <3>3 DEF CallKnows
  <2> QED
    BY <2>1, <2>2
<1> QED
  BY <1>3, <1>4 DEF ServerInv

LEMMA CallBeginKeeps ==
  ASSUME ServerInv, NEW t \in Threads, CallBegin(t)
  PROVE  ServerInv'
<1>1. PICK place, subject :
        /\ \/ place = "AddClient" /\ subject = NoClient
           \/ /\ place \in {"RemoveClient", "RegisterClientSession"}
              /\ subject \in ClientIds
           \/ place = "RemoveClientSession" /\ subject \in ConnectionIds
        /\ at' = [at EXCEPT ![t] = place] /\ about' = [about EXCEPT ![t] = subject]
        /\ UNCHANGED <<unused, clients, owner>>
  BY DEF CallBegin, Begins, Moves, registryVars
<1>2. ServerTypes' /\ SessionsHaveClients'
  BY <1>1 DEF ServerInv, ServerTypes, Places, SessionsHaveClients
<1>3. ASSUME NEW u \in Threads  PROVE CallKnows(u)'
  <2>1. CallKnows(u) /\ \A v \in Threads : Held(at'[v]) => v # t /\ Held(at[v])
    BY <1>1 DEF ServerInv, ServerTypes, Held
  <2>2. CASE u = t
    BY <1>1, <2>2 DEF CallKnows, Held, ServerInv, ServerTypes
  <2>3. CASE u # t
    <3>1. at'[u] = at[u] /\ about'[u] = about[u]
      BY <1>1, <2>3 DEF ServerInv, ServerTypes
    <3> QED
      BY <1>1, <2>1, <3>1 DEF CallKnows
  <2> QED
    BY <2>2, <2>3
<1> QED
  BY <1>2, <1>3 DEF ServerInv

LEMMA LockKeeps ==
  ASSUME ServerInv, NEW t \in Threads, Lock(t)
  PROVE  ServerInv'
<1>1. /\ at[t] \in {"AddClient", "RemoveClient", "RegisterClientSession",
                    "RemoveClientSession"}
      /\ at' = [at EXCEPT ![t] = CriticalSection[at[t]]]
      /\ \A u \in Threads : ~Held(at[u])
      /\ UNCHANGED <<unused, clients, owner, about>>
  BY DEF Lock, CriticalSection, ClientSessionMutexFree, Moves, registryVars
<1>2. /\ at'[t] = CriticalSection[at[t]]
      /\ CriticalSection[at[t]] \in {"add", "sweep", "contains", "release"}
      /\ at[t] \in {"RemoveClient", "RegisterClientSession"} <=>
           CriticalSection[at[t]] \in {"sweep", "contains"}
  BY <1>1 DEF CriticalSection, ServerInv, ServerTypes
<1>3. ServerTypes' /\ SessionsHaveClients'
  BY <1>1, <1>2 DEF ServerInv, ServerTypes, Places, SessionsHaveClients
<1>4. ASSUME NEW u \in Threads  PROVE CallKnows(u)'
  <2>1. CallKnows(u) /\ \A v \in Threads : Held(at'[v]) => v = t
    BY <1>1 DEF ServerInv, ServerTypes
  <2>2. CASE u = t
    BY <1>1, <1>2, <2>1, <2>2 DEF CallKnows
  <2>3. CASE u # t
    <3>1. at'[u] = at[u]
      BY <1>1, <2>3 DEF ServerInv, ServerTypes
    <3> QED
      BY <1>1, <2>1, <2>3, <3>1 DEF CallKnows
  <2> QED
    BY <2>2, <2>3
<1> QED
  BY <1>3, <1>4 DEF ServerInv

(* A step of the thread that holds clientSessionMutex: the others know     *)
(* nothing of what it changes.                                             *)
LEMMA HeldKeepsServer ==
  ASSUME ServerInv, NEW t \in Threads, Held(at[t]), ServerTypes',
         SessionsHaveClients', CallKnows(t)', about' = about,
         \A u \in Threads \ {t} : at'[u] = at[u]
  PROVE  ServerInv'
<1>1. \A u \in Threads \ {t} : ~Held(at[u])
  BY DEF ServerInv, CallKnows
<1>2. ASSUME NEW u \in Threads  PROVE CallKnows(u)'
  <2>1. CASE u = t
    BY <2>1
  <2>2. CASE u # t
    <3>1. ~Held(at'[u]) /\ CallKnows(u)
      BY <1>1, <2>2 DEF ServerInv
    <3> QED
      BY <2>2, <3>1 DEF CallKnows, Held
  <2> QED
    BY <2>1, <2>2
<1> QED
  BY <1>2 DEF ServerInv

LEMMA CriticalSectionKeeps ==
  ASSUME ServerInv, NEW t \in Threads,
         \/ AddClient(t) \/ SweepSessions(t) \/ RemoveClient(t)
         \/ ContainsClient(t) \/ AllocateSession(t) \/ ReleaseSession(t)
  PROVE  ServerInv'
<1>1. /\ about' = about /\ Held(at[t]) /\ at' \in [Threads -> Places]
      /\ \A u \in Threads \ {t} : at'[u] = at[u] /\ ~Held(at'[u])
      /\ about \in [Threads -> ClientIds \cup ConnectionIds \cup {NoClient}]
  <2>1. \A u \in Threads \ {t} : Held(at[t]) => ~Held(at[u])
    BY DEF ServerInv, CallKnows
  <2> QED
    BY <2>1 DEF AddClient, SweepSessions, RemoveClient, ContainsClient,
       AllocateSession, ReleaseSession, Proceeds, Moves, Held, ServerInv,
       ServerTypes, Places
<1>2. /\ unused \subseteq ClientIds /\ clients \subseteq ClientIds
      /\ owner \in [ConnectionIds -> ClientIds \cup {NoClient}]
      /\ at \in [Threads -> Places]
      /\ SessionsHaveClients /\ CallKnows(t) /\ NoClient \notin ClientIds
  BY ServerAssumption DEF ServerInv, ServerTypes
<1>3. SUFFICES ServerTypes' /\ SessionsHaveClients' /\ CallKnows(t)'
  BY <1>1, HeldKeepsServer
<1>4. CASE AddClient(t)
  <2>1. /\ UNCHANGED owner /\ at'[t] = "out"
        /\ unused' \subseteq ClientIds /\ clients' \subseteq ClientIds
        /\ clients \subseteq clients'
    BY <1>2, <1>4 DEF AddClient, Proceeds, Moves, Registry!Add, registryVars
  <2> QED
    BY <1>1, <1>2, <2>1 DEF ServerTypes, SessionsHaveClients, CallKnows, Held
<1>5. CASE SweepSessions(t)
  <2>1. /\ UNCHANGED <<unused, clients>> /\ at[t] = "sweep" /\ at'[t] = "remove"
        /\ owner' = [id \in ConnectionIds |->
                       IF owner[id] = about[t] THEN NoClient ELSE owner[id]]
    BY <1>2, <1>5 DEF SweepSessions, Proceeds, Moves, registryVars
  <2>2. about[t] \in ClientIds
    BY <1>2, <2>1 DEF CallKnows
  <2>3. \A id \in ConnectionIds :
          owner'[id] # about[t] /\ owner'[id] \in {owner[id], NoClient}
    BY <1>2, <2>1, <2>2
  <2>4. owner' \in [ConnectionIds -> ClientIds \cup {NoClient}]
    BY <1>2, <2>1
  <2> QED
    BY <1>1, <1>2, <2>1, <2>2, <2>3, <2>4
    DEF ServerTypes, SessionsHaveClients, CallKnows
<1>6. CASE RemoveClient(t)
  <2>1. /\ UNCHANGED <<unused, owner>> /\ at[t] = "remove" /\ at'[t] = "out"
        /\ clients' = clients \ ({about[t]} \cap clients)
    BY <1>2, <1>6 DEF RemoveClient, Proceeds, Moves, Registry!Remove
  <2>2. \A id \in ConnectionIds : owner[id] # about[t]
    BY <1>2, <2>1 DEF CallKnows
  <2> QED
    BY <1>1, <1>2, <2>1, <2>2 DEF ServerTypes, SessionsHaveClients, CallKnows,
       Held
<1>7. CASE ContainsClient(t)
  <2>1. /\ UNCHANGED <<unused, clients, owner>> /\ at[t] = "contains"
        /\ at'[t] = IF about[t] \in clients THEN "allocate" ELSE "out"
    BY <1>2, <1>7 DEF ContainsClient, Proceeds, Moves, registryVars
  <2> QED
    BY <1>1, <1>2, <2>1 DEF ServerTypes, SessionsHaveClients, CallKnows, Held
<1>8. CASE AllocateSession(t)
  <2>1. /\ UNCHANGED <<unused, clients>> /\ at[t] = "allocate" /\ at'[t] = "out"
        /\ \/ \E id \in ConnectionIds : owner' = [owner EXCEPT ![id] = about[t]]
           \/ UNCHANGED owner
    BY <1>2, <1>8 DEF AllocateSession, Proceeds, Moves, registryVars
  <2>2. about[t] \in clients
    BY <1>2, <2>1 DEF CallKnows
  <2>3. /\ owner' \in [ConnectionIds -> ClientIds \cup {NoClient}]
        /\ \A id \in ConnectionIds : owner'[id] \in {owner[id], about[t]}
    BY <1>2, <2>1, <2>2
  <2> QED
    BY <1>1, <1>2, <2>1, <2>2, <2>3
    DEF ServerTypes, SessionsHaveClients, CallKnows, Held
<1>9. CASE ReleaseSession(t)
  <2>1. /\ UNCHANGED <<unused, clients>> /\ at'[t] = "out"
        /\ owner' = [owner EXCEPT ![about[t]] = NoClient]
    BY <1>2, <1>9 DEF ReleaseSession, Proceeds, Moves, registryVars
  <2>2. /\ owner' \in [ConnectionIds -> ClientIds \cup {NoClient}]
        /\ \A id \in ConnectionIds : owner'[id] \in {owner[id], NoClient}
    BY <1>2, <2>1
  <2> QED
    BY <1>1, <1>2, <2>1, <2>2 DEF ServerTypes, SessionsHaveClients, CallKnows,
       Held
<1> QED
  BY <1>4, <1>5, <1>6, <1>7, <1>8, <1>9

LEMMA DispatchKeeps ==
  ASSUME ServerInv, NEW p \in Threads,
         Dispatch(p) \/ Visit(p) \/ VisitEnd(p) \/ DisconnectSession(p)
  PROVE  ServerInv'
<1> USE DEF registryVars
<1>1. CASE Dispatch(p)
  <2>1. PICK id \in ConnectionIds :
          owner[id] # NoClient /\ Begins(p, "dispatch", owner[id])
    BY <1>1 DEF Dispatch
  <2>2. owner[id] \in ClientIds
    BY <2>1 DEF ServerInv, ServerTypes
  <2> QED
    BY <1>1, <2>1, <2>2, OutsideKeepsServer DEF Dispatch, Outside
<1>2. CASE Visit(p)
  <2>1. /\ Proceeds(p, "dispatch", "out") /\ UNCHANGED <<unused, clients, owner>>
    BY <1>2 DEF Visit, Registry!VisitBegin
  <2> QED
    BY <2>1, OutsideKeepsServer DEF Proceeds
<1>3. CASE VisitEnd(p)
  BY <1>3, OutsideKeepsServer DEF VisitEnd, Registry!VisitEnd
<1>4. CASE DisconnectSession(p)
  BY <1>4, OutsideKeepsServer DEF DisconnectSession, Outside
<1> QED
  BY <1>1, <1>2, <1>3, <1>4

LEMMA UnusedKeepsServer ==
  ASSUME ServerInv, UNCHANGED <<unused, clients, owner, callVars>>
  PROVE  ServerInv'
BY DEF ServerInv, ServerTypes, SessionsHaveClients, CallKnows, callVars

LEMMA ServerNextInv == ServerInv /\ [ServerNext]_serverVars => ServerInv'
<1> SUFFICES ASSUME ServerInv, [ServerNext]_serverVars  PROVE ServerInv'
  OBVIOUS
<1> USE DEF registryVars
<1>1. CASE UNCHANGED serverVars
  BY <1>1, UnusedKeepsServer DEF serverVars
<1>2. ASSUME NEW t \in Threads, CallBegin(t) \/ ApiStep(t)  PROVE ServerInv'
  BY <1>2, CallBeginKeeps, LockKeeps, CriticalSectionKeeps, DispatchKeeps
  DEF ApiStep
<1>3. ASSUME NEW t \in Threads, LifecycleBegin(t) \/ LifecycleStep(t)
      PROVE  ServerInv'
  BY <1>3, UnusedKeepsServer DEF LifecycleBegin, LifecycleStep
<1>4. ASSUME NEW p \in Group("Logic"),
             Dispatch(p) \/ VisitEnd(p) \/ DisconnectSession(p)
      PROVE  ServerInv'
  BY <1>4, DispatchKeeps DEF Threads, ServerThreads
<1>5. CASE DestroyClient
  BY <1>5, UnusedKeepsServer DEF DestroyClient, Registry!Destroy
<1>6. ASSUME NEW p \in Processors, ServerFinish(p)  PROVE ServerInv'
  BY <1>6, UnusedKeepsServer DEF ServerFinish
<1> QED
  BY <1>1, <1>2, <1>3, <1>4, <1>5, <1>6 DEF ServerNext

LEMMA ServerStepIsLifecycle == [ServerNext]_serverVars => [Next]_vars
<1> SUFFICES ASSUME ServerNext  PROVE [Next]_vars
  BY DEF serverVars
<1>1. ASSUME NEW t \in Threads, CallBegin(t) \/ ApiStep(t)
      PROVE  UNCHANGED vars
  BY <1>1 DEF CallBegin, ApiStep, Lock, AddClient, SweepSessions, RemoveClient,
     ContainsClient, AllocateSession, ReleaseSession, Visit
<1>2. ASSUME NEW t \in Threads, LifecycleBegin(t) \/ LifecycleStep(t)
      PROVE  Next
  BY <1>2 DEF LifecycleBegin, LifecycleStep, Next
<1>3. ASSUME NEW p \in Group("Logic"),
             Dispatch(p) \/ VisitEnd(p) \/ DisconnectSession(p)
      PROVE  UNCHANGED vars
  BY <1>3 DEF Dispatch, VisitEnd, DisconnectSession
<1>4. DestroyClient => UNCHANGED vars
  BY DEF DestroyClient
<1>5. ASSUME NEW p \in Processors, ServerFinish(p)  PROVE Next
  BY <1>5 DEF ServerFinish, Next
<1> QED
  BY <1>1, <1>2, <1>3, <1>4, <1>5 DEF ServerNext

(* Whatever the application does in handlers and callbacks, its server     *)
(* starts and stops the way ServerLifecycle says.                          *)
THEOREM ServerImplementsLifecycle == ServerSpec => Spec
<1>1. ServerInit => Init
  BY DEF ServerInit
<1> QED
  BY <1>1, ServerStepIsLifecycle, PTL DEF ServerSpec, Spec

(* ServerCore registers no session for a client that is being removed and  *)
(* leaves none behind, for any number of threads that add, remove and      *)
(* register at once: the holder of clientSessionMutex knows, between the   *)
(* two halves of its call, what nobody else can change.                    *)
THEOREM SessionsAreOwned == ServerSpec => []SessionsHaveClients
<1>1. ServerInv => SessionsHaveClients
  BY DEF ServerInv
<1> QED
  BY <1>1, ServerInitInv, ServerNextInv, PTL DEF ServerSpec
=============================================================================
