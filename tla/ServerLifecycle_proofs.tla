----------------------- MODULE ServerLifecycle_proofs -----------------------
(***************************************************************************)
(* Proofs about ServerLifecycle, for any numbers of callers and of         *)
(* processors.  The inductive invariant says what the one thread that is   *)
(* in a Start or a Stop knows of the three levels at each of its places,   *)
(* and what is so when there is none.                                      *)
(***************************************************************************)
EXTENDS ServerLifecycle, TLAPS

StartLoop == {"starting", "startingOne", "failing", "failed"}
StopLoop == {"stopping", "joining"}
Pcs == StartLoop \cup StopLoop \cup
  {"out", "wsaStartup", "managerStart", "started", "managerStop", "refused",
   "cleanup", "coreStopped"}

Types == TypeOK /\ pc \in [Threads -> Pcs]

IsStopped(p) == service[p] = "Stopped" /\ ~active[p]
Runs(p) == service[p] = "Running" /\ active[p]
AllStopped == \A p \in Processors : IsStopped(p)
AllRun == \A p \in Processors : Runs(p)

\* The loop over startOrder: what is done runs, what is to come is stopped.
Begun(t) ==
  \A p \in Processors :
    /\ p \notin todo[t] => Runs(p)
    /\ p \in todo[t] =>
         \/ /\ IsStopped(p)
            /\ IsNext(t, p, StartRank) => pc[t] \in {"starting", "failed"}
         \/ /\ IsNext(t, p, StartRank)
            /\ \/ pc[t] = "startingOne" /\ service[p] = "Starting"
               \/ pc[t] = "failing" /\ service[p] = "Stopping"

\* The loop over stopOrder: what is done is stopped, what is to come runs,
\* or was never started.
Ended(t) ==
  \A p \in Processors :
    /\ p \notin todo[t] => IsStopped(p)
    /\ p \in todo[t] =>
         \/ IsStopped(p) \/ Runs(p)
         \/ /\ IsNext(t, p, StopRank)
            /\ pc[t] = "joining" /\ service[p] = "Stopping"

Knows(t) ==
  /\ pc[t] \in {"wsaStartup", "managerStart", "started"} \cup StartLoop =>
       core = "Starting"
  /\ pc[t] \in {"managerStop", "refused"} => core = "Stopping"
  /\ pc[t] # "out" => core \in {"Starting", "Stopping"}
  /\ pc[t] \notin {"out", "wsaStartup", "coreStopped"} => winsock
  /\ pc[t] \in {"wsaStartup", "coreStopped"} => ~winsock
  /\ pc[t] \in {"wsaStartup", "managerStart", "cleanup", "coreStopped"} =>
       manager = "Stopped" /\ AllStopped
  /\ pc[t] \in StartLoop => manager = "Starting" /\ Begun(t)
  /\ pc[t] \in StopLoop => manager = "Stopping" /\ Ended(t)
  /\ pc[t] \in {"started", "managerStop", "refused"} =>
       manager = "Running" /\ AllRun
  /\ pc[t] \notin {"out", "managerStop", "refused"} => t \notin Processors

Idle == \A t \in Threads : pc[t] = "out"

LifecycleInv ==
  /\ \A t, u \in Threads : pc[t] # "out" /\ pc[u] # "out" => t = u
  /\ \A t \in Threads : Knows(t)
  /\ Idle => core \in {"Stopped", "Running"}
  /\ core = "Stopped" => Idle /\ manager = "Stopped" /\ ~winsock /\ AllStopped
  /\ core = "Running" => Idle /\ manager = "Running" /\ winsock /\ AllRun

IInv == Types /\ LifecycleInv /\ WorkFindsItsProcessor
-----------------------------------------------------------------------------
LEMMA ProcessorFacts ==
  /\ \A p \in Processors :
       p[1] \in {"Logic", "IO", "TICKER", "HEARTBEAT"} /\ p[2] \in Nat
  /\ \A p, q \in Processors : p[1] = q[1] /\ p[2] = q[2] => p = q
BY LifecycleAssumption DEF Processors

(* The loops of Start and Stop have one next processor.                    *)
LEMMA NextIsOne ==
  ASSUME NEW t \in Threads, NEW p \in Processors, NEW q \in Processors
  PROVE  /\ IsNext(t, p, StartRank) /\ IsNext(t, q, StartRank) => p = q
         /\ IsNext(t, p, StopRank) /\ IsNext(t, q, StopRank) => p = q
<1>1. \A r \in Processors : StartRank[r[1]] \in Nat /\ StopRank[r[1]] \in Nat
  BY ProcessorFacts DEF StartRank, StopRank
<1> QED  BY <1>1, ProcessorFacts DEF IsNext

(* A processor is next when those that come before it are done with.       *)
LEMMA DoneBefore ==
  ASSUME NEW t \in Threads, NEW p \in Processors, NEW q \in Processors
  PROVE  /\ /\ IsNext(t, p, StartRank)
            /\ \/ q[1] = "Logic" /\ p[1] # "Logic"
               \/ q[1] \in {"TICKER", "HEARTBEAT"} /\ p[1] = "IO"
            => q \notin todo[t]
         /\ /\ IsNext(t, q, StopRank)
            /\ \/ q[1] = "Logic" /\ p[1] # "Logic"
               \/ q[1] \in {"TICKER", "HEARTBEAT"} /\ p[1] = "IO"
            => p \notin todo[t]
<1>1. p[1] \in {"Logic", "IO", "TICKER", "HEARTBEAT"}
  BY ProcessorFacts
<1> QED  BY <1>1 DEF IsNext, StartRank, StopRank

(* Where one thread is inside, what it knows is all there is to say.       *)
LEMMA OneInside ==
  ASSUME NEW t \in Threads, Types', WorkFindsItsProcessor', Knows(t)',
         pc'[t] # "out", \A u \in Threads \ {t} : pc'[u] = "out"
  PROVE  IInv'
<1>1. \A u \in Threads : Knows(u)'
  BY DEF Knows, StartLoop, StopLoop
<1>2. core' \in {"Starting", "Stopping"}
  BY DEF Knows
<1> QED  BY <1>1, <1>2 DEF IInv, LifecycleInv, Idle

LEMMA OthersAreOut ==
  ASSUME IInv, NEW t \in Threads, pc[t] # "out", NEW u \in Threads \ {t}
  PROVE  pc[u] = "out"
BY DEF IInv, LifecycleInv

(* A call begins, when no other is on.                                     *)
LEMMA BeginKeeps ==
  ASSUME IInv, NEW t \in Threads, StartBegin(t) \/ StopBegin(t)
  PROVE  IInv'
<1> USE DEF coreVars, managerVars, processorVars, Goes
<1>1. /\ Types' /\ WorkFindsItsProcessor'
      /\ \A u \in Threads \ {t} : pc'[u] = "out"
  BY DEF IInv, Types, TypeOK, States, Pcs, StartLoop, StopLoop, LifecycleInv,
     Idle, WorkFindsItsProcessor, StartBegin, StopBegin, CanCall, Startable
<1>2. CASE StartBegin(t)
  <2>1. t \notin Processors
    BY <1>2, LifecycleAssumption DEF IInv, LifecycleInv, StartBegin, Startable,
       CanCall, AllStopped, IsStopped, Threads
  <2>2. Knows(t)' /\ pc'[t] # "out"
    BY <1>2, <2>1 DEF IInv, Types, LifecycleInv, Knows, StartLoop, StopLoop,
       StartBegin, Startable, AllStopped, IsStopped
  <2> QED  BY <1>1, <2>2, OneInside
<1>3. CASE StopBegin(t)
  <2>1. Knows(t)' /\ pc'[t] # "out"
    BY <1>3 DEF IInv, Types, LifecycleInv, Knows, StartLoop, StopLoop,
       StopBegin, AllRun, Runs
  <2> QED  BY <1>1, <2>1, OneInside
<1> QED  BY <1>2, <1>3

(* The steps of a call outside of the loops.                               *)
LEMMA CallKeeps ==
  ASSUME IInv, NEW t \in Threads,
         \/ WsaStartup(t) \/ ManagerStart(t) \/ ManagerStarted(t)
         \/ ManagerStop(t) \/ RollBack(t) \/ ManagerStopped(t) \/ Cleanup(t)
  PROVE  IInv'
<1> USE DEF coreVars, managerVars, processorVars, Goes, GoesOn, Reaches
<1>1. pc[t] # "out"
  BY DEF WsaStartup, ManagerStart, ManagerStarted, ManagerStop, RollBack,
     ManagerStopped, Cleanup
<1>2. /\ Types' /\ WorkFindsItsProcessor'
      /\ \A u \in Threads \ {t} : pc'[u] = "out"
  <2>1. Types'
    BY DEF IInv, Types, TypeOK, States, Pcs, StartLoop, StopLoop, WsaStartup,
       ManagerStart, ManagerStarted, ManagerStop, RollBack, ManagerStopped,
       Cleanup
  <2>2. UNCHANGED <<service, active>>
    BY DEF WsaStartup, ManagerStart, ManagerStarted, ManagerStop, RollBack,
       ManagerStopped, Cleanup
  <2>3. WorkFindsItsProcessor'
    BY <2>2 DEF IInv, WorkFindsItsProcessor
  <2>4. \A u \in Threads \ {t} : pc'[u] = pc[u]
    BY DEF IInv, Types, WsaStartup, ManagerStart, ManagerStarted, ManagerStop,
       RollBack, ManagerStopped, Cleanup
  <2> QED  BY <1>1, <2>1, <2>3, <2>4, OthersAreOut
<1>3. Knows(t) /\ pc \in [Threads -> Pcs] /\ todo \in [Threads -> SUBSET Processors]
  BY DEF IInv, LifecycleInv, Types, TypeOK
<1>4. Knows(t)' /\ pc'[t] # "out"
  <2> USE <1>3 DEF Knows, StartLoop, StopLoop, AllStopped, AllRun, IsStopped, Runs
  <2>1. CASE WsaStartup(t)
    BY <2>1 DEF WsaStartup
  <2>2. CASE ManagerStart(t)
    BY <2>2 DEF ManagerStart, Begun, IsStopped
  <2>3. CASE ManagerStarted(t)
    BY <2>3 DEF ManagerStarted, Begun
  <2>4. CASE ManagerStop(t)
    BY <2>4 DEF ManagerStop, MayStop, Ended
  <2>5. CASE RollBack(t)
    BY <2>5 DEF RollBack, Begun, Ended
  <2>6. CASE ManagerStopped(t)
    BY <2>6 DEF ManagerStopped, Ended
  <2>7. CASE Cleanup(t)
    BY <2>7 DEF Cleanup
  <2> QED  BY <2>1, <2>2, <2>3, <2>4, <2>5, <2>6, <2>7
<1> QED  BY <1>2, <1>4, OneInside
-----------------------------------------------------------------------------
(* The loop over startOrder: a processor becomes active when those it      *)
(* pushes tasks to run.                                                    *)
LEMMA StartProcessorKeeps ==
  ASSUME IInv, NEW t \in Threads, StartProcessor(t)
  PROVE  IInv'
<1> USE DEF coreVars, Goes, GoesOn, DoneWith, Becomes, StartLoop, StopLoop
<1>1. PICK p \in Processors :
        /\ IsNext(t, p, StartRank)
        /\ \/ /\ GoesOn(t, "starting", "startingOne")
              /\ service[p] = "Stopped" /\ Becomes(p, "Starting")
              /\ UNCHANGED <<active, todo>>
           \/ /\ pc[t] = "startingOne" /\ ~active[p]
              /\ active' = [active EXCEPT ![p] = TRUE]
              /\ UNCHANGED <<service, pc, todo>>
           \/ /\ GoesOn(t, "startingOne", "starting") /\ active[p]
              /\ Becomes(p, "Running") /\ DoneWith(t, p)
              /\ UNCHANGED active
           \/ /\ GoesOn(t, "startingOne", "failing")
              /\ Becomes(p, "Stopping")
              /\ UNCHANGED <<active, todo>>
           \/ /\ GoesOn(t, "failing", "failed") /\ ~active[p]
              /\ Becomes(p, "Stopped")
              /\ UNCHANGED <<active, todo>>
  BY DEF StartProcessor
<1>2. UNCHANGED <<coreVars, manager>>
  BY DEF StartProcessor
<1>3. /\ Types /\ Knows(t) /\ pc \in [Threads -> Pcs]
      /\ todo \in [Threads -> SUBSET Processors]
      /\ service \in [Processors -> States] /\ active \in [Processors -> BOOLEAN]
      /\ pc[t] \in StartLoop /\ Begun(t) /\ p \in todo[t]
  BY <1>1 DEF IInv, LifecycleInv, Types, TypeOK, Knows, IsNext
<1>4. \A q \in todo[t] \ {p} : IsStopped(q) /\ ~IsNext(t, q, StartRank)
  BY <1>1, <1>3, NextIsOne DEF Begun
<1>5. Types'
  <2>1. service' \in [Processors -> States] /\ active' \in [Processors -> BOOLEAN]
    BY <1>1, <1>3 DEF States
  <2>2. pc' \in [Threads -> Pcs] /\ todo' \in [Threads -> SUBSET Processors]
    BY <1>1, <1>3 DEF Pcs
  <2> QED  BY <1>2, <1>3, <2>1, <2>2 DEF Types, TypeOK
<1>6. pc'[t] \in StartLoop /\ \A u \in Threads \ {t} : pc'[u] = "out"
  BY <1>1, <1>3, OthersAreOut
<1>7. Begun(t)'
  <2>1. \A q \in Processors \ {p} : service'[q] = service[q] /\ active'[q] = active[q]
    BY <1>1, <1>3
  <2>2. \A q \in Processors \ todo'[t] : Runs(q)'
    BY <1>1, <1>3, <2>1 DEF Begun, Runs
  <2>3. \A q \in todo'[t] \ {p} : IsStopped(q)'
    BY <1>1, <1>3, <1>4, <2>1 DEF IsStopped
  <2>4. p \in todo'[t] =>
          \/ IsStopped(p)' /\ pc'[t] \in {"starting", "failed"}
          \/ /\ IsNext(t, p, StartRank)'
             /\ \/ pc'[t] = "startingOne" /\ service'[p] = "Starting"
                \/ pc'[t] = "failing" /\ service'[p] = "Stopping"
    <3>1. todo'[t] = todo[t] => IsNext(t, p, StartRank)'
      BY <1>1 DEF IsNext
    <3>2. p \in todo'[t] => todo'[t] = todo[t]
      BY <1>1, <1>3
    <3>3. CASE active' = active /\ todo' = todo
      BY <1>1, <1>3, <3>1, <3>3 DEF IsStopped, Begun
    <3>4. CASE pc[t] = "startingOne" /\ ~active[p] /\ UNCHANGED <<service, pc, todo>>
      <4>1. service[p] = "Starting"
        BY <1>1, <1>3, <3>4 DEF Begun, IsStopped
      <4> QED  BY <3>1, <3>2, <3>4, <4>1
    <3> QED  BY <1>1, <1>3, <3>2, <3>3, <3>4
  <2>5. \A q \in todo'[t] \ {p} :
          IsNext(t, q, StartRank)' => pc'[t] \in {"starting", "failed"}
    BY <1>1, <1>3, <1>4 DEF IsNext
  <2> QED  BY <1>3, <2>2, <2>3, <2>4, <2>5 DEF Begun
<1>8. Knows(t)'
  BY <1>2, <1>3, <1>6, <1>7 DEF Knows
<1>9. WorkFindsItsProcessor'
  <2> SUFFICES ASSUME NEW r \in Processors, active'[r], NEW q \in Processors,
                      \/ q[1] = "Logic" /\ r[1] # "Logic"
                      \/ q[1] \in {"TICKER", "HEARTBEAT"} /\ r[1] = "IO"
               PROVE  service'[q] = "Running"
    BY DEF WorkFindsItsProcessor
  <2>1. r = p \/ active[r]
    BY <1>1, <1>3
  <2>2. service[q] = "Running"
    <3>1. CASE r = p
      BY <1>1, <1>3, <3>1, DoneBefore DEF Begun, Runs
    <3>2. CASE active[r]
      BY <3>2 DEF IInv, WorkFindsItsProcessor
    <3> QED  BY <2>1, <3>1, <3>2
  <2>3. service[p] # "Running"
    BY <1>1, <1>3 DEF Begun, IsStopped
  <2> QED  BY <1>1, <1>3, <2>2, <2>3
<1> QED  BY <1>5, <1>6, <1>8, <1>9, OneInside

(* The loop over stopOrder: a processor is told to stop when those that    *)
(* push tasks to it are done.                                              *)
LEMMA StopProcessorKeeps ==
  ASSUME IInv, NEW t \in Threads, StopProcessor(t)
  PROVE  IInv'
<1> USE DEF coreVars, Goes, GoesOn, DoneWith, Becomes, StartLoop, StopLoop
<1>1. PICK p \in Processors :
        /\ IsNext(t, p, StopRank)
        /\ \/ /\ GoesOn(t, "stopping", "joining")
              /\ service[p] = "Running" /\ p # t
              /\ Becomes(p, "Stopping")
              /\ UNCHANGED todo
           \/ /\ pc[t] = "stopping"
              /\ ~(service[p] = "Running" /\ p # t)
              /\ DoneWith(t, p)
              /\ UNCHANGED <<service, pc>>
           \/ /\ GoesOn(t, "joining", "stopping") /\ ~active[p]
              /\ Becomes(p, "Stopped") /\ DoneWith(t, p)
  BY DEF StopProcessor
<1>2. UNCHANGED <<coreVars, manager, active>>
  BY DEF StopProcessor
<1>3. /\ Types /\ Knows(t) /\ pc \in [Threads -> Pcs]
      /\ todo \in [Threads -> SUBSET Processors]
      /\ service \in [Processors -> States] /\ active \in [Processors -> BOOLEAN]
      /\ pc[t] \in StopLoop /\ Ended(t) /\ p \in todo[t] /\ p # t
  BY <1>1 DEF IInv, LifecycleInv, Types, TypeOK, Knows, IsNext
<1>4. \A q \in todo[t] \ {p} : IsStopped(q) \/ Runs(q)
  BY <1>1, <1>3, NextIsOne DEF Ended
<1>5. Types'
  BY <1>1, <1>2, <1>3 DEF Types, TypeOK, States, Pcs
<1>6. pc'[t] \in StopLoop /\ \A u \in Threads \ {t} : pc'[u] = "out"
  BY <1>1, <1>3, OthersAreOut
<1>7. Ended(t)'
  <2>1. \A q \in Processors \ {p} : service'[q] = service[q] /\ active'[q] = active[q]
    BY <1>1, <1>2, <1>3
  <2>2. \A q \in Processors \ todo'[t] : IsStopped(q)'
    BY <1>1, <1>2, <1>3, <2>1 DEF Ended, IsStopped, Runs
  <2>3. \A q \in todo'[t] \ {p} : (IsStopped(q) \/ Runs(q))'
    BY <1>1, <1>3, <1>4, <2>1 DEF IsStopped, Runs
  <2>4. p \in todo'[t] =>
          \/ IsStopped(p)' \/ Runs(p)'
          \/ /\ IsNext(t, p, StopRank)'
             /\ pc'[t] = "joining" /\ service'[p] = "Stopping"
    BY <1>1, <1>3 DEF IsNext
  <2> QED  BY <1>3, <2>2, <2>3, <2>4 DEF Ended
<1>8. Knows(t)'
  BY <1>2, <1>3, <1>6, <1>7 DEF Knows
<1>9. WorkFindsItsProcessor'
  <2> SUFFICES ASSUME NEW r \in Processors, active[r], NEW q \in Processors,
                      \/ q[1] = "Logic" /\ r[1] # "Logic"
                      \/ q[1] \in {"TICKER", "HEARTBEAT"} /\ r[1] = "IO"
               PROVE  service'[q] = "Running"
    BY <1>2 DEF WorkFindsItsProcessor
  <2>1. service[q] = "Running"
    BY DEF IInv, WorkFindsItsProcessor
  <2>2. r \in todo[t]
    BY <1>3 DEF Ended, IsStopped
  <2>3. q # p
    BY <1>1, <2>2, DoneBefore
  <2> QED  BY <1>1, <1>3, <2>1, <2>3
<1> QED  BY <1>5, <1>6, <1>8, <1>9, OneInside
-----------------------------------------------------------------------------
(* The call ends, and the server's state is what it has brought about.     *)
LEMMA CoreEndsKeeps ==
  ASSUME IInv, NEW t \in Threads, CoreEnds(t)
  PROVE  IInv'
<1> USE DEF coreVars, managerVars, processorVars, Goes, GoesOn
<1>1. /\ Types' /\ WorkFindsItsProcessor' /\ \A u \in Threads : pc'[u] = "out"
  <2>1. pc[t] # "out" /\ UNCHANGED <<service, active>>
    BY DEF CoreEnds
  <2>2. Types'
    BY DEF IInv, Types, TypeOK, States, Pcs, StartLoop, StopLoop, CoreEnds,
       AfterRefusal
  <2>3. \A u \in Threads : pc'[u] = "out"
    BY <2>1, OthersAreOut DEF IInv, Types, CoreEnds
  <2> QED  BY <2>1, <2>2, <2>3 DEF IInv, WorkFindsItsProcessor
<1>2. \A u \in Threads : Knows(u)'
  BY <1>1 DEF Knows, StartLoop, StopLoop
<1>3. /\ core' \in {"Stopped", "Running"}
      /\ core' = "Stopped" => manager' = "Stopped" /\ ~winsock' /\ AllStopped'
      /\ core' = "Running" => manager' = "Running" /\ winsock' /\ AllRun'
  BY DEF IInv, LifecycleInv, Knows, CoreEnds, AfterRefusal, AllStopped, AllRun,
     IsStopped, Runs, StartLoop, StopLoop
<1> QED  BY <1>1, <1>2, <1>3 DEF IInv, LifecycleInv, Idle

(* A processor's last thread ends.                                         *)
LEMMA FinishKeeps ==
  ASSUME IInv, NEW p \in Processors, Finish(p)
  PROVE  IInv'
<1> USE DEF coreVars
<1>1. /\ service[p] = "Stopping" /\ active[p] /\ active' = [active EXCEPT ![p] = FALSE]
      /\ UNCHANGED <<core, winsock, configurationValid, manager, service, pc, todo>>
      /\ active \in [Processors -> BOOLEAN]
  BY DEF Finish, IInv, Types, TypeOK
<1>2. \A q \in Processors : active'[q] => active[q]
  BY <1>1
<1>3. Types' /\ WorkFindsItsProcessor'
  BY <1>1, <1>2 DEF IInv, Types, TypeOK, WorkFindsItsProcessor
<1>4. \A t \in Threads : Knows(t)'
  <2> SUFFICES ASSUME NEW t \in Threads  PROVE Knows(t)'
    OBVIOUS
  <2>1. Knows(t)
    BY DEF IInv, LifecycleInv
  <2>2. (AllStopped => AllStopped') /\ (AllRun => AllRun')
    BY <1>1 DEF AllStopped, AllRun, IsStopped, Runs
  <2>3. Begun(t) => Begun(t)'
    BY <1>1 DEF Begun, IsNext, IsStopped, Runs
  <2>4. Ended(t) => Ended(t)'
    BY <1>1 DEF Ended, IsNext, IsStopped, Runs
  <2> QED  BY <1>1, <2>1, <2>2, <2>3, <2>4 DEF Knows
<1>5. (AllStopped => AllStopped') /\ (AllRun => AllRun')
  BY <1>1 DEF AllStopped, AllRun, IsStopped, Runs
<1> QED  BY <1>1, <1>3, <1>4, <1>5 DEF IInv, LifecycleInv, Idle
-----------------------------------------------------------------------------
LEMMA InitInv == Init => IInv
<1> SUFFICES ASSUME Init  PROVE IInv
  OBVIOUS
<1> USE DEF Init
<1>1. Types /\ WorkFindsItsProcessor
  BY DEF Types, TypeOK, States, Pcs, WorkFindsItsProcessor
<1>2. LifecycleInv
  BY DEF LifecycleInv, Idle, Knows, AllStopped, IsStopped, StartLoop, StopLoop
<1> QED  BY <1>1, <1>2 DEF IInv

LEMMA NextInv == IInv /\ [Next]_vars => IInv'
<1> SUFFICES ASSUME IInv, [Next]_vars  PROVE IInv'
  OBVIOUS
<1>1. CASE UNCHANGED vars
  BY <1>1 DEF vars, coreVars, managerVars, processorVars, IInv, Types, TypeOK,
     WorkFindsItsProcessor, LifecycleInv, Idle, Knows, AllStopped, AllRun,
     IsStopped, Runs, Begun, Ended, IsNext
<1>2. ASSUME NEW t \in Threads, StartBegin(t) \/ StopBegin(t) \/ CallStep(t)
      PROVE  IInv'
  BY <1>2, BeginKeeps, CallKeeps, StartProcessorKeeps, StopProcessorKeeps,
     CoreEndsKeeps DEF CallStep
<1>3. ASSUME NEW p \in Processors, Finish(p)  PROVE IInv'
  BY <1>3, FinishKeeps
<1> QED  BY <1>1, <1>2, <1>3 DEF Next

LEMMA SpecInv == Spec => []IInv
BY InitInv, NextInv, PTL DEF Spec

(* What ServerCore's state says is so of every part of the server, for any *)
(* number of processors and of threads that start and stop it.             *)
THEOREM StateIsTrue == Spec => []ServerStateIsTrue
<1>1. IInv => ServerStateIsTrue
  <2> SUFFICES ASSUME IInv  PROVE ServerStateIsTrue
    OBVIOUS
  <2>1. ASSUME NEW p \in Group("IO"), service[p] # "Stopped", ~winsock
        PROVE  FALSE
    <3>1. p \in Processors /\ ~AllStopped /\ core # "Stopped" /\ core # "Running"
      BY <2>1 DEF Group, IInv, LifecycleInv, AllStopped, IsStopped
    <3>2. PICK t \in Threads : pc[t] # "out"
      BY <3>1 DEF IInv, LifecycleInv, Idle
    <3> QED  BY <2>1, <3>1, <3>2 DEF IInv, LifecycleInv, Knows
  <2> QED  BY <2>1 DEF IInv, LifecycleInv, AllStopped, AllRun, IsStopped, Runs,
           ServerStateIsTrue
<1> QED  BY <1>1, SpecInv, PTL

(* Whoever pushes tasks to another processor finds it running.             *)
THEOREM WorkIsTaken == Spec => []WorkFindsItsProcessor
<1>1. IInv => WorkFindsItsProcessor
  BY DEF IInv
<1> QED  BY <1>1, SpecInv, PTL
=============================================================================
