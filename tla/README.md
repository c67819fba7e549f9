# A TLA+ model of ConnectionMultiplexedUDP

ConnectionMultiplexedUDP is a UDP server library: a fixed set of UDP sockets
serves any number of *sessions*, each named by a 64-bit connection id that the
peer stamps on its datagrams, authenticated with a per-session key, protected
against replay, and owned by a *client*, an application object with packet
callbacks.  This directory models the parts of the library whose correctness
depends on interleavings, on stale ids and on long histories, checks them with
TLC and proves what holds for every size of the tables and words with TLAPS.

Paths below are relative to `src/ConnectionMultiplexedUDP/ConnectionMultiplexedUDP/`.

## The system

| Component | State | Operations | Talks to |
|---|---|---|---|
| `SessionLookupTable` | slots (session, 32-bit generation), FIFO of free indices; `slotsMutex` | `Allocate`, `Release`, `ReleaseByClientId`, `Find`, `SnapshotActiveSessions` | called by `ProcessorManager` from any thread |
| `Session` | replay window (`replayMutex`), last activity (`activityMutex`), send sequence (`sendMutex`), key, peer address | `AcceptSequence`, `MarkReceivedNow`, `HasTimedOut`, `BuildSendPacket`, `VerifyPacketAuthentication` | held in `shared_ptr`s by table, tasks in progress and scans |
| `ClientManager` | map of client entries (`clientsMutex`); per entry: client, visit and removal flags (entry mutex, condition variable); a `thread_local` visiting flag | `AddClient`, `RemoveClient`, `RemoveAllClients`, `VisitClient`, `DispatchPacket` | calls the clients' callbacks |
| `ProcessorBase` | task queue, state, `needStop`, two threads | `Start`, `Stop`, `PushTaskToProcessor`, the task loop | base of the four processors |
| `LogicProcessor` | - | packet task, disconnect task | `ProcessorManager`, through it table and clients |
| `IOProcessor` | socket | receive loop, send task | pushes packet tasks to logic processors by endpoint |
| `HeartbeatProcessor` | - | periodic scan for timed-out sessions | pushes disconnect tasks by connection id |
| `TickerProcessor` | timer queue | tick loop, callbacks | application callbacks |
| `ProcessorManager` | processor groups, lifecycle state | start, roll back, stop; push by affinity or to the least busy; authenticate and dispatch | everything above |
| `ServerCore` | lifecycle state, `clientSessionMutex` | the public API | `ProcessorManager`, `ClientManager` |
| `Protocol` | - | HMAC, protobuf envelope | pure functions |

A datagram goes: receive thread -> queue of the logic processor its *endpoint*
hashes to -> `Find`, verify, `AcceptSequence`, `MarkReceivedNow` -> the client's
`OnRecvPacket` under `VisitClient`.  A disconnect, asked for by the peer's packet
or by the heartbeat's scan, goes to the queue of the logic processor its
*connection id* hashes to, which may be another one, and from there to `Release`.
Every step takes and drops its own mutex; nothing is held across steps.

What is hard here: ids that outlive their session while slots are recycled; two
affinities for one session; a timeout racing an answer; callbacks that re-enter
the manager they are called from; destruction of a client racing a visit;
starting, rolling back and stopping eight or more threads while tasks flow.
`PROJECT.json` lists these hazards at their lines.

## The modules

| Module | Models | Kind |
|---|---|---|
| `SessionRegistry` | what the table promises: a map from ids to sessions | abstract specification |
| `SessionLookupTable` | the table's state and operations | component, reused by `SessionFlow` |
| `SessionTableHistory` | the table under any calls, with every handle ever issued | specification, refinement mapping |
| `SessionLookupTable_proofs` | | lemmas about the table, used by the next and by `SessionFlow_proofs` |
| `SessionTable_proofs` | | proofs about `SessionTableHistory` |
| `ReplayWindow` | `AcceptSequence` as operators on a window | component, reused by `SessionFlow` |
| `ReplayGuard` | one window under any arrivals | specification |
| `ReplayGuard_proofs` | | proofs |
| `SessionFlow` | sessions under traffic: logic processors, heartbeat, application, network, removal of clients, composed with the table and the windows | specification |
| `SessionFlow_proofs` | | proofs |
| `ClientRegistry` | what the client manager promises: ids, clients, visits, and no waiting | abstract specification |
| `ClientManager` | clients, visits, removals by any threads | specification, refinement mapping |
| `ClientManager_proofs` | | proofs |
| `Service` | what a processor promises its manager: a state, and whether its threads run | abstract specification |
| `Processor` | one `ProcessorBase`: queue, worker, loop, start and stop | specification, refinement mapping, reused by the next two |
| `IOProcessor` | the processor with a socket | specification, a `Processor` |
| `TickerProcessor` | the processor with timers | specification, a `Processor` |
| `Processor_proofs` | | proofs about the last three |
| `ServerLifecycle` | `ServerCore` and `ProcessorManager` starting, rolling back and stopping all processors, called from anywhere | component, reused by the next two |
| `ServerLifecycle_proofs` | | proofs |
| `SendPath` | `SendPacket`: numbering, least-busy choice, queues, on a server that starts and stops | specification, composes `ServerLifecycle` |
| `Server` | the public API under `clientSessionMutex`, packet handlers, ticker callbacks, starts and stops | specification, composes `ServerLifecycle` and `ClientRegistry` |
| `ServerUse_proofs` | | proofs about the last two |
| `MC*` | the instances TLC runs | model checking |

Operators named as mutants in a comment are wrong on purpose.  Nothing uses them;
each is a plausible slip in the operator below it, and the properties must
notice when it takes that operator's place.

### Correspondence with the code

*Session table.*  One action per critical section of `slotsMutex`: `Allocate`,
`Release`, and for `ReleaseByClientId` one action per slot, with the mutex held
(`sweepClient`) from `SweepBegin` to `SweepEnd`.  `Vacate` is the tail both
removals share, with the generation's wrap.  `IndexSpan` and `GenerationSpan` are
the 2^32 values of the halves of an id.  The refinement maps the table to what a
caller can see, `VisibleSession`: `Find`, except that a client's sessions are gone
as soon as its sweep has the mutex.  The variable `call` names the last call on
both sides, so that a change of the table counts only as the call that made it: a
sweep that takes another client's session is not excused as some `Remove`.

*Replay window.*  The 64-bit word is the set of its one bits.  The code's test
for a shift by the word's width is kept, since the shift is undefined without it.

*Session flow.*  A logic processor's thread is a program counter with the task
and the session it holds.  Its critical sections are the actions `Take` (pop and
`Find`), `AcceptSequence`, `MarkReceivedNow`, `Dispatch`, `ValidateTimeout` and
`ReleaseSession`.  Popping and looking up are one action: only the owner pops
from its queue, so the pop can be moved up to the lookup.  Constructing a session
and allocating its slot are one action too.  The heartbeat's scan reads
the clock, copies the table and then tests and asks session by session.  The
network is the freedom of `Arrive`: any datagram any peer could have sent on any
id it was ever given, at any time, again and again.  Verification is
`Authentic`: right endpoint and key; that the id inside the authenticated part is
the envelope's (`ProcessorManager.cpp:331`) is left out, a packet task carries one.

`delivered` is the client's callback, and what happens inside that call is
`ClientManager`'s.  Of the clients themselves `clients` says which ones a visit still
gets into.  They are all there from the start and only leave, since their ids are never
used again.  `RemoveClientBegin`, `RemoveClientSessions` and `RemoveClientEnd` are
`ServerCore::RemoveClient`: first the sweep of the client's sessions, then the client,
with `clientSessionMutex` (`leaving`) held, so that registrations and the
application's removals wait.  A logic thread takes no part in that mutex: between its
`AcceptSequence` and its `Dispatch` the client may go, and then the packet is
accepted and never delivered.  `Dispatch` is one action, at the moment when the visit
gets the entry or finds it gone or marked.  A call for a client that is gone changes
nothing and is no action, and a call that a callback makes is the application's.

*Client manager.*  A thread's `pc` says where its current call is and `visiting`
whose visitor it is inside of, so that a visitor can make calls in turn.
`VisitEnter` is the critical section with the wait: the thread blocks as
`waiting`, and `notify_one`, `notify_all` or a spurious wakeup sends it back to
`enter`, where it competes for the entry with everybody else.  A visitor that
throws ends like one that returns.

*Processor.*  `pc` says where a thread's call of `PushTaskToProcessor`, `Start`
or `Stop` is; the calls' critical sections, stores and joins are the actions, in
the code's order.  `worker` is `processTaskThread` (`check` holds
`messageQueueMutex`, `asleep` waits on the condition variable), `loop` is
`processorThread`, and both may call the processor in turn.  Since only the worker
waits there, `notify_one` and `notify_all` are the same `Wake`.  A refused call
changes nothing and is no action.  Tasks are numbers in the order of acceptance;
a task that throws ends like one that returns.  `LogicProcessor` and
`HeartbeatProcessor` add nothing to it: the one has no loop, the other's looks at
`needStop` twice a turn.  What their tasks and scans do is `SessionFlow`'s.

*I/O processor and ticker.*  Each action is `Processor`'s with the derived class's
part conjoined.  A socket is named by the start that opened it.  `receiveSocket` is
the copy the loop uses without `socketMutex`, `sending` the handle under `sendto`,
which stands for that mutex.  `closesocket` is taken together with the exchange
that makes it the closing thread's own.  In the ticker, the wait for the next tick
ends at any time, since StopImpl's notification only shortens it; `ByFireTime` is
every order the priority queue may give up; `tickAt = "callback"` is
`tickerCallbackMutex` being held, and `StopImpl` is two actions around it.  The
nullptr and type tests on tasks are left out, and so is running out of memory,
except in the receive loop (`ReceiveThrows`) and in `Processor`'s own `LoopThrows`.

*Lifecycle of the server.*  A processor in `ServerLifecycle` is what `Service`
says, and `Processor` implements that (checked and proved), so the manager's loop
over the groups can be modelled with two or three actions a processor.  `pc` says
where a thread's call of `ServerCore::Start` or `Stop` is and `todo` which processors
its loop has yet to visit; `StartRank` and `StopRank` are the two orders.  Both
`lifecycleMutex`es are held within single actions only.  A logic worker and the
ticker's loop are threads that may call too, which is what `MayStop` refuses;
the configuration is valid or not from the beginning.

*Send path.*  One session.  `BuildBegin` to `BuildEnd` is `sendMutex` being held;
`CheckManager`, one `ScanQueue` per queue and `PushPacket` are the steps of
`PushTaskToProcessor` with nothing held in between, so that all they have read may
be stale.  `SendTask` is the worker of an I/O processor; it may run while only
the processor's loop is active, which the real one does not, and that adds behaviours
and hides none.

*Server.*  Each call of `ServerCore` waits for `clientSessionMutex` (`Lock`) and
then takes one action per call it makes of the client manager or the table;
`Held` places hold the mutex.  The client manager is `ClientRegistry`; of a session
only its owner is left, `SessionRegistry`'s map being the table's promise.
A logic processor's thread dispatches a packet to a client (`Dispatch`, `Visit`),
and inside the visit it may make any call, as the ticker's thread may in a
callback.  `ReleaseSession` is not bound to the client for whom the id was issued,
as in the code.

## The runs

| Run | Question | Instance | States |
|---|---|---|---|
| `session_table` | Does the table stay a map of ids to sessions, through recycling and a generation wrap? | 2 slots, 3 generations, 2 clients with a session each, 4 recyclings a slot | 24 thousand |
| `replay_window` | Are exactly the fresh numbers accepted? | word of 4 bits, numbers to 9 | 512 |
| `session_flow` | Is a reconnected peer safe from its own past, do packets reach their client in order and once, without a gap until it is removed, and does every removal have its reason? | 1 slot, 2 sessions of 1 peer and 1 client, 2 logic threads, 3 packets, timeout after 1 tick | 3 million, by symmetry |
| `session_ends` | Does every silent or disconnected session go away? | 1 slot, 2 sessions of 2 peers and 1 client, 2 logic threads, 1 packet a peer, 2 ticks | 371 thousand |
| `timeout_race` | Is a session still timed out when it is removed for that? (violated) | as `session_ends` | |
| `client_manager` | Is a client destroyed once and never under a visitor, does no waiter sleep for ever? | 3 threads with 2 calls each, 2 client ids | 37 thousand |
| `processor` | Do accepted tasks run once and in order, is nothing lost to a stop, does every call return? | 2 callers beside worker and loop, 3 tasks, 2 starts | 7 thousand |
| `io_processor` | Is the socket open where it is used and closed afterwards? | 2 callers, 2 packets, 2 starts | 4 thousand |
| `stop_under_traffic` | Does a stop get done whatever arrives? (violated) | as `io_processor` | |
| `ticker_processor` | Is a timer called once, in time, and not after its run? | 1 caller beside the callbacks, 3 timers at times 0 or 1, 2 starts | 79 thousand |
| `send_path` | Do the three levels' states stay true to each other, is every processor there when it is needed, are packets numbered uniquely and spread evenly? | 2 threads that start and stop, of which one sends, as does a logic worker; 2 I/O processors, 4 numbers | 479 thousand |
| `server` | Has every session a client, does every call return and every start or stop end? | 1 thread of the application, handlers on 1 logic processor, ticker callbacks; 1 client, 1 session | 72 thousand |

### Bounds, and why they are enough

* `MaxReleases = 4` recycles a slot past the wrap of 3 generations, so ids are
  issued a second time and the limit in `StaleHandleRejected` is reached from
  both sides.
* `WindowSize = 4` and `MaxSequence = 9` allow jumps by less than the word, by
  exactly its width and by twice as much, each from every pattern of bits.
* One slot makes every second registration reuse it.  In `session_flow` both
  sessions have the same endpoint and key, so that nothing but the id tells the one's
  late datagrams from the other's.  The slot's first id is odd and its second even
  there (`IndexSpan = 3`; the real span of 2^32 does the same to three logic
  processors), so that packets share a thread with the first session's disconnects and
  not with the second's: both placements are in one run.  The sessions differ in
  nothing else, and `SessionSymmetry` takes one for the other.
* `MaxTime = 1` with `Timeout = 1`: a session is timed out at the last tick if it
  was not heard from since the one before.  `session_ends` has `MaxTime = 2`, so
  that a session registered or heard from at tick 1 times out as well, one whose
  first timeout request was refused for it included.
  `MaxQueue` and `MaxTimeoutTasks` bound how many packets and timeout requests wait
  at once; disconnect requests are bounded by the sequence numbers.
* Three threads are one inside a visit, one waiting, and one that removes or
  overtakes.  Two client ids let visits nest crosswise and let the ids run out.
* Two starts show what one run leaves to the next.  Two callers let a start or a
  stop meet another and a push, and three tasks make a queue with one being run,
  one waiting and one arriving.  Three timers at two times are equal, ordered and
  due at different ticks.
* Four sequence numbers are enough for one queue to outgrow the other by more than
  the two senders, and for the numbers to run out.  In `server` the three threads
  can be registering, removing and stopping at once; a second client or session
  adds no contention for the one mutex.

`send_path` and `server` are checked for deadlock.  `CHECK_DEADLOCK FALSE` appears where the bounds let the system come to rest: no
datagram left to send, no call left to make.

### Fairness

`SessionFlow` assumes weak fairness of the clock, of the heartbeat's thread, of
each logic thread and of a removal of a client that has begun (`RemoveClientStep`):
the operating system runs threads that can run, and apart from short critical
sections these wait for nothing but a queue or the next period.  (A removal does
not wait for a visitor either: `ManagerImplementsRegistry`.)  Applications and network have none: a peer may fall silent, which is what the timeout is for.
`ClientManager` assumes weak fairness of each thread's steps, including the end
of a visitor.  It assumes nothing of spurious wakeups, so a waiter's progress
rests on the notifications alone.  Its calls are finitely many: the code gives no
order to waiters, and an endless stream of visits may overtake one for ever.

`Processor`, `IOProcessor` and `TickerProcessor` assume weak fairness of every call
that has begun, of the worker (tasks and callbacks return), of the loop and of the
clock; nobody has to call anything, and no spurious wakeup has to come.
`PausingSpec` adds, for the run `io_processor` only, strong fairness of
`ReceiveFails`: traffic that pauses for `SO_RCVTIMEO` again and again.  The code
does not guarantee that, which is what `stop_under_traffic` shows.

`Server` assumes weak fairness of the lifecycle's steps and strong fairness of
each thread's API steps, of the end of a handler and of a stopping processor's end.
Strong, because `std::mutex` and the client's condition variable let others go
first again and again, but threads that can run do not lose every race, and
because a handler may make calls before it ends, but not for ever.  That a
stopping processor ends is what `io_processor` and `processor` are about, and
what traffic without a pause can prevent (`stop_under_traffic`).

## The two disagreements found

* `timeout_race`: `LogicProcessor.cpp:53-63` checks a timeout a second time and
  then removes the session, with no lock across the two.  Packets are queued by
  endpoint and disconnects by connection id, so in general another thread can
  accept a packet in between, and the session is removed although it has just
  been heard from.  The documents promise removal only "if timeout still
  applies".  `CoLocatedTimeoutIsCurrent` shows the promise holds when both
  affinities pick the same logic processor, a single one for instance.
* `stop_under_traffic`: the receive loop looks at `needStop` only when `recvfrom`
  fails (`IOProcessor.cpp:135`).  While datagrams keep coming within 100 ms of one
  another, from any sender, `StopThreads` joins it for ever; the socket is closed
  only after that join.  The lifecycle of `Docs/Files/ServerCore.md:36` goes from
  Stopping to Stopped, and stopping the I/O first is meant to stop inbound traffic
  (`Docs/Architecture.md:291`).

A diagram that is not followed, to the good: the removal flow in
`Docs/Files/ClientManager.md:43` has `RemoveClient` wait for the visit count to
reach zero.  The code marks the entry and returns, and the visiting thread destroys
the client (as the comment at `ClientManager.h:43` allows).  A caller must not take
a returned removal for the end of all callbacks; but were it to wait, `RemovableUnvisited`
in `Server` is what would happen: `ServerCore::RemoveClient` holds
`clientSessionMutex`, and a handler in the middle of a visit may be waiting for that
mutex (`ApiCallsReturn` is violated).

## What is proved

Every invariant, action property and refinement that a passing run checks is also
a theorem about the same specification, for every value of the constants.  Liveness is
only model-checked: that calls, tasks, timers and timeouts get done rests on
fairness, which TLAPS does not reason about (`AcceptedTaskRuns`,
`LifecycleCallsReturn`, `FiledTimerIsCalled`, `EveryCallReturns`,
`RemovedClientIsDestroyed`, `SilentSessionGoes`, `DisconnectedSessionGoes`,
`ApiCallsReturn`, `TransitionsEnd`), and the two disagreements are TLC's.

The theorems assume of the constants what the `ASSUME`s beside them say:

* `TableAssumption`: a slot index fits its half of the id, there are at least two
  generation values.  `WindowAssumption`, `SequenceAssumption`, `TickerAssumption`,
  `HistoryAssumption`: sizes and bounds are natural numbers.
* `ProcessorAssumption`, `ManagerAssumption`, `LifecycleAssumption`,
  `ServerAssumption`: the names that stand for "nobody" and for the library's own
  threads are none of the callers', and there is at least one processor of either
  kind, without which a server does not start (`ProcessorManager.cpp:31`).
* `SendAssumption`: there are finitely many senders, or the difference of the queues'
  lengths would have no bound.
* `FlowAssumption`: functions have their domains and ranges; each peer's packets are
  of the three types.
* `FewSessions`, the one hypothesis stated in theorems: fewer sessions are registered
  than a slot has generations (2^32 - 1).  `RemovalsHaveReasons` and
  `CoLocatedTimeoutsAreCurrent` need it.  Past that a slot's generation wraps and an id
  names a second session, and a disconnect request that waited all the while takes
  that one away: with three sessions and two generations TLC finds it.
  `TasksReachTheirSessions` and `DispatchIsInOrder` hold without it.

Most invariants are not inductive by themselves; each module proves a stronger one.

* `SessionTable_proofs`: `TypeCorrect`, `FreeListIsExact`,
  `StaleHandlesAreRejected`, `TableImplementsRegistry`.  The inductive invariant
  is types, the exact free queue and `HandleInv`: the generation of a slot is the
  one in any of its handles, advanced once per recycling since it was issued.
  Without it nothing relates an old id to the slot's present generation.  A cycle
  has `GenerationSpan - 1` members (0 is skipped), which is why that many
  recyclings bring an id back.  `VacateKeeps` and `VacateFind` carry the step both
  removals share.  What needs no history is in `SessionLookupTable_proofs`:
  `IdArithmetic` and `IdHalves`, which take ids apart, and what `Allocate`, `Vacate`
  and `Release` keep of the table (`AllocateKeepsTable`, `ReleaseKeepsTable`).
* `ReplayGuard_proofs`: `WindowIsExact` and `ReplayProtection`.  `WindowExact` is
  inductive with the types: the proof follows the ways `AcceptSequence` moves the
  window.
* `SessionFlow_proofs`: `TypeCorrect`, `TasksReachTheirSessions`,
  `DispatchIsInOrder`, `RemovalsHaveReasons`, `CoLocatedTimeoutsAreCurrent`, for any
  numbers of slots, sessions, clients, peers, packets and logic threads.
  `DispatchIsInOrder` says that the n-th packet a client is given is the n-th data
  packet accepted, that nothing is missing while the client is there, and that one
  that was removed has a beginning of what was accepted.  Four layers: `IdInv` (`OccupantInv`: the session in a slot has the id made of the slot's
  generation; `HoldInv`: a thread holds the session of its task's id), then
  `FlowInv` (`QueueInv` and `WorkInv`: a packet waits at its endpoint's processor, a
  timeout request at its id's, a queued disconnect has its reason, the packet in a
  thread's hand is the last its session accepted; `TimeoutInv`: nothing of a
  co-located session is handled between its second check and its removal), then
  `ClientInv` (a session in the table has a client, because a removal takes the client
  away only when its last session is gone: so a disconnect removes a session only
  after the data before it was delivered, not lost), then
  `LastingInv` (`GenerationInv`: a slot's generation exceeds that of each session
  that left it, and grew by at most one for each; `UniqueInv`: no two sessions
  have one id).  That all packets of a session are with one thread (`OneThread`) is
  what keeps acceptance and delivery in step.
* `ClientManager_proofs`: `TypeCorrect`, `OneOwner`, `VisitsExclude`,
  `WakeupsAreNotLost`, `RemovalEndsVisits`, `ManagerImplementsRegistry`, for any
  number of threads and any nesting of visits.  `OwnerInv` says where each issued
  client is, `EntryInv` what an entry's flags say of each other, `VisitInv` ties
  an entry's visitor to that thread's own record of where it is.  The
  refinement maps every action to one of `ClientRegistry` or to a stutter.
* `Processor_proofs`, first about `Processor`: `TypeCorrect`, `LifecycleExclusion`, `TasksRunInOrder`,
  `WakeupsAreNotLost`, `StopsDropNothing`, `ProcessorImplementsService`.  `LifecycleInv` is what each place in
  Start and Stop knows of the two threads: that a worker exits only with an empty
  queue after which no push is accepted, that a stop without a worker undoes a
  failed start, that the worker never sleeps past `NotifyAll`.  `Ordered` relates
  the queue to the tasks that have left it; `TakingKeepsOrder` and
  `AppendingKeepsOrder` are its steps.  `StepIsService` maps each step to a step of
  `Service` or to none.
* The same module about `IOProcessor`: `IOImplementsProcessor`, which makes every theorem about
  `Processor` one about it, `SocketsAreUsedOpen` and `SocketsAreClosed`.
  `SocketInv` says where in Start and Stop there is a socket, and that the copy in
  `recvfrom` is it as long as the loop runs.
* And about `TickerProcessor`: `TickerImplementsProcessor`,
  `CallbacksEndWithStopImpl`, `TimersEnd`, `CallbacksComeInTime`.  `TickerInv` adds that past StopImpl the
  timers stay empty, because the worker files nothing once `needStop` is set, and
  that tasks to fire exist only while the loop is between tick and `clear()`.
  `TimelyInv` says that a timer is in one place only (to be filed, filed, collected or
  fired) and that the collected ones are due and in order.
* `ServerLifecycle_proofs`: `StateIsTrue` and `WorkIsTaken`, for any numbers of
  callers and of processors.  `Knows` says what the one thread inside knows of core,
  Winsock and manager at each of its places; `Begun` and `Ended` say of the loops
  that what is done runs (or is stopped) and what is to come does not (or does).
  That a processor becomes active, or is told to stop, only in its turn is
  `DoneBefore`, from the two orders.
* `ServerUse_proofs`: `SendPathImplementsLifecycle` and `ServerImplementsLifecycle`
  carry the two theorems of `ServerLifecycle` over to the send path and the API.
  `NumbersUnique` and `LoadIsSpread`, for any numbers of senders and I/O processors:
  `NumberInv` says that an issued number is below `nextSendSequence` and in one place,
  `LoadInv` that above the peak of any queue another one grows only by the senders
  that compared sizes before (`Behind`), each of which makes room when it pushes.  `SessionsAreOwned`: `CallKnows` is what a
  call that holds `clientSessionMutex` knows of its client at each place, and that
  only one call does.

## Not modelled

HMAC, protobuf and sockets as such: pure data or I/O, represented by their
outcomes.  The entry point and the smoke test.  The destructors, which call Stop and
ignore what it returns.  `OnClientCreated` and `OnClientDestroyed` that call the
server: they run under `clientSessionMutex` when `AddClient` or `RemoveClient`
calls them, and would lock a mutex their own thread holds.  Running out of memory,
except in the receive loop and in `Processor`'s `LoopThrows`.  What a stop in mid-traffic
does to sessions: `SessionFlow` has a running server, and `SendPath` and `Server`
have the lifecycle.  So a disconnect request that is refused because the manager is
stopping, its packet's number already used up, is in no model, and neither is a
`Stop` of the destructor that is refused because another one is under way.

## Plan

Everything of the first plan is modelled, and every safety property that a run
checks is proved.  What would say more:

1. That `SessionFlow` and `Server` use the session table as `SessionRegistry`
   promises it: `SessionFlow`'s table steps as steps of `SessionTableHistory`, and
   `Server`'s `owner` as the registry's map.
2. That `Server` implements `ClientRegistry`, so that `ManagerImplementsRegistry` and
   `SessionsAreOwned` can be put together.
3. That each processor of `ServerLifecycle` takes only steps `Service` allows: then
   `ProcessorImplementsService` meets exactly what the manager's model relies on.
