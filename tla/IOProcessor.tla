---------------------------- MODULE IOProcessor ----------------------------
(***************************************************************************)
(* IOProcessor (IOProcessor.h/.cpp): the processor with a UDP socket.  Its *)
(* loop receives datagrams, its tasks send packets, and both use the       *)
(* socket that Start opens and Stop closes.  Every action of Processor is  *)
(* taken over, with what it does to the socket added.                      *)
(*                                                                         *)
(* What becomes of a datagram is SessionFlow's subject: here receiving is  *)
(* a turn of the loop.  A socket is named by the start that opened it, so  *)
(* that a handle kept for too long is not mistaken for its successor.      *)
(***************************************************************************)
EXTENDS Processor

VARIABLES
  sock,            \* the member sock, or INVALID_SOCKET
  open,            \* history: sockets opened and not closed
  recvAt,          \* where the receive loop is, while it is running
  receiveSocket,   \* its copy of sock, as long as it uses it
  sending          \* the socket sendto uses, under socketMutex

INVALID_SOCKET == 0
socketVars == <<sock, open, recvAt, receiveSocket, sending>>
ioVars == <<vars, socketVars>>

IOInit ==
  /\ Init
  /\ sock = INVALID_SOCKET
  /\ open = {}
  /\ recvAt = "top"
  /\ receiveSocket = INVALID_SOCKET
  /\ sending = INVALID_SOCKET

SocketMutexFree == sending = INVALID_SOCKET
-----------------------------------------------------------------------------
\* StartImpl: a socket that cannot be made or bound is closed at once; with
\* one in place the start may still fail on the creation of the thread.
IOStartImpl(t) ==
  /\ StartImpl(t)
  /\ \/ /\ pc'[t] = "startWorker" /\ loop' = "running"
        /\ sock' = starts /\ open' = open \cup {starts}
     \/ /\ pc'[t] = "fail"
        /\ \/ UNCHANGED <<sock, open>>
           \/ sock' = starts /\ open' = open \cup {starts}
  /\ recvAt' = "top"
  /\ UNCHANGED <<receiveSocket, sending>>

\* std::exchange under the mutex, then closesocket.  Mutant: the member
\* keeps the closed handle.
CloseSocketKeepingIt ==
  /\ SocketMutexFree
  /\ open' = open \ {sock}
  /\ UNCHANGED <<sock, recvAt, receiveSocket, sending>>
CloseSocket ==
  /\ SocketMutexFree
  /\ open' = open \ {sock}
  /\ sock' = INVALID_SOCKET
  /\ UNCHANGED <<recvAt, receiveSocket, sending>>

\* Mutant: the socket is closed already here, to get the loop out of recvfrom.
IOStopImplCloses(t) == StopImpl(t) /\ CloseSocket
IOStopImpl(t) == StopImpl(t) /\ UNCHANGED socketVars

\* StopAfterProcessorThreadImpl: nobody receives any more.
IOStopAfterLoop(t) == StopAfterLoop(t) /\ CloseSocket
-----------------------------------------------------------------------------
\* RunRecvThread looks the socket up again for every datagram and leaves if
\* there is none.
ReadSocket ==
  /\ loop = "running" /\ recvAt = "top"
  /\ SocketMutexFree
  /\ IF sock = INVALID_SOCKET
     THEN LoopLeaves /\ UNCHANGED socketVars
     ELSE /\ receiveSocket' = sock
          /\ recvAt' = "recv"
          /\ UNCHANGED <<vars, sock, open, sending>>

BackToTop == recvAt' = "top" /\ receiveSocket' = INVALID_SOCKET

\* recvfrom returns a datagram, which goes to a logic processor, ...
Receive ==
  /\ loop = "running" /\ recvAt = "recv"
  /\ BackToTop
  /\ UNCHANGED <<vars, sock, open, sending>>

\* Mutant: a timeout is no reason to look at needStop.
LeavesNever == FALSE
LeavesOnError == needStop

\* ... or fails: SO_RCVTIMEO has passed without one, or it is an error.
ReceiveFails ==
  /\ loop = "running" /\ recvAt = "recv"
  /\ BackToTop
  /\ IF LeavesOnError THEN LoopEnd ELSE UNCHANGED vars
  /\ UNCHANGED <<sock, open, sending>>

\* A datagram that cannot be copied into a task.
ReceiveThrows ==
  /\ recvAt = "recv"
  /\ LoopThrows
  /\ BackToTop
  /\ UNCHANGED <<sock, open, sending>>

\* ProcessTask sends a packet: SendPacket takes socketMutex and looks at
\* needStop and the socket, ...
SendBegin ==
  /\ worker = "task"
  /\ SocketMutexFree
  /\ ~needStop /\ sock # INVALID_SOCKET
  /\ sending' = sock
  /\ UNCHANGED <<vars, sock, open, recvAt, receiveSocket>>

\* ... or gives up; ...
SendRefused ==
  /\ SocketMutexFree
  /\ needStop \/ sock = INVALID_SOCKET
  /\ TaskEnd
  /\ UNCHANGED socketVars

\* ... sendto is done, successfully or not.
SendEnd ==
  /\ ~SocketMutexFree
  /\ TaskEnd
  /\ sending' = INVALID_SOCKET
  /\ UNCHANGED <<sock, open, recvAt, receiveSocket>>
-----------------------------------------------------------------------------
IOCallStep(t) ==
  \/ IOStartImpl(t) \/ IOStopImpl(t) \/ IOStopAfterLoop(t)
  \/ /\ \/ NotifyOne(t) \/ StartWorker(t) \/ StartEnd(t) \/ StartFail(t)
        \/ JoinLoop(t) \/ NotifyAll(t) \/ JoinWorker(t) \/ Clear(t)
        \/ StopEnd(t)
     /\ UNCHANGED socketVars

ReceiveStep == ReadSocket \/ Receive \/ ReceiveFails
SendStep ==
  \/ WorkerCheck /\ UNCHANGED socketVars
  \/ SendBegin \/ SendRefused \/ SendEnd

\* The processor's own threads make no calls: they receive and send.
IONext ==
  \/ \E t \in Callers :
       (Push(t) \/ StartBegin(t) \/ StopBegin(t)) /\ UNCHANGED socketVars
  \/ \E t \in Callers : IOCallStep(t)
  \/ ReceiveStep \/ ReceiveThrows \/ SendStep
  \/ SpuriousWakeup /\ UNCHANGED socketVars

IOFairness ==
  /\ \A t \in Callers : WF_ioVars(IOCallStep(t))
  /\ WF_ioVars(ReceiveStep)
  /\ WF_ioVars(SendStep)

IOSpec == IOInit /\ [][IONext]_ioVars /\ IOFairness

\* With traffic that pauses now and then for as long as SO_RCVTIMEO.
PausingSpec == IOSpec /\ SF_ioVars(ReceiveFails)
-----------------------------------------------------------------------------
Sockets == 1 .. MaxStarts

(* Types; the handles are real ones where they are used.                   *)
IOTypeOK ==
  /\ TypeOK
  /\ sock \in Sockets \cup {INVALID_SOCKET}
  /\ open \subseteq Sockets
  /\ recvAt \in {"top", "recv"}
  /\ receiveSocket \in Sockets \cup {INVALID_SOCKET}
  /\ receiveSocket # INVALID_SOCKET <=> recvAt = "recv"
  /\ sending \in Sockets \cup {INVALID_SOCKET}
  /\ sending # INVALID_SOCKET => worker = "task"

(* No thread is ever in recvfrom or sendto on a socket that is closed: the *)
(* receiving thread holds a copy of the handle without the mutex, and only *)
(* the order of StopThreads, the join before the close, protects it.       *)
SocketInUseIsOpen ==
  /\ receiveSocket # INVALID_SOCKET => receiveSocket \in open
  /\ sending # INVALID_SOCKET => sending \in open

(* No socket leaks: the only one open is the member sock, it is open as    *)
(* long as the processor runs, and a stop or a failed start leaves none.   *)
SocketsDoNotLeak ==
  /\ open = {sock} \ {INVALID_SOCKET}
  /\ state = "Running" => sock \in open
  /\ state = "Stopped" => open = {}

(* What Docs/Files/ServerCore.md:36 and the stop order of                  *)
(* Docs/Architecture.md:291 say of a stop: it gets done.  The receive loop *)
(* looks at needStop only after recvfrom failed.                           *)
StoppingGetsStopped == state = "Stopping" ~> state = "Stopped"
=============================================================================
