------------------------------- MODULE Server -------------------------------
(***************************************************************************)
(* The server as its application sees it: ServerCore with its lifecycle,   *)
(* the client manager and the session table, each as far as it promises    *)
(* (ClientRegistry; SessionRegistry's map, with the owner in place of the  *)
(* session), the packet handlers that run on logic processors, and the     *)
(* calls that the application makes on any thread, inside a packet handler *)
(* and a ticker callback too.  clientSessionMutex makes a call one step    *)
(* for other calls only: handlers begin and end, and disconnect tasks take *)
(* sessions away, in the middle of it.                                     *)
(***************************************************************************)
EXTENDS ServerLifecycle

CONSTANTS
  ClientIds,
  NoClient,        \* InvalidClientId
  ConnectionIds    \* ids the session table can give out

ASSUME ServerAssumption == NoClient \notin ClientIds

VARIABLES
  unused, clients, alive, visiting,    \* ClientRegistry's
  owner,           \* [ConnectionIds -> the client of the session that is
                   \*   registered under it, or NoClient]
  at,              \* [Threads -> where its call of ServerCore is]
  about            \* [Threads -> the client or connection it is about]

Registry == INSTANCE ClientRegistry

registryVars == <<unused, clients, alive, visiting>>
callVars == <<at, about>>
serverVars == <<vars, registryVars, owner, callVars>>

ServerInit ==
  /\ Init
  /\ Registry!Init
  /\ owner = [id \in ConnectionIds |-> NoClient]
  /\ at = [t \in Threads |-> "out"]
  /\ about = [t \in Threads |-> NoClient]

Outside(t) == CanCall(t) /\ at[t] = "out"

\* Application code runs: in a thread of its own, a handler or a callback.
MayCall(t) == Outside(t) /\ (t \in Group("Logic") => visiting[t] # NoClient)

Moves(t, place) == at' = [at EXCEPT ![t] = place]
Begins(t, place, subject) ==
  /\ Moves(t, place)
  /\ about' = [about EXCEPT ![t] = subject]
Proceeds(t, from, to) == at[t] = from /\ Moves(t, to) /\ UNCHANGED about
-----------------------------------------------------------------------------
\* A call begins by waiting for clientSessionMutex.
CallBegin(t) ==
  /\ MayCall(t)
  /\ \/ Begins(t, "AddClient", NoClient)
     \/ \E id \in ClientIds \ unused :
          Begins(t, "RemoveClient", id) \/ Begins(t, "RegisterClientSession", id)
     \/ \E id \in ConnectionIds : Begins(t, "RemoveClientSession", id)
  /\ UNCHANGED <<vars, registryVars, owner>>

\* Where a call goes on once it has the mutex.
CriticalSection ==
  [AddClient |-> "add", RemoveClient |-> "sweep",
   RegisterClientSession |-> "contains", RemoveClientSession |-> "release"]

Held(place) ==
  place \in {"add", "sweep", "remove", "contains", "allocate", "release"}

\* Mutant: nobody locks it.
ClientSessionMutexUnused == TRUE
ClientSessionMutexFree == \A t \in Threads : ~Held(at[t])

Lock(t) ==
  /\ at[t] \in DOMAIN CriticalSection
  /\ ClientSessionMutexFree
  /\ Moves(t, CriticalSection[at[t]])
  /\ UNCHANGED <<vars, registryVars, owner, about>>

\* AddClient; the ids may be used up.
AddClient(t) ==
  /\ Proceeds(t, "add", "out")
  /\ \/ \E id \in unused : Registry!Add(id)
     \/ unused = {} /\ UNCHANGED registryVars
  /\ UNCHANGED <<vars, owner>>

\* RemoveClient: RemoveClientSessions, ...
SweepSessions(t) ==
  /\ Proceeds(t, "sweep", "remove")
  /\ owner' = [id \in ConnectionIds |->
                 IF owner[id] = about[t] THEN NoClient ELSE owner[id]]
  /\ UNCHANGED <<vars, registryVars>>

\* ... and ClientManager::RemoveClient.  Mutant: it waits until nobody
\* visits the client, as Docs/Files/ClientManager.md:43 has it.
RemovableUnvisited(id) == \A t \in Threads : visiting[t] # id
Removable(id) == TRUE

RemoveClient(t) ==
  /\ Proceeds(t, "remove", "out")
  /\ Removable(about[t])
  /\ Registry!Remove({about[t]} \cap clients)
  /\ UNCHANGED <<vars, owner>>

\* RegisterClientSession: ContainsClient, ...
ContainsClient(t) ==
  /\ Proceeds(t, "contains", IF about[t] \in clients THEN "allocate" ELSE "out")
  /\ UNCHANGED <<vars, registryVars, owner>>

\* ... and Allocate, if the table has room.
AllocateSession(t) ==
  /\ Proceeds(t, "allocate", "out")
  /\ \/ \E id \in ConnectionIds :
          /\ owner[id] = NoClient
          /\ owner' = [owner EXCEPT ![id] = about[t]]
     \/ /\ \A id \in ConnectionIds : owner[id] # NoClient
        /\ UNCHANGED owner
  /\ UNCHANGED <<vars, registryVars>>

\* RemoveClientSession: Release, whatever is registered under the id.
ReleaseSession(t) ==
  /\ Proceeds(t, "release", "out")
  /\ owner' = [owner EXCEPT ![about[t]] = NoClient]
  /\ UNCHANGED <<vars, registryVars>>
-----------------------------------------------------------------------------
\* A logic processor has a task: a packet of a session, for its client, ...
Dispatch(p) ==
  /\ Outside(p) /\ visiting[p] = NoClient
  /\ \E id \in ConnectionIds :
       owner[id] # NoClient /\ Begins(p, "dispatch", owner[id])
  /\ UNCHANGED <<vars, registryVars, owner>>

\* ... whose handler runs, or who is gone, ...
Visit(p) ==
  /\ Proceeds(p, "dispatch", "out")
  /\ \/ Registry!VisitBegin(p, about[p])
     \/ about[p] \notin clients /\ UNCHANGED registryVars
  /\ UNCHANGED <<vars, owner>>

VisitEnd(p) ==
  /\ pc[p] = "out" /\ at[p] = "out"
  /\ Registry!VisitEnd(p)
  /\ UNCHANGED <<vars, owner, callVars>>

\* ... or a disconnect, which takes no clientSessionMutex.
DisconnectSession(p) ==
  /\ Outside(p) /\ visiting[p] = NoClient
  /\ \E id \in ConnectionIds :
       owner[id] # NoClient /\ owner' = [owner EXCEPT ![id] = NoClient]
  /\ UNCHANGED <<vars, registryVars, callVars>>

\* The last user of a removed client destroys it.
DestroyClient ==
  /\ \E id \in ClientIds : Registry!Destroy(id)
  /\ UNCHANGED <<vars, owner, callVars>>
-----------------------------------------------------------------------------
ApiStep(t) ==
  \/ Lock(t) \/ AddClient(t) \/ SweepSessions(t) \/ RemoveClient(t)
  \/ ContainsClient(t) \/ AllocateSession(t) \/ ReleaseSession(t) \/ Visit(t)

\* Lifecycle's steps; a thread in a call or in a handler is not done.
LifecycleBegin(t) ==
  /\ MayCall(t)
  /\ StartBegin(t) \/ StopBegin(t)
  /\ UNCHANGED <<registryVars, owner, callVars>>
LifecycleStep(t) == CallStep(t) /\ UNCHANGED <<registryVars, owner, callVars>>
ServerFinish(p) ==
  /\ p \in ServerThreads => at[p] = "out" /\ visiting[p] = NoClient
  /\ Finish(p)
  /\ UNCHANGED <<registryVars, owner, callVars>>

ServerNext ==
  \/ \E t \in Threads :
       \/ CallBegin(t) \/ ApiStep(t)
       \/ LifecycleBegin(t) \/ LifecycleStep(t)
  \/ \E p \in Group("Logic") : Dispatch(p) \/ VisitEnd(p) \/ DisconnectSession(p)
  \/ DestroyClient
  \/ \E p \in Processors : ServerFinish(p)

\* Threads that can run do.  Others may overtake one that waits for the
\* mutex or for a client, and a handler or a task may call again and again,
\* but not for ever.  One thread at a time is in the lifecycle, and it waits
\* for one processor at a time.
ServerFairness ==
  /\ WF_serverVars(\E t \in Threads : LifecycleStep(t))
  /\ SF_serverVars(\E p \in Processors : ServerFinish(p))
  /\ \A t \in Threads : SF_serverVars(ApiStep(t))
  /\ \A p \in Group("Logic") : SF_serverVars(VisitEnd(p))

ServerSpec == ServerInit /\ [][ServerNext]_serverVars /\ ServerFairness
-----------------------------------------------------------------------------
(* No session outlives its client or comes without one, although a removal *)
(* takes the sessions and the client in two steps and a registration looks *)
(* at the client first and allocates afterwards: a packet of a registered  *)
(* session has a client to go to.                                          *)
SessionsHaveClients ==
  \A id \in ConnectionIds : owner[id] # NoClient => owner[id] \in clients

(* Every call of the server returns, from inside a packet handler too, and *)
(* every packet gets its turn with the client: a thread that waits for     *)
(* clientSessionMutex inside a handler is not one that the holder of the   *)
(* mutex waits for.                                                        *)
ApiCallsReturn == \A t \in Threads : at[t] # "out" ~> at[t] = "out"
=============================================================================
