--------------------------- MODULE ClientRegistry ---------------------------
(***************************************************************************)
(* What the client manager promises the server: a client has an id that    *)
(* was never used before, is visited by one thread at a time, and, once it *)
(* is removed, is destroyed when no visitor is inside.  A removal waits    *)
(* for nobody.  ClientManager implements this with entries, mutexes and    *)
(* condition variables.                                                    *)
(***************************************************************************)
CONSTANTS
  Threads,
  ClientIds,
  NoClient         \* InvalidClientId

VARIABLES
  unused,          \* ids of clients yet to be added
  clients,         \* ids in the map
  alive,           \* clients that are not destroyed
  visiting         \* [Threads -> the client whose visitor it runs]

vars == <<unused, clients, alive, visiting>>

Init ==
  /\ unused = ClientIds
  /\ clients = {}
  /\ alive = {}
  /\ visiting = [t \in Threads |-> NoClient]

Add(id) ==
  /\ id \in unused
  /\ unused' = unused \ {id}
  /\ clients' = clients \cup {id}
  /\ alive' = alive \cup {id}
  /\ UNCHANGED visiting

Remove(ids) ==
  /\ ids \subseteq clients
  /\ clients' = clients \ ids
  /\ UNCHANGED <<unused, alive, visiting>>

\* A thread that found the client before its removal may still get in.
VisitBegin(t, id) ==
  /\ visiting[t] = NoClient
  /\ id \in alive
  /\ \A u \in Threads : visiting[u] # id
  /\ visiting' = [visiting EXCEPT ![t] = id]
  /\ UNCHANGED <<unused, clients, alive>>

VisitEnd(t) ==
  /\ visiting[t] # NoClient
  /\ visiting' = [visiting EXCEPT ![t] = NoClient]
  /\ UNCHANGED <<unused, clients, alive>>

Destroy(id) ==
  /\ id \in alive \ clients
  /\ \A t \in Threads : visiting[t] # id
  /\ alive' = alive \ {id}
  /\ UNCHANGED <<unused, clients, visiting>>

Next ==
  \/ \E id \in ClientIds : Add(id) \/ Destroy(id)
  \/ \E ids \in SUBSET clients : Remove(ids)
  \/ \E t \in Threads :
       VisitEnd(t) \/ \E id \in ClientIds : VisitBegin(t, id)

Spec == Init /\ [][Next]_vars
=============================================================================
