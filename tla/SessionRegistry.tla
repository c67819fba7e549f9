-------------------------- MODULE SessionRegistry --------------------------
(***************************************************************************)
(* What the session table promises to its callers: a map from connection   *)
(* ids to sessions, where an id is handed out only while it maps to        *)
(* nothing, a removal touches the one id it names, and removing a client   *)
(* takes away exactly that client's sessions, all of them at once.         *)
(* SessionLookupTable implements this with slots, generations and a queue  *)
(* of free indices.                                                        *)
(***************************************************************************)
CONSTANTS
  ConnectionIds,        \* every value a connection id can have
  InvalidConnectionId,  \* the id that never names a session
  Sessions,             \* the session objects
  NoSession,            \* the null session pointer
  Clients,              \* the client ids
  Owner                 \* [Sessions -> Clients], fixed when a session is built

VARIABLES
  registry,             \* [ConnectionIds -> Sessions \cup {NoSession}]
  call                  \* the last call that changed it: <<name, argument>>

vars == <<registry, call>>

NoCall == <<"none", InvalidConnectionId>>

Registered == {registry[id] : id \in ConnectionIds} \ {NoSession}

Init ==
  /\ registry = [id \in ConnectionIds |-> NoSession]
  /\ call = NoCall

Register(id, s) ==
  /\ id # InvalidConnectionId
  /\ registry[id] = NoSession
  /\ s \notin Registered
  /\ registry' = [registry EXCEPT ![id] = s]
  /\ call' = <<"register", id>>

Remove(id) ==
  /\ registry[id] # NoSession
  /\ registry' = [registry EXCEPT ![id] = NoSession]
  /\ call' = <<"remove", id>>

RemoveClient(c) ==
  /\ registry' = [id \in ConnectionIds |->
                    IF registry[id] \in Sessions /\ Owner[registry[id]] = c
                      THEN NoSession
                      ELSE registry[id]]
  /\ call' = <<"removeClient", c>>

Next ==
  \/ \E id \in ConnectionIds, s \in Sessions : Register(id, s)
  \/ \E id \in ConnectionIds : Remove(id)
  \/ \E c \in Clients : RemoveClient(c)

Spec == Init /\ [][Next]_vars
=============================================================================
