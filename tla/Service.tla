------------------------------ MODULE Service ------------------------------
(***************************************************************************)
(* What a processor promises the manager that starts and stops it: its     *)
(* state, and whether one of its threads may be running application code.  *)
(* A start that fails ends as a stop does, a stopped processor runs        *)
(* nothing, and one that is Running runs until it is stopped.              *)
(***************************************************************************)
VARIABLES
  state,           \* EState of ProcessorBase
  active           \* a thread of the processor runs tasks, or its loop

vars == <<state, active>>

Init == state = "Stopped" /\ active = FALSE

Start ==
  /\ state = "Stopped"
  /\ state' = "Starting"
  /\ UNCHANGED active

\* The derived class's thread runs before the start is through.
Activate ==
  /\ state = "Starting"
  /\ active' = TRUE
  /\ UNCHANGED state

Started ==
  /\ state = "Starting" /\ active
  /\ state' = "Running"
  /\ UNCHANGED active

StartFails ==
  /\ state = "Starting"
  /\ state' = "Stopping"
  /\ UNCHANGED active

Stop ==
  /\ state = "Running"
  /\ state' = "Stopping"
  /\ UNCHANGED active

\* The last thread ends: needStop is set, or the loop threw in mid-start.
Finish ==
  /\ state \in {"Starting", "Stopping"}
  /\ active' = FALSE
  /\ UNCHANGED state

\* The threads are joined.
Stopped ==
  /\ state = "Stopping" /\ ~active
  /\ state' = "Stopped"
  /\ UNCHANGED active

Next ==
  \/ Start \/ Activate \/ Started \/ StartFails
  \/ Stop \/ Finish \/ Stopped

Spec == Init /\ [][Next]_vars
=============================================================================
