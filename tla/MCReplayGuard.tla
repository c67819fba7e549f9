--------------------------- MODULE MCReplayGuard ---------------------------
(***************************************************************************)
(* A word of four bits and numbers up to nine: jumps that shift history    *)
(* within the word, out of it, by exactly its width and by more.           *)
(***************************************************************************)
EXTENDS ReplayGuard
=============================================================================
