-------------------------- MODULE MCClientManager --------------------------
(***************************************************************************)
(* Two client ids, so that the ids run out, and three threads: one in a    *)
(* visit, one waiting behind it, one removing or barging in.               *)
(***************************************************************************)
EXTENDS ClientManager
=============================================================================
