------------------------- MODULE MCTickerProcessor -------------------------
(***************************************************************************)
(* One caller beside the callbacks, two starts, and three timers at times  *)
(* 0 and 1 in every combination.                                           *)
(***************************************************************************)
EXTENDS TickerProcessor
=============================================================================
