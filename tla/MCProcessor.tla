---------------------------- MODULE MCProcessor ----------------------------
(***************************************************************************)
(* Two callers beside the worker and the loop: one may start or stop while *)
(* the other pushes, starts or stops too.                                  *)
(***************************************************************************)
EXTENDS Processor
=============================================================================
