--------------------------- MODULE MCIOProcessor ---------------------------
(***************************************************************************)
(* Two callers, two starts (so two sockets) and two packets to send.       *)
(***************************************************************************)
EXTENDS IOProcessor
=============================================================================
