----------------------------- MODULE MCSendPath -----------------------------
(***************************************************************************)
(* Two threads of the application that start and stop the server, one of   *)
(* which sends, as do the handlers on the logic processor; two I/O         *)
(* processors to choose from and four numbers, so that they run out and    *)
(* one queue can grow past the other by more than the senders.             *)
(***************************************************************************)
EXTENDS SendPath

CONSTANTS c1, c2

MCSenders == {c1, <<"Logic", 1>>}
=============================================================================
