------------------------------ MODULE MCServer ------------------------------
(***************************************************************************)
(* A thread of the application, the handlers on one logic processor and    *)
(* the ticker's callbacks all start, stop and use the server, around one   *)
(* client and one session: each can be registering while another removes.  *)
(***************************************************************************)
EXTENDS Server
=============================================================================
