--------------------------- MODULE MCSessionTable ---------------------------
(***************************************************************************)
(* Two slots, three generations before the wrap, two clients that own one  *)
(* session object each.  MaxReleases recycles a slot past the wrap, so an  *)
(* id of the first generation is on its way to being issued again.         *)
(***************************************************************************)
EXTENDS SessionTableHistory, TLC

CONSTANTS s1, s2, c1, c2

MCOwner == (s1 :> c1) @@ (s2 :> c2)
=============================================================================
