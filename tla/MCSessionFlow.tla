--------------------------- MODULE MCSessionFlow ---------------------------
(***************************************************************************)
(* One slot and two session objects, so the second session registered has  *)
(* a recycled slot.  The SamePeer definitions give p2 both sessions, with  *)
(* the same endpoint and key, so that only the id tells its late datagrams *)
(* apart, and enough packets to put in order.  With an odd IndexSpan the   *)
(* first id of the slot is odd and the second even: of two logic           *)
(* processors p2's packets run on the one where the first session's        *)
(* disconnect requests do and the second's do not.  The sessions are alike *)
(* then, which SessionSymmetry says.                                       *)
(*                                                                         *)
(* The TwoPeers definitions give each peer a session and one packet.  With *)
(* an even IndexSpan every id is even, so that p1's packets run where its  *)
(* disconnect requests do and p2's on the other processor.                 *)
(***************************************************************************)
EXTENDS SessionFlow, TLC

CONSTANTS s1, s2, p1, p2, c1

MCPacketAffinity == (p1 :> 0) @@ (p2 :> 1)

OneClientOwner == [s \in Sessions |-> c1]

SamePeerPeerOf == [s \in Sessions |-> p2]
SamePeerPacketTypes == (p1 :> <<>>) @@ (p2 :> <<"data", "data", "disconnect">>)
SessionSymmetry == Permutations(Sessions)

TwoPeersPeerOf == (s1 :> p1) @@ (s2 :> p2)
TwoPeersPacketTypes == (p1 :> <<"disconnect">>) @@ (p2 :> <<"heartbeat">>)
=============================================================================
