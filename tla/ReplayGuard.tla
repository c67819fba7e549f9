---------------------------- MODULE ReplayGuard ----------------------------
(***************************************************************************)
(* One session's window facing a network that delivers any sequence number *)
(* at any time: late, twice, or after a jump of any length.  The history   *)
(* is the set of the numbers AcceptSequence has ever let through.          *)
(***************************************************************************)
EXTENDS ReplayWindow

CONSTANT MaxSequence   \* the largest value of a sequence: 2^64 - 1

ASSUME SequenceAssumption == MaxSequence \in Nat

VARIABLES
  replay,              \* the session's window
  acceptedEver         \* the sequence numbers it has accepted

vars == <<replay, acceptedEver>>

SequenceNumbers == 0 .. MaxSequence

Init == replay = NewWindow /\ acceptedEver = {}

AcceptSequence(sequence) ==
  /\ Acceptable(replay, sequence)
  /\ replay' = Accepted(replay, sequence)
  /\ acceptedEver' = acceptedEver \cup {sequence}

RejectSequence(sequence) ==
  /\ ~Acceptable(replay, sequence)
  /\ UNCHANGED vars

Next ==
  \E sequence \in SequenceNumbers :
    AcceptSequence(sequence) \/ RejectSequence(sequence)

Spec == Init /\ [][Next]_vars
-----------------------------------------------------------------------------
(* The window is a number and a word of WindowSize bits.                   *)
TypeOK ==
  /\ replay \in [highest : SequenceNumbers, bits : SUBSET Distances]
  /\ acceptedEver \subseteq SequenceNumbers \ {0}

(* The word is exactly the recent history: bit d is set if and only if     *)
(* highest - d was accepted, whatever jumps and shifts led here.           *)
WindowExact ==
  /\ \A s \in acceptedEver : s <= replay.highest
  /\ acceptedEver # {} => replay.highest \in acceptedEver
  /\ acceptedEver = {} => replay = NewWindow
  /\ \A d \in Distances :
       d \in replay.bits <=> replay.highest - d \in acceptedEver

(* AcceptSequence lets through exactly the numbers that were not let       *)
(* through before and are fewer than WindowSize behind the highest: a      *)
(* duplicate never passes, however late, and a first arrival inside the    *)
(* window is never refused.                                                *)
AcceptsExactlyTheFresh ==
  \A sequence \in SequenceNumbers \ {0} :
    Acceptable(replay, sequence) <=>
      /\ sequence \notin acceptedEver
      /\ sequence + WindowSize > replay.highest
=============================================================================
