---------------------------- MODULE ReplayWindow ----------------------------
(***************************************************************************)
(* The replay window of a session (Session.h, AcceptSequence in            *)
(* Session.cpp): the highest sequence number accepted and a 64-bit word    *)
(* whose bit d says that highest - d was accepted.  The word is modelled   *)
(* as the set of its one bits.                                             *)
(***************************************************************************)
EXTENDS Integers

CONSTANT WindowSize    \* REPLAY_WINDOW_SIZE, the width of the word: 64

ASSUME WindowAssumption == WindowSize \in Nat \ {0}

Distances == 0 .. WindowSize - 1
Windows == [highest : Nat, bits : SUBSET Distances]

NewWindow == [highest |-> 0, bits |-> {}]

\* receivedSequenceWindow << advance, on a word of WindowSize bits.
ShiftLeft(bits, advance) == {d \in Distances : d - advance \in bits}

(***************************************************************************)
(* The word after the window has moved up by advance.  A shift by the      *)
(* width of the word or more is undefined in C++, and the code tests for   *)
(* it first.  The mutant shifts by what the processor makes of the count.  *)
(***************************************************************************)
AdvancedUnguarded(bits, advance) ==
  ShiftLeft(bits, advance % WindowSize) \cup {0}

Advanced(bits, advance) ==
  IF advance >= WindowSize THEN {0} ELSE ShiftLeft(bits, advance) \cup {0}

\* Mutant: the last distance the word can hold is off by one.
AcceptableBeyondWindow(w, sequence) ==
  /\ sequence # 0
  /\ \/ w.highest = 0
     \/ sequence > w.highest
     \/ /\ w.highest - sequence <= WindowSize
        /\ w.highest - sequence \notin w.bits

\* Does AcceptSequence return true?
Acceptable(w, sequence) ==
  /\ sequence # 0
  /\ \/ w.highest = 0
     \/ sequence > w.highest
     \/ /\ w.highest - sequence < WindowSize
        /\ w.highest - sequence \notin w.bits

\* What it leaves behind when it does.
Accepted(w, sequence) ==
  IF w.highest = 0 THEN [highest |-> sequence, bits |-> {0}]
  ELSE IF sequence > w.highest
    THEN [highest |-> sequence,
          bits |-> Advanced(w.bits, sequence - w.highest)]
    ELSE [w EXCEPT !.bits = @ \cup {w.highest - sequence}]
=============================================================================
