------------------------- MODULE ReplayGuard_proofs -------------------------
(***************************************************************************)
(* The replay window is exact for every width of the word and every range  *)
(* of sequence numbers.  WindowExact is inductive with the types: the four *)
(* ways AcceptSequence can move the window each keep bit d in step with    *)
(* the number highest - d, and AcceptsExactlyTheFresh reads off it.        *)
(***************************************************************************)
EXTENDS ReplayGuard, TLAPS

USE WindowAssumption, SequenceAssumption
    DEF WindowAssumption, SequenceAssumption, SequenceNumbers, Distances

IInv == TypeOK /\ WindowExact
-----------------------------------------------------------------------------
(* The first number accepted leaves bit 0 alone in the word.               *)
LEMMA FirstKeeps ==
  ASSUME IInv, NEW s \in SequenceNumbers, s # 0,
         replay.highest = 0,
         replay' = [highest |-> s, bits |-> {0}],
         acceptedEver' = acceptedEver \cup {s}
  PROVE  IInv'
<1>1. acceptedEver = {}
  BY DEF IInv, TypeOK, WindowExact
<1> QED
  BY <1>1 DEF IInv, TypeOK, WindowExact

(* A number above the highest moves the word up: what falls off its end    *)
(* is too old to be asked about again.                                     *)
LEMMA AdvanceKeeps ==
  ASSUME IInv, NEW s \in SequenceNumbers, s > replay.highest,
         replay.highest # 0,
         replay' = [highest |-> s,
                    bits |-> Advanced(replay.bits, s - replay.highest)],
         acceptedEver' = acceptedEver \cup {s}
  PROVE  IInv'
<1> DEFINE h == replay.highest
           advance == s - h
<1>1. /\ h \in SequenceNumbers /\ h # 0
      /\ replay.bits \subseteq Distances
      /\ acceptedEver \subseteq SequenceNumbers \ {0}
      /\ advance \in Nat \ {0}
  BY DEF IInv, TypeOK
<1>2. /\ \A t \in acceptedEver : t <= h
      /\ \A d \in Distances : d \in replay.bits <=> h - d \in acceptedEver
  BY DEF IInv, WindowExact
<1>3. \A d \in Distances :
        d \in Advanced(replay.bits, advance)
          <=> d = 0 \/ (advance < WindowSize /\ d - advance \in replay.bits)
  BY <1>1 DEF Advanced, ShiftLeft
<1>4. Advanced(replay.bits, advance) \subseteq Distances
  BY DEF Advanced, ShiftLeft
<1>5. TypeOK'
  BY <1>1, <1>4 DEF TypeOK
<1>6. ASSUME NEW d \in Distances
      PROVE  d \in replay'.bits <=> s - d \in acceptedEver'
  <2>1. CASE d = 0
    BY <1>3, <2>1
  <2>2. CASE d # 0
    <3>1. s - d # s
      BY <2>2
    <3>2. CASE d < advance
      <4>1. s - d > h /\ s - d \notin acceptedEver
        BY <1>1, <1>2, <3>2
      <4>2. d - advance \notin replay.bits
        BY <1>1, <3>2
      <4> QED
        BY <1>3, <2>2, <3>1, <4>1, <4>2
    <3>3. CASE d >= advance
      <4>1. d - advance \in Distances /\ advance < WindowSize
        BY <1>1, <3>3
      <4>2. h - (d - advance) = s - d
        BY <1>1
      <4>3. d - advance \in replay.bits <=> s - d \in acceptedEver
        BY <1>2, <4>1, <4>2
      <4> QED
        BY <1>3, <2>2, <3>1, <4>1, <4>3
    <3> QED
      BY <1>1, <3>2, <3>3
  <2> QED
    BY <2>1, <2>2
<1>7. \A t \in acceptedEver' : t <= s
  BY <1>1, <1>2
<1> QED
  BY <1>5, <1>6, <1>7 DEF IInv, WindowExact

(* A late number sets its own bit.                                         *)
LEMMA LateKeeps ==
  ASSUME IInv, NEW s \in SequenceNumbers, s # 0,
         replay.highest # 0, ~(s > replay.highest),
         replay.highest - s < WindowSize,
         replay' = [replay EXCEPT !.bits = @ \cup {replay.highest - s}],
         acceptedEver' = acceptedEver \cup {s}
  PROVE  IInv'
<1>1. /\ replay.highest \in SequenceNumbers
      /\ replay.highest - s \in Distances
      /\ replay'.highest = replay.highest
      /\ replay'.bits = replay.bits \cup {replay.highest - s}
  BY DEF IInv, TypeOK
<1>2. TypeOK'
  BY <1>1 DEF IInv, TypeOK
<1>3. ASSUME NEW d \in Distances
      PROVE  d \in replay'.bits <=> replay.highest - d \in acceptedEver'
  BY <1>1 DEF IInv, TypeOK, WindowExact
<1>4. /\ \A t \in acceptedEver' : t <= replay'.highest
      /\ replay'.highest \in acceptedEver'
  <2>1. acceptedEver # {}
    BY DEF IInv, WindowExact, NewWindow, TypeOK
  <2>2. replay.highest \in acceptedEver
    BY <2>1 DEF IInv, WindowExact
  <2> QED
    BY <1>1, <2>2 DEF IInv, WindowExact
<1> QED
  BY <1>1, <1>2, <1>3, <1>4 DEF IInv, WindowExact

LEMMA InitIInv == Init => IInv
  BY DEF Init, NewWindow, IInv, TypeOK, WindowExact

LEMMA IInvInductive == IInv /\ [Next]_vars => IInv'
<1> SUFFICES ASSUME IInv, [Next]_vars PROVE IInv'
  OBVIOUS
<1>1. ASSUME NEW s \in SequenceNumbers, AcceptSequence(s)
      PROVE  IInv'
  <2>1. /\ s # 0
        /\ replay.highest \in SequenceNumbers
        /\ replay' = Accepted(replay, s)
        /\ acceptedEver' = acceptedEver \cup {s}
    BY <1>1 DEF AcceptSequence, Acceptable, IInv, TypeOK
  <2>2. CASE replay.highest = 0
    BY <2>1, <2>2, FirstKeeps DEF Accepted
  <2>3. CASE replay.highest # 0 /\ s > replay.highest
    BY <2>1, <2>3, AdvanceKeeps DEF Accepted
  <2>4. CASE replay.highest # 0 /\ ~(s > replay.highest)
    <3>1. replay.highest - s < WindowSize
      BY <1>1, <2>4 DEF AcceptSequence, Acceptable
    <3>2. replay' = [replay EXCEPT !.bits = @ \cup {replay.highest - s}]
      BY <2>1, <2>4 DEF Accepted
    <3> QED
      BY <2>1, <2>4, <3>1, <3>2, LateKeeps
  <2> QED
    BY <2>2, <2>3, <2>4
<1>2. ASSUME NEW s \in SequenceNumbers, RejectSequence(s)
      PROVE  IInv'
  BY <1>2 DEF RejectSequence, vars, IInv, TypeOK, WindowExact
<1>3. CASE UNCHANGED vars
  BY <1>3 DEF vars, IInv, TypeOK, WindowExact
<1> QED
  BY <1>1, <1>2, <1>3 DEF Next

LEMMA InvariantIInv == Spec => []IInv
  BY InitIInv, IInvInductive, PTL DEF Spec

LEMMA ExactDecides == IInv => AcceptsExactlyTheFresh
<1> SUFFICES ASSUME IInv, NEW s \in SequenceNumbers \ {0}
             PROVE  Acceptable(replay, s) <=>
                      /\ s \notin acceptedEver
                      /\ s + WindowSize > replay.highest
  BY DEF AcceptsExactlyTheFresh
<1>1. replay.highest \in SequenceNumbers /\ s # 0
  BY DEF IInv, TypeOK
<1>2. CASE s > replay.highest
  <2>1. s \notin acceptedEver
    BY <1>1, <1>2 DEF IInv, TypeOK, WindowExact
  <2> QED
    BY <1>1, <1>2, <2>1 DEF Acceptable
<1>3. CASE ~(s > replay.highest)
  <2>1. replay.highest # 0
    BY <1>1, <1>3
  <2>2. CASE replay.highest - s < WindowSize
    <3>1. /\ replay.highest - s \in Distances
          /\ replay.highest - (replay.highest - s) = s
      BY <1>1, <1>3, <2>2
    <3>2. replay.highest - s \in replay.bits <=> s \in acceptedEver
      BY <3>1 DEF IInv, WindowExact
    <3> QED
      BY <1>1, <1>3, <2>1, <2>2, <3>2 DEF Acceptable
  <2>3. CASE ~(replay.highest - s < WindowSize)
    BY <1>1, <1>3, <2>1, <2>3 DEF Acceptable
  <2> QED
    BY <2>2, <2>3
<1> QED
  BY <1>2, <1>3
-----------------------------------------------------------------------------
(* The window's word never holds a bit it cannot, and mirrors the numbers  *)
(* accepted, however far and however often the window jumps.               *)
THEOREM WindowIsExact == Spec => [](TypeOK /\ WindowExact)
  BY InvariantIInv, PTL DEF IInv

(* Replay protection neither lets a duplicate through nor refuses a first  *)
(* arrival inside the window.                                              *)
THEOREM ReplayProtection == Spec => []AcceptsExactlyTheFresh
  BY InvariantIInv, ExactDecides, PTL
=============================================================================
