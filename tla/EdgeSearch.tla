----------------------------- MODULE EdgeSearch -----------------------------
(***************************************************************************)
(* The arithmetic that the calibration firmware (sequencer.c) shares       *)
(* between the centring of reads and of writes.                            *)
(*                                                                         *)
(* A delay is a number of taps.  A data bit is transferred correctly if    *)
(* the strobe falls into the bit's eye, a window of the skew "delay of the *)
(* strobe minus delay of the bit".  The firmware sweeps the delay of the   *)
(* bits (left) and then that of the strobe (right) and keeps, for each     *)
(* bit, how far each went with the bit still transferred.  An edge that    *)
(* was not found is NoEdge; an edge on the far side of the start is        *)
(* negative.                                                               *)
(***************************************************************************)
EXTENDS Integers

CONSTANTS
    Bits,    \* DQ bits of a group
    TapMax   \* IO_IO_IN_DELAY_MAX, IO_IO_OUT1_DELAY_MAX, IO_DQS_IN_DELAY_MAX

ASSUME TapAssumption == TapMax \in Nat \ {0}
ASSUME BitsAssumption == Bits \subseteq Nat /\ Bits /= {}

Tap == 0 .. TapMax
NoEdge == TapMax + 1
Edge == -NoEdge .. NoEdge
Edges == [Bits -> Edge]

(* C division by two: towards zero. *)
Half(n) == IF n >= 0 THEN n \div 2 ELSE -((-n) \div 2)
(* Fault: halves are not rounded up. *)
HalfUp_down(n) == Half(n)

HalfUp(n) == Half(IF n > 0 THEN n + 1 ELSE n)

(* Fault: negative delays are not caught. *)
Clamp_top(n) == IF n > TapMax THEN TapMax ELSE n

Clamp(n) == IF n > TapMax THEN TapMax ELSE IF n < 0 THEN 0 ELSE n

-----------------------------------------------------------------------------
(* The eyes.  Inside the window a transfer succeeds; one tap outside it,
   noise decides; further out it fails.                                    *)
Sure(eye, skew) == eye.lo <= skew /\ skew <= eye.hi
Possible(eye, skew) == eye.lo - 1 <= skew /\ skew <= eye.hi + 1

(* The bits that a test with the given skew may find correct. *)
PassSets(eyes, skew) ==
    {S \in SUBSET Bits :
        \A i \in Bits : /\ Sure(eyes[i], skew) => i \in S
                        /\ i \in S => Possible(eyes[i], skew)}

-----------------------------------------------------------------------------
(* One tap of the left sweep, in which the bits of "good" passed. *)
LeftOfLeft(left, good, d) == [i \in Bits |-> IF i \in good THEN d ELSE left[i]]
RightOfLeft(left, right, good, d) ==
    [i \in Bits |-> IF i \notin good /\ left[i] = NoEdge
                    THEN -(d + 1) ELSE right[i]]

(* Between the sweeps: the right edge of a bit without left edge is void. *)
RightReset(left, right) ==
    [i \in Bits |-> IF left[i] = NoEdge THEN NoEdge ELSE right[i]]

(* One tap of the right sweep.  A bit that fails at the first tap although
   it has a left edge has its right edge just before.                      *)
LosesAtStart(left, right, i, d) ==
    d = 0 /\ right[i] = NoEdge /\ left[i] /= NoEdge
RightOfRight(left, right, good, d) ==
    [i \in Bits |-> IF i \in good THEN d
                    ELSE IF LosesAtStart(left, right, i, d) THEN -1
                    ELSE right[i]]
LeftOfRight(left, right, good, d) ==
    [i \in Bits |-> IF /\ i \notin good
                       /\ right[i] = NoEdge
                       /\ ~LosesAtStart(left, right, i, d)
                    THEN -(d + 1) ELSE left[i]]

Blind(left, right) == {i \in Bits : left[i] = NoEdge \/ right[i] = NoEdge}

-----------------------------------------------------------------------------
Mid(left, right, i) == left[i] - right[i]

(* The least distance between the middle of an eye and the start, doubled. *)
MidMin(left, right) ==
    CHOOSE m \in {Mid(left, right, i) : i \in Bits} :
        \A i \in Bits : m <= Mid(left, right, i)

(* Fault: half the distance is rounded before it is subtracted. *)
ShiftDq_unpaired(left, right, moved, i) ==
    Clamp(Half(Mid(left, right, i)) - MidMin(left, right)
          + HalfUp(MidMin(left, right)) - moved)

(* The delay of bit i once the strobe has been moved back by "moved" taps:
   half the distance of its middle to the nearest one, and what the strobe
   could not be moved.                                                     *)
ShiftDq(left, right, moved, i) ==
    Clamp((Half(Mid(left, right, i) - MidMin(left, right))
           + HalfUp(MidMin(left, right))) - moved)

DqMargin(left, shift, moved, i) == left[i] - shift[i] - moved
(* Fault: the strobe's own move is forgotten. *)
DqsMargin_still(right, shift, moved, i) == right[i] + shift[i]

DqsMargin(right, shift, moved, i) == right[i] + shift[i] + moved

(* Both margins are the least over the bits, and at least 0 if it passed. *)
MarginsHold(left, right, shift, moved) ==
    \A i \in Bits : /\ DqMargin(left, shift, moved, i) >= 0
                    /\ DqsMargin(right, shift, moved, i) >= 0
=============================================================================
