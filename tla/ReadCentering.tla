--------------------------- MODULE ReadCentering ----------------------------
(***************************************************************************)
(* rw_mgr_mem_calibrate_vfifo_center of sequencer.c, the firmware that     *)
(* calibrates the processor's DDR3 memory at power-up: for one DQS group   *)
(* it finds the input delays of the data bits and of the strobe that put   *)
(* the strobe into the middle of every bit's eye.  One step is one tap:    *)
(* the delay is set, a read test is run, the edges are updated.            *)
(*                                                                         *)
(* The eyes are those of the board, chosen at the start.                   *)
(***************************************************************************)
EXTENDS EdgeSearch

CONSTANTS
    Eyes,     \* eyes a bit may have: records [lo, hi]
    NoBit     \* no bit recorded

ASSUME EyeAssumption ==
    /\ \A e \in Eyes : e.lo \in Int /\ e.hi \in Int
    /\ NoBit \notin Bits

VARIABLES
    eyes,               \* the eye of each bit
    start_dqs,          \* delay of the strobe found by the DQS enable search
    pc, d,              \* sweep and its tap
    left, right,        \* left_edge, right_edge
    sticky,             \* sticky_bit_chk
    dq, dqs,            \* delays in the scan chain
    result,             \* value returned
    error               \* bit handed to set_failing_group_stage

readVars == <<eyes, start_dqs, pc, d, left, right, sticky, dq, dqs, result,
              error>>

-----------------------------------------------------------------------------
ReadInit ==
    /\ eyes \in [Bits -> Eyes]
    /\ start_dqs \in Tap
    /\ dqs = start_dqs
    /\ dq = [i \in Bits |-> 0]
    /\ pc = "left" /\ d = 0
    /\ left = [i \in Bits |-> NoEdge]
    /\ right = [i \in Bits |-> NoEdge]
    /\ sticky = {}
    /\ result = "none"
    /\ error = NoBit

(* The bits of which no test found an edge so far are looked for again. *)
StickyReset(l, r) == {i \in Bits : l[i] /= NoEdge /\ r[i] /= NoEdge}

(* All bits of the group get the delay d. *)
ApplyDqIn(tap) == dq' = [i \in Bits |-> tap]

EndLeft(l, r) ==
    /\ pc' = "right" /\ d' = 0
    /\ left' = l
    /\ right' = RightReset(l, r)
    /\ sticky' = StickyReset(left', right')
    /\ ApplyDqIn(0)

(* A sweep stops at a tap at which no bit passes after all of them have. *)
LeftTap ==
    /\ pc = "left"
    /\ \E good \in PassSets(eyes, start_dqs - d) :
          IF good = {} /\ sticky = Bits
          THEN EndLeft(left, right)
          ELSE LET l == LeftOfLeft(left, good, d)
                   r == RightOfLeft(left, right, good, d)
               IN  IF d = TapMax
                   THEN EndLeft(l, r)
                   ELSE /\ left' = l /\ right' = r
                        /\ sticky' = sticky \cup good
                        /\ d' = d + 1
                        /\ ApplyDqIn(d)
                        /\ UNCHANGED pc
    /\ UNCHANGED <<eyes, start_dqs, dqs, result, error>>

RightTap ==
    /\ pc = "right"
    /\ \E good \in PassSets(eyes, start_dqs + d) :
          /\ dqs' = start_dqs + d
          /\ sticky' = sticky \cup good
          /\ IF good = {} /\ sticky = Bits
             THEN pc' = "centre" /\ UNCHANGED <<left, right, d>>
             ELSE /\ left' = LeftOfRight(left, right, good, d)
                  /\ right' = RightOfRight(left, right, good, d)
                  /\ d' = d + 1
                  /\ pc' = IF d = TapMax - start_dqs THEN "centre" ELSE pc
    /\ UNCHANGED <<eyes, start_dqs, dq, result, error>>

(* Fault: the strobe stays where the sweep ended. *)
FailCentre_unrestored ==
    /\ pc = "centre"
    /\ Blind(left, right) /= {}
    /\ error' = CHOOSE i \in Blind(left, right) :
                    \A j \in Blind(left, right) : i <= j
    /\ result' = "bad"
    /\ pc' = "done"
    /\ UNCHANGED <<eyes, start_dqs, d, left, right, sticky, dq, dqs>>

(* A bit without both edges: the strobe goes back to where it was, and the
   first such bit is recorded.                                             *)
FailCentre ==
    /\ pc = "centre"
    /\ Blind(left, right) /= {}
    /\ dqs' = start_dqs
    /\ error' = CHOOSE i \in Blind(left, right) :
                    \A j \in Blind(left, right) : i <= j
    /\ result' = "bad"
    /\ pc' = "done"
    /\ UNCHANGED <<eyes, start_dqs, d, left, right, sticky, dq>>

new_dqs == Clamp(start_dqs - HalfUp(MidMin(left, right)))
Moved == start_dqs - new_dqs

SetCentre ==
    /\ pc = "centre"
    /\ Blind(left, right) = {}
    /\ dqs' = new_dqs
    /\ dq' = [i \in Bits |-> ShiftDq(left, right, Moved, i)]
    /\ result' = IF MarginsHold(left, right, dq', Moved) THEN "ok" ELSE "bad"
    /\ pc' = "done"
    /\ UNCHANGED <<eyes, start_dqs, d, left, right, sticky, error>>

Finished == pc = "done" /\ UNCHANGED readVars

ReadNext == LeftTap \/ RightTap \/ FailCentre \/ SetCentre \/ Finished

ReadSpec == ReadInit /\ [][ReadNext]_readVars

-----------------------------------------------------------------------------
TypeOK ==
    /\ eyes \in [Bits -> Eyes]
    /\ start_dqs \in Tap /\ dqs \in Tap /\ dq \in [Bits -> Tap]
    /\ pc \in {"left", "right", "centre", "done"}
    /\ d \in 0 .. TapMax + 1
    /\ left \in Edges /\ right \in Edges
    /\ sticky \in SUBSET Bits
    /\ result \in {"none", "ok", "bad"}
    /\ error \in Bits \cup {NoBit}

(* If the centring reports success, every bit can be read at the delays it
   leaves behind: the margins it computes from edges that were found at
   other delays, and with noise, are those of the real eyes.  The return
   value is all the caller looks at.                                       *)
SuccessIsReadable ==
    result = "ok" => \A i \in Bits : Possible(eyes[i], dqs - dq[i])

(* A group all of whose bits are read correctly at the delays the search
   starts from is never given up, and no bit of it is blamed: rounding and
   the clamping of delays do not lose an open eye.                         *)
OpenEyesSucceed ==
    (\A i \in Bits : Sure(eyes[i], start_dqs)) => result /= "bad"

(* While no delay is at the end of its chain, each bit's strobe is within
   half a tap of the middle between the edges that were found: a strobe that
   cannot be moved early enough is made up for by later bits.              *)
Unclamped == dqs < TapMax /\ \A i \in Bits : dq[i] < TapMax
StrobeCentred ==
    pc = "done" /\ error = NoBit /\ Unclamped =>
        \A i \in Bits :
            LET early == left[i] - dq[i] - Moved
                late == right[i] + dq[i] + Moved
            IN  early - late \in -1 .. 1

(* A search that gives up because of a missing edge leaves the strobe as it
   was, and the bit it records was not open at the start.                  *)
BlameIsRestored ==
    error /= NoBit => /\ dqs = start_dqs /\ result = "bad"
                      /\ ~Sure(eyes[error], start_dqs)

-----------------------------------------------------------------------------
(* The promise of Centring. *)
Service ==
    INSTANCE Centring WITH
        Lanes <- Bits, NoLane <- NoBit,
        open <- {i \in Bits : Sure(eyes[i], start_dqs)},
        clear <- {i \in Bits : Possible(eyes[i], dqs - dq[i])},
        blamed <- error
ImplementsCentring == Service!CentringSpec
=============================================================================
