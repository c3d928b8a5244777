--------------------------- MODULE WriteCentering ---------------------------
(***************************************************************************)
(* rw_mgr_mem_calibrate_writes_center of sequencer.c: the output delays of *)
(* one DQS group.  The bits are centred as in ReadCentering, except that   *)
(* the strobe stays where write levelling put it; then the data mask is    *)
(* swept alone and with the strobe, and put into the middle of the longest *)
(* run of taps at which it and all bits are written correctly.             *)
(***************************************************************************)
EXTENDS EdgeSearch

CONSTANTS
    Eyes,     \* eyes a bit or the data mask may have: records [lo, hi]
    Dm,       \* the data mask of the group
    NoBit     \* no bit recorded

ASSUME EyeAssumption ==
    /\ \A e \in Eyes : e.lo \in Int /\ e.hi \in Int
    /\ NoBit \notin Bits \cup {Dm}
    /\ Dm \notin Bits

VARIABLES
    eyes, dm_eye,             \* of each bit and of the data mask
    start_dqs,                \* delay of the strobe, from write levelling
    pc, d,                    \* sweep and its tap
    left, right, sticky,      \* left_edge, right_edge, sticky_bit_chk
    bgn_curr, end_curr, win,  \* runs of the mask; [bgn, end, length] best
    dq, dqs, dm,              \* delays in the scan chain
    result, error             \* value returned, bit recorded

bitSearch == <<left, right, sticky>>
maskSearch == <<bgn_curr, end_curr, win>>
writeVars == <<eyes, dm_eye, start_dqs, pc, d, bitSearch, maskSearch, dq, dqs,
               dm, result, error>>

-----------------------------------------------------------------------------
WriteInit ==
    /\ eyes \in [Bits -> Eyes] /\ dm_eye \in Eyes
    /\ start_dqs \in Tap
    /\ dqs = start_dqs
    /\ dq = [i \in Bits |-> 0] /\ dm = 0
    /\ pc = "left" /\ d = 0
    /\ left = [i \in Bits |-> NoEdge]
    /\ right = [i \in Bits |-> NoEdge]
    /\ sticky = {}
    /\ bgn_curr = NoEdge /\ end_curr = NoEdge
    /\ win = [bgn |-> NoEdge, end |-> NoEdge, length |-> 0]
    /\ result = "none" /\ error = NoBit

(* A bit whose left edge is known counts as seen. *)
StickyReset(l) == {i \in Bits : l[i] /= NoEdge}

ApplyDqOut1(tap) == dq' = [i \in Bits |-> tap]

EndLeft(l, r) ==
    /\ pc' = "right" /\ d' = 0
    /\ left' = l
    /\ right' = RightReset(l, r)
    /\ sticky' = StickyReset(l)
    /\ ApplyDqOut1(0)

LeftTap ==
    /\ pc = "left"
    /\ \E good \in PassSets(eyes, start_dqs - d) :
          IF good = {} /\ sticky = Bits
          THEN EndLeft(left, right)
          ELSE LET l == LeftOfLeft(left, good, d)
                   r == RightOfLeft(left, right, good, d)
               IN  IF d = TapMax
                   THEN EndLeft(l, r)
                   ELSE /\ left' = l /\ right' = r
                        /\ sticky' = sticky \cup good
                        /\ d' = d + 1
                        /\ ApplyDqOut1(d)
                        /\ UNCHANGED pc
    /\ UNCHANGED <<eyes, dm_eye, start_dqs, maskSearch, dqs, dm, result, error>>

(* The right sweep stops as the left one does; when that is at its first
   tap, bits with a left edge have their right edge just before.           *)
RightStop ==
    /\ right' = [i \in Bits |-> IF LosesAtStart(left, right, i, d) THEN -1
                                ELSE right[i]]
    /\ pc' = "align"
    /\ UNCHANGED <<left, d>>

RightTap ==
    /\ pc = "right"
    /\ \E good \in PassSets(eyes, start_dqs + d) :
          /\ dqs' = start_dqs + d
          /\ sticky' = sticky \cup good
          /\ IF good = {} /\ sticky = Bits
             THEN RightStop
             ELSE /\ left' = LeftOfRight(left, right, good, d)
                  /\ right' = RightOfRight(left, right, good, d)
                  /\ d' = d + 1
                  /\ pc' = IF d = TapMax - start_dqs THEN "align" ELSE pc
    /\ UNCHANGED <<eyes, dm_eye, start_dqs, maskSearch, dq, dm, result, error>>

(* A bit without both edges: the first one is recorded.  The strobe stays
   where the sweep ended.                                                  *)
FailAlign ==
    /\ pc = "align"
    /\ Blind(left, right) /= {}
    /\ error' = CHOOSE i \in Blind(left, right) :
                    \A j \in Blind(left, right) : i <= j
    /\ result' = "bad"
    /\ pc' = "done"
    /\ UNCHANGED <<eyes, dm_eye, start_dqs, d, bitSearch, maskSearch, dq, dqs,
                   dm>>

(* The strobe returns to its start and only the bits are moved. *)
AlignBits ==
    /\ pc = "align"
    /\ Blind(left, right) = {}
    /\ dq' = [i \in Bits |-> ShiftDq(left, right, 0, i)]
    /\ dqs' = start_dqs
    /\ pc' = "mask" /\ d' = TapMax
    /\ UNCHANGED <<eyes, dm_eye, start_dqs, bitSearch, maskSearch, dm, result,
                   error>>

-----------------------------------------------------------------------------
(* A masked write test passes if the mask and all bits do. *)
MaskTest(mask, strobe) ==
    {ok \in BOOLEAN :
        LET MayPass(e, skew) == Possible(e, skew)
            MustPass == /\ Sure(dm_eye, strobe - mask)
                        /\ \A i \in Bits : Sure(eyes[i], strobe - dq[i])
            CanPass == /\ MayPass(dm_eye, strobe - mask)
                       /\ \A i \in Bits : MayPass(eyes[i], strobe - dq[i])
        IN  (ok => CanPass) /\ (MustPass => ok)}

(* Fault: the length of a run is one short. *)
RunGrows_short(p) ==
    LET bgn == IF bgn_curr = NoEdge THEN p ELSE bgn_curr
    IN  /\ end_curr' = p
        /\ bgn_curr' = bgn
        /\ win' = IF p - bgn > win.length
                  THEN [bgn |-> bgn, end |-> p, length |-> p - bgn + 1]
                  ELSE win

(* The run of passing taps up to position p, and the longest run so far. *)
RunGrows(p) ==
    LET bgn == IF bgn_curr = NoEdge THEN p ELSE bgn_curr
    IN  /\ end_curr' = p
        /\ bgn_curr' = bgn
        /\ win' = IF p - bgn + 1 > win.length
                  THEN [bgn |-> bgn, end |-> p, length |-> p - bgn + 1]
                  ELSE win

RunBreaks == bgn_curr' = NoEdge /\ end_curr' = NoEdge /\ UNCHANGED win

(* First the mask is moved, from the largest delay down: positions -d.
   A run goes on into the sweep of the strobe only if it reaches 0.        *)
MaskTap ==
    /\ pc = "mask"
    /\ \E ok \in MaskTest(d, dqs) :
          /\ IF ok THEN RunGrows(-d) ELSE RunBreaks
          /\ IF d = 0
             THEN pc' = "strobe" /\ UNCHANGED d /\ dm' = 0
             ELSE d' = d - 1 /\ dm' = d /\ UNCHANGED pc
    /\ UNCHANGED <<eyes, dm_eye, start_dqs, bitSearch, dq, dqs, result, error>>

(* Then the strobe is moved up, until the rest cannot hold a longer run. *)
StrobeTap ==
    /\ pc = "strobe"
    /\ dqs' = start_dqs + d
    /\ \E ok \in MaskTest(0, start_dqs + d) :
          /\ IF ok THEN RunGrows(d) ELSE RunBreaks
          /\ IF \/ d = TapMax - start_dqs
                \/ ~ok /\ win.length - 1 > TapMax - start_dqs - d
             THEN pc' = "centre" /\ UNCHANGED d
             ELSE d' = d + 1 /\ UNCHANGED pc
    /\ UNCHANGED <<eyes, dm_eye, start_dqs, bitSearch, dq, dm, result, error>>

(* Fault: a middle on the strobe's side is not cut off at 0. *)
mid_negative == Half(-win.bgn - win.end)

mid == LET m == Half(-win.bgn - win.end) IN IF m < 0 THEN 0 ELSE m
(* Fault: the margin to the other end of the run. *)
dm_margin_end == IF win.length = 0 THEN -1 ELSE win.end + mid

dm_margin == IF win.length = 0 THEN -1 ELSE -win.bgn - mid

(* Fault: the strobe is not put back. *)
CentreMask_swept ==
    /\ pc = "centre"
    /\ dm' = mid
    /\ result' = IF MarginsHold(left, right, dq, 0) /\ dm_margin >= 0
                 THEN "ok" ELSE "bad"
    /\ pc' = "done"
    /\ UNCHANGED <<eyes, dm_eye, start_dqs, d, bitSearch, maskSearch, dq, dqs,
                   error>>

CentreMask ==
    /\ pc = "centre"
    /\ dqs' = start_dqs
    /\ dm' = mid
    /\ result' = IF MarginsHold(left, right, dq, 0) /\ dm_margin >= 0
                 THEN "ok" ELSE "bad"
    /\ pc' = "done"
    /\ UNCHANGED <<eyes, dm_eye, start_dqs, d, bitSearch, maskSearch, dq, error>>

Finished == pc = "done" /\ UNCHANGED writeVars

WriteNext == LeftTap \/ RightTap \/ FailAlign \/ AlignBits \/ MaskTap
             \/ StrobeTap \/ CentreMask \/ Finished

WriteSpec == WriteInit /\ [][WriteNext]_writeVars

-----------------------------------------------------------------------------
TypeOK ==
    /\ eyes \in [Bits -> Eyes] /\ dm_eye \in Eyes
    /\ {start_dqs, dqs, dm} \subseteq Tap /\ dq \in [Bits -> Tap]
    /\ pc \in {"left", "right", "align", "mask", "strobe", "centre", "done"}
    /\ d \in 0 .. TapMax + 1
    /\ left \in Edges /\ right \in Edges /\ sticky \in SUBSET Bits
    /\ bgn_curr \in Edge /\ end_curr \in Edge
    /\ win \in [bgn : Edge, end : Edge, length : 0 .. 2 * TapMax + 1]
    /\ result \in {"none", "ok", "bad"}
    /\ error \in Bits \cup {NoBit}

(* The run in which the mask is centred consists of positions at which the
   mask and all bits can be written, and there is no longer run of positions
   at which they surely can: joining the two sweeps at 0 and stopping early
   lose nothing.                                                           *)
Writable(p, Readable(_, _)) ==
    LET strobe == IF p > 0 THEN start_dqs + p ELSE start_dqs
    IN  /\ Readable(dm_eye, start_dqs + p)
        /\ \A i \in Bits : Readable(eyes[i], strobe - dq[i])
RunIsLongest ==
    pc = "done" /\ error = NoBit =>
        /\ win.length > 0 =>
              \A p \in win.bgn .. win.end : Writable(p, Possible)
        /\ \A p, q \in -TapMax .. TapMax - start_dqs :
              (\A r \in p .. q : Writable(r, Sure)) => q - p < win.length

(* The strobe, which also times the group's other writes, is back at its
   levelled delay whenever the group was not failed for a missing edge.    *)
StrobeIsBack == pc = "done" /\ error = NoBit => dqs = start_dqs

-----------------------------------------------------------------------------
Spare(eye) == Sure(eye, start_dqs - 1) /\ Sure(eye, start_dqs)

(* The centring of writes keeps the promise of Centring, with the data mask
   as a lane of its own.  After a success every bit and the mask are written
   correctly at the delays it leaves behind, although the run of the mask was
   found partly by moving the strobe, with which the bits move too, and the
   margin of its far end is never looked at.  A group whose mask is written
   correctly at the start, and whose bits also are one tap earlier, is never
   given up, and a bit that a failure records was not such a bit.           *)
Service ==
    INSTANCE Centring WITH
        Lanes <- Bits \cup {Dm}, NoLane <- NoBit,
        open <- {i \in Bits : Spare(eyes[i])}
                \cup {m \in {Dm} : Sure(dm_eye, start_dqs)},
        clear <- {i \in Bits : Possible(eyes[i], dqs - dq[i])}
                 \cup {m \in {Dm} : Possible(dm_eye, dqs - dm)},
        blamed <- error
ImplementsCentring == Service!CentringSpec
=============================================================================
