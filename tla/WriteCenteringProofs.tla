------------------------ MODULE WriteCenteringProofs ------------------------
(***************************************************************************)
(* The centring of writes, for any number of bits, any number of taps and  *)
(* any eyes: it implements Centring, the run of the data mask is the       *)
(* longest, and the strobe is put back.  For the two sweeps over the bits  *)
(* the invariant says what the edges found so far say of each eye; for the *)
(* two sweeps over the mask, what the runs found so far say of all         *)
(* positions that were tested.                                             *)
(***************************************************************************)
EXTENDS WriteCentering, EdgeSearchProofs

(* Both edges are inside the eye, or a tap outside it where noise decides. *)
Inside(i) == /\ eyes[i].lo - 1 <= start_dqs - left[i]
             /\ start_dqs + right[i] <= eyes[i].hi + 1

(* What the left sweep has learnt of a bit that passed in it. *)
SeenLeft(l, r, i) ==
    l[i] /= NoEdge =>
        /\ l[i] \in Tap
        /\ eyes[i].lo - 1 <= start_dqs - l[i]
        /\ IF r[i] = NoEdge THEN start_dqs <= eyes[i].hi + 1
           ELSE start_dqs + r[i] <= eyes[i].hi + 1

LeftEdges ==
    pc = "left" => \A i \in Bits :
        /\ d = 0 => left[i] = NoEdge
        /\ left[i] = NoEdge => right[i] = IF d = 0 THEN NoEdge ELSE 0 - d
        /\ SeenLeft(left, right, i)

RightEdges ==
    pc = "right" => \A i \in Bits :
        /\ left[i] = NoEdge /\ right[i] = NoEdge => d = 0
        /\ left[i] /= NoEdge /\ right[i] /= NoEdge => Inside(i)
        /\ left[i] /= NoEdge /\ right[i] = NoEdge =>
              IF d = 0 THEN /\ eyes[i].lo - 1 <= start_dqs - left[i]
                            /\ start_dqs <= eyes[i].hi + 1
              ELSE left[i] = 0 - d

MaskPhase == {"mask", "strobe", "centre"}

BothEdges ==
    pc \in {"align"} \cup MaskPhase => \A i \in Bits :
        left[i] /= NoEdge /\ right[i] /= NoEdge => Inside(i)

(* A bit that is written correctly at the start has its edges on either side
   of it, and a bit that also is one tap earlier has its left edge there or
   further on.                                                             *)
EarlyEdge(l, i) == Spare(eyes[i]) => l[i] >= 1
OpenBit(i) ==
    /\ pc = "left" => IF d = 0 THEN sticky = {}
                      ELSE /\ left[i] \in Tap /\ right[i] = NoEdge
                           /\ d >= 2 => EarlyEdge(left, i)
    /\ pc = "right" => /\ left[i] \in Tap /\ EarlyEdge(left, i)
                       /\ IF d = 0 THEN right[i] = NoEdge
                          ELSE right[i] \in 0 .. TapMax - start_dqs
    /\ pc \in {"align"} \cup MaskPhase =>
          /\ left[i] \in Tap /\ EarlyEdge(left, i)
          /\ right[i] \in 0 .. TapMax - start_dqs
OpenBits == \A i \in Bits : Sure(eyes[i], start_dqs) => OpenBit(i)

SweepBounds ==
    /\ pc = "left" => d \in 0 .. TapMax
    /\ pc = "right" => d \in 0 .. TapMax - start_dqs
    /\ pc = "mask" => d \in 0 .. TapMax /\ dqs = start_dqs
    /\ pc = "strobe" => d \in 0 .. TapMax - start_dqs
    /\ pc /= "done" => result = "none" /\ error = NoBit

(* The sweeps over the bits leave the mask alone. *)
NoRuns ==
    pc \in {"left", "right", "align"} =>
        /\ bgn_curr = NoEdge
        /\ win = [bgn |-> NoEdge, end |-> NoEdge, length |-> 0]

Aligned ==
    pc \in MaskPhase =>
        /\ Blind(left, right) = {}
        /\ \A i \in Bits : dq[i] = ShiftDq(left, right, 0, i)

-----------------------------------------------------------------------------
(* A masked write at position p may pass, or surely does. *)
Maybe(p) == Writable(p, Possible)
Surely(p) == Writable(p, Sure)

(* The longest run among the positions up to c. *)
WindowUpTo(c) ==
    /\ IF win.length = 0 THEN win.bgn = NoEdge /\ win.end = NoEdge
       ELSE /\ win.bgn \in -TapMax .. c /\ win.end \in win.bgn .. c
            /\ win.length = win.end - win.bgn + 1
            /\ \A p \in win.bgn .. win.end : Maybe(p)
    /\ \A p, q \in -TapMax .. c :
          (\A r \in p .. q : Surely(r)) => q - p < win.length

(* The run that ends at c, if c passed. *)
RunUpTo(c) ==
    /\ bgn_curr /= NoEdge =>
          /\ bgn_curr \in -TapMax .. c
          /\ \A p \in bgn_curr .. c : Maybe(p)
          /\ c - bgn_curr < win.length
    /\ \A p \in -TapMax .. c :
          (\A r \in p .. c : Surely(r)) => bgn_curr /= NoEdge /\ bgn_curr <= p

(* The position tested last. *)
Covered == IF pc = "mask" THEN 0 - d - 1 ELSE IF d = 0 THEN 0 ELSE d - 1

Runs == pc \in {"mask", "strobe"} => WindowUpTo(Covered) /\ RunUpTo(Covered)

AllRuns ==
    pc = "centre" \/ (pc = "done" /\ error = NoBit) =>
        WindowUpTo(TapMax - start_dqs)

(* A group that can be written at the start, its mask included, has a run
   that begins at the start or before it.                                  *)
OpenGroup == Sure(dm_eye, start_dqs) /\ \A i \in Bits : Spare(eyes[i])
OpenRun ==
    pc \in {"strobe", "centre"} /\ OpenGroup =>
        /\ win.length > 0 /\ win.bgn <= 0
        /\ pc = "strobe" /\ bgn_curr /= NoEdge => bgn_curr <= 0

(* The inductive invariant. *)
WriteInv ==
    /\ TypeOK /\ SweepBounds /\ NoRuns /\ LeftEdges /\ RightEdges /\ BothEdges
    /\ OpenBits /\ Aligned /\ Runs /\ AllRuns /\ OpenRun /\ StrobeIsBack

-----------------------------------------------------------------------------
LEMMA Numbers ==
    ASSUME TypeOK
    PROVE  /\ TapMax \in Nat \ {0} /\ NoEdge = TapMax + 1
           /\ start_dqs \in 0 .. TapMax
           /\ \A i \in Bits : eyes[i].lo \in Int /\ eyes[i].hi \in Int
           /\ dm_eye.lo \in Int /\ dm_eye.hi \in Int
  BY TapAssumption, EyeAssumption DEF TypeOK, NoEdge, Tap

(* A bit that passed may be inside its eye, one that is surely inside passes. *)
LEMMA Passes ==
    ASSUME NEW skew, NEW good \in PassSets(eyes, skew), NEW i \in Bits
    PROVE  /\ good \subseteq Bits
           /\ i \in good => Possible(eyes[i], skew)
           /\ Sure(eyes[i], skew) => i \in good
  BY DEF PassSets

(* The end of the left sweep. *)
LEMMA EndLeftHolds ==
    ASSUME WriteInv, pc = "left", NEW l \in Edges, NEW r \in Edges,
           EndLeft(l, r),
           UNCHANGED <<eyes, dm_eye, start_dqs, maskSearch, dqs, dm, result, error>>,
           \A i \in Bits : SeenLeft(l, r, i),
           \A i \in Bits : Sure(eyes[i], start_dqs) =>
                               l[i] \in Tap /\ r[i] = NoEdge /\ EarlyEdge(l, i)
    PROVE  WriteInv'
<1> USE DEF WriteInv, EndLeft, MaskPhase
<1>1. TapMax \in Nat /\ NoEdge = TapMax + 1 /\ start_dqs \in 0 .. TapMax
  BY Numbers
<1>2. \A i \in Bits : right'[i] = IF l[i] = NoEdge THEN NoEdge ELSE r[i]
  BY DEF RightReset
<1>3. TypeOK'
  <2>1. right' \in Edges
    BY <1>1 DEF RightReset, Edges, Edge
  <2>2. dq' \in [Bits -> Tap]
    BY <1>1 DEF ApplyDqOut1, Tap
  <2>3. sticky' \subseteq Bits
    BY DEF StickyReset
  <2> QED
    BY <1>1, <2>1, <2>2, <2>3 DEF TypeOK, maskSearch
<1>4. SweepBounds' /\ NoRuns'
  BY <1>1 DEF SweepBounds, NoRuns, maskSearch
<1>5. LeftEdges' /\ BothEdges'
  BY DEF LeftEdges, BothEdges
<1>6. RightEdges'
  BY <1>1, <1>2 DEF RightEdges, SeenLeft, Inside
<1>7. OpenBits'
  BY <1>1, <1>2 DEF OpenBits, OpenBit, EarlyEdge, Spare
<1>8. Aligned' /\ Runs' /\ AllRuns' /\ OpenRun' /\ StrobeIsBack'
  BY DEF Aligned, Runs, AllRuns, OpenRun, StrobeIsBack
<1> QED
  BY <1>3, <1>4, <1>5, <1>6, <1>7, <1>8

(* One tap of the left sweep. *)
LEMMA LeftUpdate ==
    ASSUME WriteInv, pc = "left", NEW good \in PassSets(eyes, start_dqs - d),
           NEW l, l = LeftOfLeft(left, good, d),
           NEW r, r = RightOfLeft(left, right, good, d)
    PROVE  /\ l \in Edges /\ r \in Edges
           /\ \A i \in Bits : SeenLeft(l, r, i)
           /\ \A i \in Bits : l[i] = NoEdge => r[i] = 0 - (d + 1)
           /\ \A i \in Bits : Sure(eyes[i], start_dqs) =>
                                  /\ l[i] \in Tap /\ r[i] = NoEdge
                                  /\ d >= 1 => EarlyEdge(l, i)
<1> USE DEF WriteInv
<1>1. /\ TapMax \in Nat \ {0} /\ NoEdge = TapMax + 1 /\ start_dqs \in 0 .. TapMax
      /\ d \in 0 .. TapMax
      /\ \A i \in Bits : eyes[i].lo \in Int /\ eyes[i].hi \in Int
  BY Numbers DEF SweepBounds
<1>2. \A i \in Bits : left[i] \in Edge /\ right[i] \in Edge
  BY DEF TypeOK, Edges
<1>3. \A i \in Bits : l[i] = IF i \in good THEN d ELSE left[i]
  BY DEF LeftOfLeft
<1>4. \A i \in Bits : r[i] = IF i \notin good /\ left[i] = NoEdge
                             THEN 0 - (d + 1) ELSE right[i]
  <2>1. -(d + 1) = 0 - (d + 1)
    BY <1>1
  <2> QED
    BY <2>1 DEF RightOfLeft
<1>5. d \in Edge /\ 0 - (d + 1) \in Edge /\ d \in Tap /\ d /= NoEdge
  BY <1>1 DEF Edge, Tap
<1>6. l \in Edges
  BY <1>2, <1>5 DEF LeftOfLeft, Edges
<1>7. r \in Edges
  <2>1. -(d + 1) = 0 - (d + 1)
    BY <1>1
  <2> QED
    BY <1>2, <1>5, <2>1 DEF RightOfLeft, Edges
<1>8. ASSUME NEW i \in Bits PROVE SeenLeft(l, r, i)
  <2> SUFFICES ASSUME l[i] /= NoEdge PROVE SeenLeft(l, r, i)
    BY DEF SeenLeft
  <2>1. /\ left[i] = NoEdge => right[i] = IF d = 0 THEN NoEdge ELSE 0 - d
        /\ SeenLeft(left, right, i)
    BY DEF LeftEdges
  <2>2. CASE i \in good
    <3>1. /\ eyes[i].lo - 1 <= start_dqs - d
          /\ start_dqs - d <= eyes[i].hi + 1
      BY <2>2, Passes DEF Possible
    <3>2. l[i] = d /\ r[i] = right[i]
      BY <1>3, <1>4, <2>2
    <3>3. CASE left[i] = NoEdge
      BY <1>1, <1>5, <2>1, <3>1, <3>2, <3>3 DEF SeenLeft
    <3>4. CASE left[i] /= NoEdge
      BY <1>5, <2>1, <3>1, <3>2, <3>4 DEF SeenLeft
    <3> QED
      BY <3>3, <3>4
  <2>3. CASE i \notin good
    BY <1>3, <1>4, <2>1, <2>3 DEF SeenLeft
  <2> QED
    BY <2>2, <2>3
<1>9. ASSUME NEW i \in Bits, Sure(eyes[i], start_dqs)
      PROVE  /\ l[i] \in Tap /\ r[i] = NoEdge
             /\ d >= 1 => EarlyEdge(l, i)
  <2>1. OpenBit(i)
    BY <1>9 DEF OpenBits
  <2>2. CASE d = 0
    <3>1. i \in good
      BY <1>1, <1>9, <2>2, Passes
    <3>2. right[i] = NoEdge
      BY <2>2 DEF LeftEdges
    <3> QED
      BY <1>3, <1>4, <1>5, <2>2, <3>1, <3>2
  <2>3. CASE d /= 0
    <3>1. l[i] \in Tap /\ r[i] = NoEdge
      BY <1>1, <1>3, <1>4, <1>5, <2>1, <2>3 DEF OpenBit, Tap
    <3>2. ASSUME Spare(eyes[i]) PROVE l[i] >= 1
      <4>1. CASE d = 1
        BY <1>1, <1>3, <3>2, <4>1, Passes DEF Spare
      <4>2. CASE d >= 2
        BY <1>1, <1>3, <2>1, <3>2, <4>2 DEF OpenBit, EarlyEdge
      <4> QED
        BY <1>1, <2>3, <4>1, <4>2
    <3> QED
      BY <3>1, <3>2 DEF EarlyEdge
  <2> QED
    BY <2>2, <2>3
<1>10. \A i \in Bits : l[i] = NoEdge => r[i] = 0 - (d + 1)
  BY <1>3, <1>4, <1>5
<1> QED
  BY <1>6, <1>7, <1>8, <1>9, <1>10

LEMMA LeftStep ==
    ASSUME WriteInv, LeftTap
    PROVE  WriteInv'
<1> USE DEF WriteInv, MaskPhase
<1>1. /\ TapMax \in Nat \ {0} /\ NoEdge = TapMax + 1 /\ start_dqs \in 0 .. TapMax
      /\ d \in 0 .. TapMax /\ pc = "left"
  BY Numbers DEF SweepBounds, LeftTap
<1>2. PICK good \in PassSets(eyes, start_dqs - d) :
          IF good = {} /\ sticky = Bits
          THEN EndLeft(left, right)
          ELSE LET l == LeftOfLeft(left, good, d)
                   r == RightOfLeft(left, right, good, d)
               IN  IF d = TapMax
                   THEN EndLeft(l, r)
                   ELSE /\ left' = l /\ right' = r
                        /\ sticky' = sticky \cup good
                        /\ d' = d + 1
                        /\ ApplyDqOut1(d)
                        /\ UNCHANGED pc
  BY DEF LeftTap
<1>3. UNCHANGED <<eyes, dm_eye, start_dqs, maskSearch, dqs, dm, result, error>>
  BY DEF LeftTap
<1>4. CASE good = {} /\ sticky = Bits
  <2>1. \A i \in Bits : SeenLeft(left, right, i)
    BY <1>1 DEF LeftEdges
  <2>2. ASSUME NEW i \in Bits, Sure(eyes[i], start_dqs)
        PROVE  left[i] \in Tap /\ right[i] = NoEdge /\ EarlyEdge(left, i)
    <3>1. OpenBit(i)
      BY <2>2 DEF OpenBits
    <3>2. d /= 0
      BY <1>1, <1>4, <3>1, BitsAssumption DEF OpenBit
    <3>3. d = 1 => ~Spare(eyes[i])
      BY <1>1, <1>4, Passes DEF Spare
    <3> QED
      BY <1>1, <3>1, <3>2, <3>3 DEF OpenBit, EarlyEdge
  <2>3. left \in Edges /\ right \in Edges
    BY DEF TypeOK
  <2> QED
    BY <1>1, <1>2, <1>3, <1>4, <2>1, <2>2, <2>3, EndLeftHolds
<1>5. CASE ~(good = {} /\ sticky = Bits)
  <2> DEFINE l == LeftOfLeft(left, good, d)
             r == RightOfLeft(left, right, good, d)
  <2>1. /\ l \in Edges /\ r \in Edges
        /\ \A i \in Bits : SeenLeft(l, r, i)
        /\ \A i \in Bits : l[i] = NoEdge => r[i] = 0 - (d + 1)
        /\ \A i \in Bits : Sure(eyes[i], start_dqs) =>
                               /\ l[i] \in Tap /\ r[i] = NoEdge
                               /\ d >= 1 => EarlyEdge(l, i)
    BY <1>1, LeftUpdate
  <2>2. CASE d = TapMax
    <3>1. EndLeft(l, r)
      BY <1>2, <1>5, <2>2
    <3>2. d >= 1
      BY <1>1, <2>2
    <3> HIDE DEF l, r
    <3> QED
      BY <1>1, <1>3, <2>1, <3>1, <3>2, EndLeftHolds
  <2>3. CASE d /= TapMax
    <3>1. /\ left' = l /\ right' = r /\ sticky' = sticky \cup good
          /\ d' = d + 1 /\ ApplyDqOut1(d) /\ pc' = "left"
      BY <1>1, <1>2, <1>5, <2>3
    <3> HIDE DEF l, r
    <3>2. d' \in 1 .. TapMax
      BY <1>1, <2>3, <3>1
    <3>3. TypeOK'
      <4>1. good \subseteq Bits
        BY DEF PassSets
      <4>2. dq' \in [Bits -> Tap]
        BY <1>1, <3>1 DEF ApplyDqOut1, Tap
      <4> QED
        BY <1>1, <1>3, <2>1, <3>1, <3>2, <4>1, <4>2 DEF TypeOK, maskSearch
    <3>4. SweepBounds' /\ NoRuns'
      BY <1>1, <1>3, <3>1, <3>2 DEF SweepBounds, NoRuns, maskSearch
    <3>5. LeftEdges'
      <4> SUFFICES ASSUME NEW i \in Bits
                   PROVE  /\ left'[i] = NoEdge => right'[i] = 0 - d'
                          /\ SeenLeft(left, right, i)'
        BY <3>1, <3>2 DEF LeftEdges
      <4>1. left'[i] = l[i] /\ right'[i] = r[i] /\ d' = d + 1
        BY <3>1
      <4>2. SeenLeft(left, right, i)'
        BY <1>3, <2>1, <4>1 DEF SeenLeft
      <4> QED
        BY <2>1, <4>1, <4>2
    <3>6. RightEdges' /\ BothEdges' /\ Aligned' /\ Runs' /\ AllRuns'
          /\ OpenRun' /\ StrobeIsBack'
      BY <3>1 DEF RightEdges, BothEdges, Aligned, Runs, AllRuns, OpenRun,
                  StrobeIsBack
    <3>7. OpenBits'
      <4> SUFFICES ASSUME NEW i \in Bits, Sure(eyes[i], start_dqs)
                   PROVE  /\ left'[i] \in Tap /\ right'[i] = NoEdge
                          /\ d' >= 2 => EarlyEdge(left, i)'
        BY <1>3, <3>1, <3>2 DEF OpenBits, OpenBit
      <4>1. left'[i] = l[i] /\ right'[i] = r[i] /\ d' = d + 1
        BY <3>1
      <4> QED
        BY <1>1, <1>3, <2>1, <4>1 DEF EarlyEdge, Spare
    <3> QED
      BY <3>3, <3>4, <3>5, <3>6, <3>7
  <2> QED
    BY <2>2, <2>3
<1> QED
  BY <1>4, <1>5

-----------------------------------------------------------------------------
(* One tap of the right sweep. *)
LEMMA RightUpdate ==
    ASSUME WriteInv, pc = "right", NEW good \in PassSets(eyes, start_dqs + d),
           NEW l, l = LeftOfRight(left, right, good, d),
           NEW r, r = RightOfRight(left, right, good, d)
    PROVE  /\ l \in Edges /\ r \in Edges
           /\ \A i \in Bits :
                 /\ l[i] /= NoEdge \/ r[i] /= NoEdge
                 /\ l[i] /= NoEdge /\ r[i] /= NoEdge =>
                       /\ eyes[i].lo - 1 <= start_dqs - l[i]
                       /\ start_dqs + r[i] <= eyes[i].hi + 1
                 /\ l[i] /= NoEdge /\ r[i] = NoEdge => l[i] = 0 - (d + 1)
           /\ \A i \in Bits : Sure(eyes[i], start_dqs) =>
                 /\ l[i] \in Tap /\ EarlyEdge(l, i)
                 /\ r[i] \in 0 .. TapMax - start_dqs
<1> USE DEF WriteInv
<1>1. /\ TapMax \in Nat \ {0} /\ NoEdge = TapMax + 1 /\ start_dqs \in 0 .. TapMax
      /\ d \in 0 .. TapMax - start_dqs
      /\ \A i \in Bits : eyes[i].lo \in Int /\ eyes[i].hi \in Int
  BY Numbers DEF SweepBounds
<1>2. \A i \in Bits : left[i] \in Edge /\ right[i] \in Edge
  BY DEF TypeOK, Edges
<1>3. -(d + 1) = 0 - (d + 1) /\ -1 = 0 - 1
  BY <1>1
<1>4. \A i \in Bits :
          l[i] = IF /\ i \notin good /\ right[i] = NoEdge
                    /\ ~LosesAtStart(left, right, i, d)
                 THEN 0 - (d + 1) ELSE left[i]
  BY <1>3 DEF LeftOfRight
<1>5. \A i \in Bits :
          r[i] = IF i \in good THEN d
                 ELSE IF LosesAtStart(left, right, i, d) THEN 0 - 1
                 ELSE right[i]
  BY <1>3 DEF RightOfRight
<1>6. d \in Edge /\ 0 - (d + 1) \in Edge /\ 0 - 1 \in Edge /\ d /= NoEdge
      /\ 0 - 1 /= NoEdge /\ 0 - (d + 1) /= NoEdge
  BY <1>1 DEF Edge
<1>7. l \in Edges /\ r \in Edges
  BY <1>2, <1>3, <1>6 DEF LeftOfRight, RightOfRight, Edges
<1>8. ASSUME NEW i \in Bits
      PROVE  /\ l[i] /= NoEdge \/ r[i] /= NoEdge
             /\ l[i] /= NoEdge /\ r[i] /= NoEdge =>
                   /\ eyes[i].lo - 1 <= start_dqs - l[i]
                   /\ start_dqs + r[i] <= eyes[i].hi + 1
             /\ l[i] /= NoEdge /\ r[i] = NoEdge => l[i] = 0 - (d + 1)
  <2>1. /\ left[i] = NoEdge /\ right[i] = NoEdge => d = 0
        /\ left[i] /= NoEdge /\ right[i] /= NoEdge =>
              /\ eyes[i].lo - 1 <= start_dqs - left[i]
              /\ start_dqs + right[i] <= eyes[i].hi + 1
        /\ left[i] /= NoEdge /\ right[i] = NoEdge =>
              IF d = 0 THEN /\ eyes[i].lo - 1 <= start_dqs - left[i]
                            /\ start_dqs <= eyes[i].hi + 1
              ELSE left[i] = 0 - d
    BY DEF RightEdges, Inside
  <2>2. left[i] \in Int /\ right[i] \in Int
    BY <1>1, <1>2 DEF Edge
  <2>3. CASE i \in good
    <3>1. /\ eyes[i].lo - 1 <= start_dqs + d
          /\ start_dqs + d <= eyes[i].hi + 1
      BY <2>3, Passes DEF Possible
    <3>2. l[i] = left[i] /\ r[i] = d
      BY <1>4, <1>5, <2>3
    <3> QED
      BY <1>1, <1>6, <2>1, <2>2, <3>1, <3>2
  <2>4. CASE i \notin good /\ LosesAtStart(left, right, i, d)
    <3>1. l[i] = left[i] /\ r[i] = 0 - 1 /\ left[i] /= NoEdge
          /\ right[i] = NoEdge /\ d = 0
      BY <1>4, <1>5, <2>4 DEF LosesAtStart
    <3> QED
      BY <1>1, <1>6, <2>1, <2>2, <3>1
  <2>5. CASE i \notin good /\ ~LosesAtStart(left, right, i, d)
    <3>1. r[i] = right[i]
          /\ l[i] = IF right[i] = NoEdge THEN 0 - (d + 1) ELSE left[i]
      BY <1>4, <1>5, <2>5
    <3> QED
      BY <1>1, <1>6, <2>1, <2>2, <3>1
  <2> QED
    BY <2>3, <2>4, <2>5
<1>9. ASSUME NEW i \in Bits, Sure(eyes[i], start_dqs)
      PROVE  /\ l[i] \in Tap /\ EarlyEdge(l, i)
             /\ r[i] \in 0 .. TapMax - start_dqs
  <2>1. /\ left[i] \in Tap /\ EarlyEdge(left, i)
        /\ IF d = 0 THEN right[i] = NoEdge
           ELSE right[i] \in 0 .. TapMax - start_dqs
    BY <1>9 DEF OpenBits, OpenBit
  <2>2. CASE i \in good
    BY <1>1, <1>4, <1>5, <2>1, <2>2 DEF EarlyEdge
  <2>3. CASE i \notin good
    <3>1. d /= 0
      BY <1>1, <1>9, <2>3, Passes
    <3>2. right[i] /= NoEdge
      BY <1>1, <2>1, <3>1
    <3> QED
      BY <1>4, <1>5, <2>1, <2>3, <3>1, <3>2 DEF LosesAtStart, EarlyEdge
  <2> QED
    BY <2>2, <2>3
<1> QED
  BY <1>7, <1>8, <1>9

LEMMA RightStep ==
    ASSUME WriteInv, RightTap
    PROVE  WriteInv'
<1> USE DEF WriteInv, MaskPhase
<1>1. /\ TapMax \in Nat \ {0} /\ NoEdge = TapMax + 1 /\ start_dqs \in 0 .. TapMax
      /\ d \in 0 .. TapMax - start_dqs /\ pc = "right"
  BY Numbers DEF SweepBounds, RightTap
<1>2. PICK good \in PassSets(eyes, start_dqs + d) :
          /\ dqs' = start_dqs + d
          /\ sticky' = sticky \cup good
          /\ IF good = {} /\ sticky = Bits
             THEN RightStop
             ELSE /\ left' = LeftOfRight(left, right, good, d)
                  /\ right' = RightOfRight(left, right, good, d)
                  /\ d' = d + 1
                  /\ pc' = IF d = TapMax - start_dqs THEN "align" ELSE pc
  BY DEF RightTap
<1>3. UNCHANGED <<eyes, dm_eye, start_dqs, maskSearch, dq, dm, result, error>>
  BY DEF RightTap
<1>4. good \subseteq Bits /\ dqs' \in Tap /\ sticky' \subseteq Bits
  BY <1>1, <1>2 DEF PassSets, TypeOK, Tap
<1>5. pc' \in {"right", "align"}
  BY <1>1, <1>2 DEF RightStop
<1>6. LeftEdges' /\ NoRuns' /\ Aligned' /\ Runs' /\ AllRuns' /\ OpenRun'
      /\ StrobeIsBack'
  BY <1>1, <1>3, <1>5 DEF LeftEdges, NoRuns, Aligned, Runs, AllRuns, OpenRun,
     StrobeIsBack, maskSearch
<1>7. CASE good = {} /\ sticky = Bits
  <2>1. pc' = "align" /\ UNCHANGED <<left, d>>
        /\ right' = [i \in Bits |-> IF LosesAtStart(left, right, i, d) THEN -1
                                     ELSE right[i]]
    BY <1>2, <1>7 DEF RightStop
  <2>2. right' \in Edges
    <3>1. -1 \in Edge
      BY <1>1 DEF Edge
    <3> QED
      BY <2>1, <3>1 DEF TypeOK, Edges
  <2>3. TypeOK' /\ SweepBounds'
    BY <1>1, <1>3, <1>4, <2>1, <2>2 DEF TypeOK, SweepBounds, maskSearch
  <2>4. BothEdges'
    <3> SUFFICES ASSUME NEW i \in Bits, left[i] /= NoEdge, right'[i] /= NoEdge
                 PROVE  /\ eyes[i].lo - 1 <= start_dqs - left[i]
                        /\ start_dqs + right'[i] <= eyes[i].hi + 1
      BY <1>3, <2>1 DEF BothEdges, Inside
    <3>1. eyes[i].hi \in Int
      BY Numbers
    <3>2. CASE LosesAtStart(left, right, i, d)
      <4>1. d = 0 /\ right[i] = NoEdge /\ right'[i] = -1
        BY <2>1, <3>2 DEF LosesAtStart
      <4>2. /\ eyes[i].lo - 1 <= start_dqs - left[i]
            /\ start_dqs <= eyes[i].hi + 1
        BY <1>1, <4>1 DEF RightEdges
      <4> QED
        BY <1>1, <3>1, <4>1, <4>2
    <3>3. CASE ~LosesAtStart(left, right, i, d)
      BY <1>1, <2>1, <3>3 DEF RightEdges, Inside
    <3> QED
      BY <3>2, <3>3
  <2>5. OpenBits'
    <3> SUFFICES ASSUME NEW i \in Bits, Sure(eyes[i], start_dqs)
                 PROVE  /\ left[i] \in Tap /\ EarlyEdge(left, i)
                        /\ right'[i] \in 0 .. TapMax - start_dqs
      BY <1>3, <2>1 DEF OpenBits, OpenBit, EarlyEdge, Spare
    <3>1. d /= 0
      BY <1>1, <1>7, Passes
    <3>2. right'[i] = right[i]
      BY <2>1, <3>1 DEF LosesAtStart
    <3> QED
      BY <1>1, <3>1, <3>2 DEF OpenBits, OpenBit
  <2> QED
    BY <1>6, <2>1, <2>3, <2>4, <2>5 DEF RightEdges
<1>8. CASE ~(good = {} /\ sticky = Bits)
  <2> DEFINE l == LeftOfRight(left, right, good, d)
             r == RightOfRight(left, right, good, d)
  <2>1. /\ l \in Edges /\ r \in Edges
        /\ \A i \in Bits :
              /\ l[i] /= NoEdge \/ r[i] /= NoEdge
              /\ l[i] /= NoEdge /\ r[i] /= NoEdge =>
                    /\ eyes[i].lo - 1 <= start_dqs - l[i]
                    /\ start_dqs + r[i] <= eyes[i].hi + 1
              /\ l[i] /= NoEdge /\ r[i] = NoEdge => l[i] = 0 - (d + 1)
        /\ \A i \in Bits : Sure(eyes[i], start_dqs) =>
              /\ l[i] \in Tap /\ EarlyEdge(l, i)
              /\ r[i] \in 0 .. TapMax - start_dqs
    BY <1>1, RightUpdate
  <2>2. /\ left' = l /\ right' = r /\ d' = d + 1
        /\ pc' = IF d = TapMax - start_dqs THEN "align" ELSE pc
    BY <1>2, <1>8
  <2> HIDE DEF l, r
  <2>3. d' \in 1 .. TapMax + 1
        /\ (pc' = "right" => d' \in 1 .. TapMax - start_dqs)
    BY <1>1, <2>2
  <2>4. TypeOK'
    BY <1>1, <1>3, <1>4, <1>5, <2>1, <2>2, <2>3 DEF TypeOK, maskSearch
  <2>5. SweepBounds'
    BY <1>1, <1>3, <1>5, <2>3 DEF SweepBounds
  <2>6. RightEdges'
    BY <1>3, <2>1, <2>2, <2>3 DEF RightEdges, Inside
  <2>7. BothEdges'
    BY <1>3, <1>5, <2>1, <2>2 DEF BothEdges, Inside
  <2>8. OpenBits'
    BY <1>3, <1>5, <2>1, <2>2, <2>3 DEF OpenBits, OpenBit, EarlyEdge, Spare
  <2> QED
    BY <1>6, <2>4, <2>5, <2>6, <2>7, <2>8
<1> QED
  BY <1>7, <1>8

-----------------------------------------------------------------------------
(* A bit without an edge: the first one is blamed. *)
LEMMA FirstBlind ==
    ASSUME Blind(left, right) /= {}, FailAlign
    PROVE  error' \in Blind(left, right)
<1> DEFINE B == Blind(left, right)
<1>1. B \in SUBSET Int /\ \A n \in B : 0 <= n
  BY BitsAssumption DEF Blind
<1>2. B /= {} /\ 0 \in Int
  OBVIOUS
<1>3. \E m \in B : \A n \in B : m <= n
  <2> HIDE DEF B
  <2> QED
    BY <1>1, <1>2, LeastOf
<1> QED
  BY <1>3 DEF FailAlign

LEMMA FailStep ==
    ASSUME WriteInv, FailAlign
    PROVE  /\ WriteInv'
           /\ error' \in Bits /\ ~Sure(eyes[error'], start_dqs)
<1> USE DEF WriteInv, MaskPhase
<1>1. pc = "align" /\ result' = "bad" /\ pc' = "done"
      /\ UNCHANGED <<eyes, dm_eye, start_dqs, d, bitSearch, maskSearch, dq, dqs, dm>>
  BY DEF FailAlign
<1>2. error' \in Bits /\ (left[error'] = NoEdge \/ right[error'] = NoEdge)
  BY FirstBlind DEF FailAlign, Blind
<1>3. ~Sure(eyes[error'], start_dqs)
  <2>1. NoEdge \notin Tap /\ NoEdge \notin 0 .. TapMax - start_dqs
    BY Numbers DEF Tap
  <2> QED
    BY <1>1, <1>2, <2>1 DEF OpenBits, OpenBit
<1>4. TypeOK'
  BY <1>1, <1>2 DEF TypeOK, bitSearch, maskSearch
<1>5. error' /= NoBit
  BY <1>2, EyeAssumption
<1> QED
  BY <1>1, <1>2, <1>3, <1>4, <1>5 DEF SweepBounds, NoRuns, LeftEdges, RightEdges,
     BothEdges, OpenBits, OpenBit, Aligned, Runs, AllRuns, OpenRun, StrobeIsBack

(* The bits are put into the middle; no position of the mask was tested. *)
LEMMA AlignStep ==
    ASSUME WriteInv, AlignBits
    PROVE  WriteInv'
<1> USE DEF WriteInv, MaskPhase
<1>1. pc = "align" /\ pc' = "mask" /\ d' = TapMax /\ dqs' = start_dqs
      /\ dq' = [i \in Bits |-> ShiftDq(left, right, 0, i)]
      /\ Blind(left, right) = {}
      /\ UNCHANGED <<eyes, dm_eye, start_dqs, bitSearch, maskSearch, dm, result,
                     error>>
  BY DEF AlignBits
<1>2. TapMax \in Nat \ {0} /\ NoEdge = TapMax + 1 /\ start_dqs \in 0 .. TapMax
  BY Numbers
<1>3. dq' \in [Bits -> Tap]
  <2>1. ASSUME NEW i \in Bits PROVE ShiftDq(left, right, 0, i) \in Tap
    <3>1. left \in Edges /\ right \in Edges
      BY DEF TypeOK
    <3>2. Centre(left, right, i) - 0 \in Int
      BY <2>1, <3>1, CentreIsMiddle
    <3> QED
      BY <3>2, ClampIsTap DEF ShiftDq, Centre
  <2> QED
    BY <1>1, <2>1
<1>4. TypeOK' /\ SweepBounds'
  BY <1>1, <1>2, <1>3 DEF TypeOK, SweepBounds, bitSearch, maskSearch, Tap
<1>5. BothEdges' /\ OpenBits' /\ Aligned'
  BY <1>1 DEF BothEdges, Inside, OpenBits, OpenBit, EarlyEdge, Spare, Aligned,
     bitSearch
<1>6. Runs'
  <2>1. Covered' = 0 - TapMax - 1
    BY <1>1 DEF Covered
  <2>2. \A c \in Int : c < -TapMax => -TapMax .. c = {}
    BY <1>2
  <2>3. -TapMax .. Covered' = {}
    BY <1>2, <2>1, <2>2
  <2>4. /\ bgn_curr' = NoEdge
        /\ win' = [bgn |-> NoEdge, end |-> NoEdge, length |-> 0]
    BY <1>1 DEF NoRuns, maskSearch
  <2>5. (WindowUpTo(Covered) /\ RunUpTo(Covered))'
    BY <2>3, <2>4 DEF WindowUpTo, RunUpTo
  <2> QED
    BY <2>5 DEF Runs
<1> QED
  BY <1>1, <1>4, <1>5, <1>6 DEF NoRuns, LeftEdges, RightEdges, AllRuns, OpenRun,
     StrobeIsBack

-----------------------------------------------------------------------------
(* A test of the mask at position p tells what can be written there. *)
LEMMA MaskPasses ==
    ASSUME WriteInv, pc \in {"mask", "strobe"},
           NEW p \in Int, NEW mask \in Int, NEW strobe \in Int,
           strobe - mask = start_dqs + p,
           strobe = IF p > 0 THEN start_dqs + p ELSE start_dqs,
           NEW ok \in MaskTest(mask, strobe)
    PROVE  ok \in BOOLEAN /\ (ok => Maybe(p)) /\ (~ok => ~Surely(p))
  BY DEF MaskTest, Maybe, Surely, Writable

(* What can be written depends only on what the mask's sweeps leave alone. *)
LEMMA SamePositions ==
    ASSUME UNCHANGED <<eyes, dm_eye, start_dqs, dq>>
    PROVE  \A p : (Maybe(p)' <=> Maybe(p)) /\ (Surely(p)' <=> Surely(p))
  BY DEF Maybe, Surely, Writable

(* A position that passed: it continues the run or begins one. *)
LEMMA RunGrowsHolds ==
    ASSUME TypeOK, UNCHANGED <<eyes, dm_eye, start_dqs, dq>>,
           NEW c \in Int, NEW p \in Int, p = c \/ p = c + 1,
           -TapMax <= p, p <= TapMax - start_dqs,
           WindowUpTo(c), RunUpTo(c), RunGrows(p), Maybe(p)
    PROVE  /\ WindowUpTo(p)' /\ RunUpTo(p)'
           /\ bgn_curr' \in Edge /\ end_curr' \in Edge
           /\ win' \in [bgn : Edge, end : Edge, length : 0 .. 2 * TapMax + 1]
           /\ win'.length > 0
<1>1. TapMax \in Nat \ {0} /\ NoEdge = TapMax + 1 /\ start_dqs \in 0 .. TapMax
  BY Numbers
<1> DEFINE bgn == IF bgn_curr = NoEdge THEN p ELSE bgn_curr
<1>2. /\ bgn_curr' = bgn /\ end_curr' = p
      /\ win' = IF p - bgn + 1 > win.length
                THEN [bgn |-> bgn, end |-> p, length |-> p - bgn + 1]
                ELSE win
  BY DEF RunGrows
<1>3. win \in [bgn : Edge, end : Edge, length : 0 .. 2 * TapMax + 1]
  BY DEF TypeOK
<1>4. bgn \in -TapMax .. p
  <2>1. bgn_curr /= NoEdge => bgn_curr \in -TapMax .. c
    BY DEF RunUpTo
  <2>2. CASE bgn_curr = NoEdge
    BY <1>1, <2>2
  <2>3. CASE bgn_curr /= NoEdge
    BY <1>1, <2>1, <2>3
  <2> QED
    BY <2>2, <2>3
<1>5. \A r \in bgn .. p : Maybe(r)
  <2>1. CASE bgn_curr = NoEdge
    BY <2>1
  <2>2. CASE bgn_curr /= NoEdge
    <3>1. bgn_curr \in -TapMax .. c /\ \A r \in bgn_curr .. c : Maybe(r)
      BY <2>2 DEF RunUpTo
    <3>2. \A r \in bgn_curr .. p : r \in bgn_curr .. c \/ r = p
      BY <1>1, <3>1
    <3> QED
      BY <2>2, <3>1, <3>2
  <2> QED
    BY <2>1, <2>2
<1>6. \A r \in -TapMax .. p :
         (\A t \in r .. p : Surely(t)) => bgn <= r
  <2> SUFFICES ASSUME NEW r \in -TapMax .. p, \A t \in r .. p : Surely(t)
               PROVE  bgn <= r
    OBVIOUS
  <2>1. CASE r <= c
    <3>1. r \in -TapMax .. c /\ \A t \in r .. c : Surely(t)
      BY <1>1, <2>1
    <3> QED
      BY <3>1 DEF RunUpTo
  <2>2. CASE ~(r <= c)
    <3>1. r = p
      BY <1>1, <2>2
    <3> QED
      BY <1>4, <3>1
  <2> QED
    BY <2>1, <2>2
<1> HIDE DEF bgn
<1>7. /\ p - bgn < win'.length /\ win.length <= win'.length /\ win'.length > 0
      /\ win'.length \in Int /\ win.length \in Int
  BY <1>1, <1>2, <1>3, <1>4
<1>8. bgn /= NoEdge
  BY <1>1, <1>4
<1>9. RunUpTo(p)'
  BY <1>1, <1>2, <1>4, <1>5, <1>6, <1>7, <1>8, SamePositions DEF RunUpTo
<1>10. IF win'.length = 0 THEN win'.bgn = NoEdge /\ win'.end = NoEdge
       ELSE /\ win'.bgn \in -TapMax .. p /\ win'.end \in win'.bgn .. p
            /\ win'.length = win'.end - win'.bgn + 1
            /\ \A r \in win'.bgn .. win'.end : Maybe(r)
  <2>1. CASE p - bgn + 1 > win.length
    <3>1. win' = [bgn |-> bgn, end |-> p, length |-> p - bgn + 1]
      BY <1>2, <2>1
    <3>2. win'.bgn = bgn /\ win'.end = p /\ win'.length = p - bgn + 1
      BY <3>1
    <3> QED
      BY <1>1, <1>4, <1>5, <3>2
  <2>2. CASE ~(p - bgn + 1 > win.length)
    <3>1. win' = win /\ win.length /= 0
      BY <1>2, <1>7, <2>2
    <3>2. /\ win.bgn \in -TapMax .. c /\ win.end \in win.bgn .. c
          /\ win.length = win.end - win.bgn + 1
          /\ \A r \in win.bgn .. win.end : Maybe(r)
      BY <3>1 DEF WindowUpTo
    <3> QED
      BY <1>1, <3>1, <3>2
  <2> QED
    BY <2>1, <2>2
<1>11. \A r, q \in -TapMax .. p :
          (\A t \in r .. q : Surely(t)) => q - r < win'.length
  <2> SUFFICES ASSUME NEW r \in -TapMax .. p, NEW q \in -TapMax .. p,
                      \A t \in r .. q : Surely(t)
               PROVE  q - r < win'.length
    OBVIOUS
  <2>1. CASE q <= c /\ r <= c
    <3>1. q - r < win.length
      BY <1>1, <2>1 DEF WindowUpTo
    <3> QED
      BY <1>1, <1>3, <1>7, <3>1
  <2>2. CASE ~(q <= c /\ r <= c) /\ r <= q
    <3>1. q = p
      BY <1>1, <2>2
    <3>2. bgn <= r
      BY <1>6, <3>1
    <3> QED
      BY <1>1, <1>3, <1>4, <1>7, <3>1, <3>2
  <2>3. CASE ~(r <= q)
    BY <1>1, <1>3, <1>7, <2>3
  <2> QED
    BY <2>1, <2>2, <2>3
<1>12. WindowUpTo(p)'
  BY <1>1, <1>10, <1>11, SamePositions DEF WindowUpTo
<1>13. bgn \in Edge /\ p \in Edge /\ p - bgn + 1 \in 0 .. 2 * TapMax + 1
  BY <1>1, <1>4 DEF Edge
<1>14. /\ bgn_curr' \in Edge /\ end_curr' \in Edge
       /\ win' \in [bgn : Edge, end : Edge, length : 0 .. 2 * TapMax + 1]
  BY <1>2, <1>3, <1>13
<1> QED
  BY <1>7, <1>9, <1>12, <1>14

(* A position that failed ends the run. *)
LEMMA RunBreaksHolds ==
    ASSUME TypeOK, UNCHANGED <<eyes, dm_eye, start_dqs, dq>>,
           NEW c \in Int, NEW p \in Int, p = c \/ p = c + 1,
           -TapMax <= p, p <= TapMax - start_dqs,
           WindowUpTo(c), RunBreaks, ~Surely(p)
    PROVE  /\ WindowUpTo(p)' /\ RunUpTo(p)'
           /\ bgn_curr' \in Edge /\ end_curr' \in Edge
           /\ win' \in [bgn : Edge, end : Edge, length : 0 .. 2 * TapMax + 1]
<1>1. TapMax \in Nat \ {0} /\ NoEdge = TapMax + 1 /\ start_dqs \in 0 .. TapMax
  BY Numbers
<1>2. bgn_curr' = NoEdge /\ end_curr' = NoEdge /\ win' = win
  BY DEF RunBreaks
<1>3. win \in [bgn : Edge, end : Edge, length : 0 .. 2 * TapMax + 1]
  BY DEF TypeOK
<1>4. RunUpTo(p)'
  <2>1. \A r \in -TapMax .. p : p \in r .. p
    BY <1>1
  <2> QED
    BY <1>1, <1>2, <2>1, SamePositions DEF RunUpTo
<1>5. \A r, q \in -TapMax .. p :
          (\A t \in r .. q : Surely(t)) => q - r < win.length
  <2> SUFFICES ASSUME NEW r \in -TapMax .. p, NEW q \in -TapMax .. p,
                      \A t \in r .. q : Surely(t)
               PROVE  q - r < win.length
    OBVIOUS
  <2>1. CASE q <= c /\ r <= c
    BY <1>1, <2>1 DEF WindowUpTo
  <2>2. CASE ~(q <= c /\ r <= c) /\ r <= q
    <3>1. p \in r .. q
      BY <1>1, <2>2
    <3> QED
      BY <3>1
  <2>3. CASE ~(r <= q)
    BY <1>1, <1>3, <2>3
  <2> QED
    BY <2>1, <2>2, <2>3
<1>6. IF win.length = 0 THEN win.bgn = NoEdge /\ win.end = NoEdge
      ELSE /\ win.bgn \in -TapMax .. p /\ win.end \in win.bgn .. p
           /\ win.length = win.end - win.bgn + 1
           /\ \A r \in win.bgn .. win.end : Maybe(r)
  BY <1>1 DEF WindowUpTo
<1>7. WindowUpTo(p)'
  BY <1>1, <1>2, <1>5, <1>6, SamePositions DEF WindowUpTo
<1>8. NoEdge \in Edge
  BY <1>1 DEF Edge
<1> QED
  BY <1>2, <1>3, <1>4, <1>7, <1>8

-----------------------------------------------------------------------------
(* Where the middle of a bit that is open at the start can be. *)
LEMMA OpenMiddle ==
    ASSUME WriteInv, pc \in MaskPhase, NEW i \in Bits, Sure(eyes[i], start_dqs)
    PROVE  \E c \in Int :
              /\ left[i] - right[i] - 2 * c \in -1 .. 1
              /\ dq[i] = IF c < 0 THEN 0 ELSE c
              /\ left[i] \in 0 .. TapMax /\ right[i] \in 0 .. TapMax
              /\ dq[i] <= left[i]
<1>1. /\ TapMax \in Nat \ {0} /\ start_dqs \in 0 .. TapMax
      /\ left \in Edges /\ right \in Edges
  BY Numbers DEF WriteInv, TypeOK
<1>2. left[i] \in Tap /\ right[i] \in 0 .. TapMax - start_dqs
  BY DEF WriteInv, OpenBits, OpenBit
<1> DEFINE c == Centre(left, right, i)
<1>3. c \in Int /\ left[i] - right[i] - 2 * c \in -1 .. 1
  BY <1>1, CentreIsMiddle DEF Mid
<1>4. dq[i] = Clamp(c - 0)
  BY DEF WriteInv, Aligned, ShiftDq, Centre
<1> HIDE DEF c
<1>5. left[i] \in 0 .. TapMax /\ right[i] \in 0 .. TapMax
  BY <1>1, <1>2 DEF Tap
<1>6. c <= left[i]
  BY <1>1, <1>3, <1>5
<1>7. dq[i] = IF c < 0 THEN 0 ELSE c
  BY <1>1, <1>3, <1>4, <1>5, <1>6 DEF Clamp
<1>8. dq[i] <= left[i]
  BY <1>1, <1>3, <1>5, <1>6, <1>7
<1>9. c \in Int
  BY <1>3
<1> USE <1>9
<1> WITNESS c \in Int
<1> QED
  BY <1>3, <1>5, <1>7, <1>8

(* Rounding and clamping keep an open bit's margins on either side. *)
LEMMA OpenBitMargins ==
    ASSUME WriteInv, pc \in MaskPhase, \A i \in Bits : Sure(eyes[i], start_dqs)
    PROVE  MarginsHold(left, right, dq, 0)
<1> SUFFICES ASSUME NEW i \in Bits
             PROVE  left[i] - dq[i] - 0 >= 0 /\ right[i] + dq[i] + 0 >= 0
  BY DEF MarginsHold, DqMargin, DqsMargin
<1>1. PICK c \in Int : /\ dq[i] = IF c < 0 THEN 0 ELSE c
                       /\ left[i] \in 0 .. TapMax /\ right[i] \in 0 .. TapMax
                       /\ dq[i] <= left[i]
  BY OpenMiddle
<1> QED
  BY <1>1, TapAssumption

(* After the alignment an open group is still written at the start. *)
LEMMA OpenAtStart ==
    ASSUME WriteInv, pc \in MaskPhase, OpenGroup
    PROVE  Surely(0)
<1>1. start_dqs \in Int /\ start_dqs + 0 = start_dqs
  BY Numbers DEF WriteInv
<1> SUFFICES ASSUME NEW i \in Bits
             PROVE  Sure(eyes[i], start_dqs - dq[i])
  BY <1>1 DEF Surely, Writable, OpenGroup
<1>2. Sure(eyes[i], start_dqs - 1) /\ Sure(eyes[i], start_dqs)
  BY DEF OpenGroup, Spare
<1>3. PICK c \in Int : /\ left[i] - right[i] - 2 * c \in -1 .. 1
                       /\ dq[i] = IF c < 0 THEN 0 ELSE c
                       /\ left[i] \in 0 .. TapMax /\ right[i] \in 0 .. TapMax
                       /\ dq[i] <= left[i]
  BY <1>2, OpenMiddle
<1>4. left[i] >= 1
  BY <1>2 DEF WriteInv, OpenBits, OpenBit, EarlyEdge, Spare
<1>5. eyes[i].lo - 1 <= start_dqs - left[i]
  <2>1. Inside(i)
    BY DEF WriteInv, BothEdges, Aligned, Blind, MaskPhase
  <2> QED
    BY <2>1 DEF Inside
<1>6. eyes[i].lo \in Int /\ eyes[i].hi \in Int /\ TapMax \in Nat
  BY Numbers DEF WriteInv
<1>7. dq[i] \in {0, 1} \/ (dq[i] <= left[i] - 1 /\ dq[i] \in Nat)
  BY <1>3, <1>4, <1>6
<1>8. CASE dq[i] \in {0, 1}
  BY <1>1, <1>2, <1>8
<1>9. CASE dq[i] <= left[i] - 1 /\ dq[i] \in Nat
  BY <1>1, <1>2, <1>3, <1>5, <1>6, <1>9 DEF Sure
<1> QED
  BY <1>7, <1>8, <1>9

(* No run of an open group begins after the start: eyes have no gaps. *)
LEMMA NoLateBegin ==
    ASSUME WriteInv, NEW p \in Nat, p >= 1, Surely(0), Maybe(p)
    PROVE  Surely(p - 1)
<1>1. /\ start_dqs \in Int /\ dm_eye.lo \in Int /\ dm_eye.hi \in Int
      /\ \A i \in Bits : /\ eyes[i].lo \in Int /\ eyes[i].hi \in Int
                         /\ dq[i] \in Int
  BY Numbers DEF WriteInv, TypeOK, Tap
<1>2. CASE p = 1
  BY <1>2
<1>3. CASE p > 1
  <2>1. Sure(dm_eye, start_dqs + (p - 1))
    BY <1>1, <1>3 DEF Surely, Maybe, Writable, Sure, Possible
  <2>2. ASSUME NEW i \in Bits
        PROVE  Sure(eyes[i], (start_dqs + (p - 1)) - dq[i])
    <3>1. Sure(eyes[i], start_dqs - dq[i])
          /\ Possible(eyes[i], (start_dqs + p) - dq[i])
      BY <1>3 DEF Surely, Maybe, Writable
    <3> QED
      BY <1>1, <1>3, <3>1 DEF Sure, Possible
  <2> QED
    BY <1>3, <2>1, <2>2 DEF Surely, Writable
<1> QED
  BY <1>2, <1>3

-----------------------------------------------------------------------------
(* One tap of the mask's own sweep. *)
LEMMA MaskStep ==
    ASSUME WriteInv, MaskTap
    PROVE  WriteInv'
<1> USE DEF WriteInv, MaskPhase
<1>1. /\ TapMax \in Nat \ {0} /\ start_dqs \in 0 .. TapMax
      /\ d \in 0 .. TapMax /\ pc = "mask" /\ dqs = start_dqs
  BY Numbers DEF SweepBounds, MaskTap
<1>2. PICK ok \in MaskTest(d, dqs) :
          /\ IF ok THEN RunGrows(-d) ELSE RunBreaks
          /\ IF d = 0
             THEN pc' = "strobe" /\ UNCHANGED d /\ dm' = 0
             ELSE d' = d - 1 /\ dm' = d /\ UNCHANGED pc
  BY DEF MaskTap
<1>3. UNCHANGED <<eyes, dm_eye, start_dqs, bitSearch, dq, dqs, result, error>>
  BY DEF MaskTap
<1>4. PICK p \in Int : p = -d
  BY <1>1
<1>5. /\ p \in -TapMax .. 0 /\ start_dqs - d = start_dqs + p
      /\ d = 0 => p = 0
  BY <1>1, <1>4
<1>6. ok \in BOOLEAN /\ (ok => Maybe(p)) /\ (~ok => ~Surely(p))
  BY <1>1, <1>5, MaskPasses
<1>7. PICK c \in Int : c = 0 - d - 1
  BY <1>1
<1>8. WindowUpTo(c) /\ RunUpTo(c) /\ p = c + 1
  BY <1>1, <1>4, <1>7 DEF Runs, Covered
<1>9. /\ WindowUpTo(p)' /\ RunUpTo(p)'
      /\ bgn_curr' \in Edge /\ end_curr' \in Edge
      /\ win' \in [bgn : Edge, end : Edge, length : 0 .. 2 * TapMax + 1]
      /\ ok => win'.length > 0
  <2>0. -TapMax <= p /\ p <= TapMax - start_dqs
    BY <1>1, <1>5
  <2>1. CASE ok
    BY <1>2, <1>3, <1>4, <1>6, <1>8, <2>0, <2>1, RunGrowsHolds
  <2>2. CASE ~ok
    BY <1>2, <1>3, <1>6, <1>8, <2>0, <2>2, RunBreaksHolds
  <2> QED
    BY <2>1, <2>2
<1>10. /\ pc' \in {"mask", "strobe"} /\ d' \in 0 .. TapMax /\ dm' \in 0 .. TapMax
       /\ pc' = "strobe" => d' = 0 /\ d = 0
  BY <1>1, <1>2
<1>11. TypeOK'
  BY <1>1, <1>3, <1>9, <1>10 DEF TypeOK, bitSearch, Tap
<1>12. SweepBounds' /\ NoRuns' /\ LeftEdges' /\ RightEdges'
  BY <1>1, <1>3, <1>10 DEF SweepBounds, NoRuns, LeftEdges, RightEdges
<1>13. BothEdges' /\ OpenBits' /\ Aligned'
  BY <1>1, <1>3, <1>10 DEF BothEdges, Inside, OpenBits, OpenBit, EarlyEdge,
     Spare, Aligned, bitSearch
<1>14. Runs'
  <2>1. Covered' = p
    BY <1>1, <1>2, <1>4 DEF Covered
  <2> QED
    BY <1>9, <2>1 DEF Runs
<1>15. OpenRun'
  <2> SUFFICES ASSUME pc' = "strobe", OpenGroup
               PROVE  /\ win'.length > 0 /\ win'.bgn <= 0
                      /\ bgn_curr' /= NoEdge => bgn_curr' <= 0
    BY <1>3, <1>10 DEF OpenRun, OpenGroup, Spare
  <2>1. p = 0
    BY <1>5, <1>10
  <2>2. ok
    BY <1>1, <1>6, <2>1, OpenAtStart
  <2>3. win'.length > 0 /\ win'.length /= 0
    BY <1>9, <2>2
  <2>4. win'.bgn \in -TapMax .. 0
    BY <1>9, <2>1, <2>3 DEF WindowUpTo
  <2>5. bgn_curr' /= NoEdge => bgn_curr' \in -TapMax .. 0
    BY <1>9, <2>1 DEF RunUpTo
  <2> QED
    BY <1>1, <2>3, <2>4, <2>5
<1> QED
  BY <1>10, <1>11, <1>12, <1>13, <1>14, <1>15 DEF AllRuns, StrobeIsBack

(* One tap of the strobe, with all lanes. *)
LEMMA StrobeStep ==
    ASSUME WriteInv, StrobeTap
    PROVE  WriteInv'
<1> USE DEF WriteInv, MaskPhase
<1>1. /\ TapMax \in Nat \ {0} /\ NoEdge = TapMax + 1 /\ start_dqs \in 0 .. TapMax
      /\ d \in 0 .. TapMax - start_dqs /\ pc = "strobe"
  BY Numbers DEF SweepBounds, StrobeTap
<1>2. PICK ok \in MaskTest(0, start_dqs + d) :
          /\ IF ok THEN RunGrows(d) ELSE RunBreaks
          /\ IF \/ d = TapMax - start_dqs
                \/ ~ok /\ win.length - 1 > TapMax - start_dqs - d
             THEN pc' = "centre" /\ UNCHANGED d
             ELSE d' = d + 1 /\ UNCHANGED pc
  BY DEF StrobeTap
<1>3. UNCHANGED <<eyes, dm_eye, start_dqs, bitSearch, dq, dm, result, error>>
      /\ dqs' = start_dqs + d
  BY DEF StrobeTap
<1>4. PICK p \in Int : p = d
  BY <1>1
<1>5. p \in 0 .. TapMax - start_dqs
  BY <1>1, <1>4
<1>6. ok \in BOOLEAN /\ (ok => Maybe(p)) /\ (~ok => ~Surely(p))
  BY <1>1, <1>4, <1>5, MaskPasses
<1>7. PICK c \in Int : c = IF d = 0 THEN 0 ELSE d - 1
  BY <1>1
<1>8. WindowUpTo(c) /\ RunUpTo(c) /\ (p = c \/ p = c + 1)
  BY <1>1, <1>4, <1>7 DEF Runs, Covered
<1>9. /\ WindowUpTo(p)' /\ RunUpTo(p)'
      /\ bgn_curr' \in Edge /\ end_curr' \in Edge
      /\ win' \in [bgn : Edge, end : Edge, length : 0 .. 2 * TapMax + 1]
  <2>0. -TapMax <= p /\ p <= TapMax - start_dqs
    BY <1>1, <1>5
  <2>1. CASE ok
    BY <1>2, <1>3, <1>4, <1>6, <1>8, <2>0, <2>1, RunGrowsHolds
  <2>2. CASE ~ok
    BY <1>2, <1>3, <1>6, <1>8, <2>0, <2>2, RunBreaksHolds
  <2> QED
    BY <2>1, <2>2
<1>10. /\ pc' \in {"strobe", "centre"} /\ d' \in 0 .. TapMax
       /\ pc' = "strobe" => d' = d + 1 /\ d' \in 1 .. TapMax - start_dqs
  BY <1>1, <1>2
<1>11. TypeOK'
  BY <1>1, <1>3, <1>9, <1>10 DEF TypeOK, bitSearch, Tap
<1>12. SweepBounds' /\ NoRuns' /\ LeftEdges' /\ RightEdges'
  BY <1>1, <1>3, <1>10 DEF SweepBounds, NoRuns, LeftEdges, RightEdges
<1>13. BothEdges' /\ OpenBits' /\ Aligned'
  BY <1>1, <1>3, <1>10 DEF BothEdges, Inside, OpenBits, OpenBit, EarlyEdge,
     Spare, Aligned, bitSearch
<1>14. Runs'
  <2> SUFFICES ASSUME pc' = "strobe" PROVE (WindowUpTo(Covered) /\ RunUpTo(Covered))'
    BY <1>10 DEF Runs
  <2>1. Covered' = p
    BY <1>1, <1>4, <1>10 DEF Covered
  <2> QED
    BY <1>9, <2>1
<1>15. AllRuns'
  <2> SUFFICES ASSUME pc' = "centre" PROVE WindowUpTo(TapMax - start_dqs)'
    BY <1>10 DEF AllRuns
  <2>1. CASE d = TapMax - start_dqs
    <3>1. p = (TapMax - start_dqs)'
      BY <1>3, <1>4, <2>1
    <3> QED
      BY <1>9, <3>1
  <2>2. CASE ~ok /\ win.length - 1 > TapMax - start_dqs - d
    <3>1. win' = win /\ win.length \in Int
      BY <1>2, <2>2 DEF RunBreaks, TypeOK
    <3>2. IF win'.length = 0 THEN win'.bgn = NoEdge /\ win'.end = NoEdge
          ELSE /\ win'.bgn \in -TapMax .. TapMax - start_dqs
               /\ win'.end \in win'.bgn .. TapMax - start_dqs
               /\ win'.length = win'.end - win'.bgn + 1
               /\ \A q \in win'.bgn .. win'.end : Maybe(q)
      BY <1>1, <1>3, <1>5, <1>9, SamePositions DEF WindowUpTo
    <3>3. ASSUME NEW r \in -TapMax .. TapMax - start_dqs,
                 NEW q \in -TapMax .. TapMax - start_dqs,
                 \A t \in r .. q : Surely(t)
          PROVE  q - r < win'.length
      <4>1. CASE r <= p /\ q <= p
        <5>1. r \in -TapMax .. p /\ q \in -TapMax .. p
          BY <1>1, <1>5, <4>1
        <5>2. \A t \in r .. q : Surely(t)'
          BY <1>3, <3>3, SamePositions
        <5> QED
          BY <1>9, <5>1, <5>2 DEF WindowUpTo
      <4>2. CASE r <= p /\ q > p
        <5>1. p \in r .. q
          BY <1>1, <1>5, <4>2
        <5> QED
          BY <1>6, <2>2, <3>3, <5>1
      <4>3. CASE r > p
        BY <1>1, <1>4, <1>5, <2>2, <3>1, <4>3
      <4> QED
        BY <1>1, <1>5, <4>1, <4>2, <4>3
    <3> QED
      BY <1>3, <3>2, <3>3, SamePositions DEF WindowUpTo
  <2> QED
    BY <1>1, <1>2, <2>1, <2>2
<1>16. OpenRun'
  <2> SUFFICES ASSUME OpenGroup
               PROVE  /\ win'.length > 0 /\ win'.bgn <= 0
                      /\ bgn_curr' /= NoEdge => bgn_curr' <= 0
    BY <1>3 DEF OpenRun, OpenGroup, Spare
  <2>1. /\ win.length > 0 /\ win.bgn <= 0
        /\ bgn_curr /= NoEdge => bgn_curr <= 0
    BY <1>1 DEF OpenRun
  <2>2. CASE ~ok
    BY <1>2, <2>1, <2>2 DEF RunBreaks
  <2>3. CASE ok
    <3>1. bgn_curr /= NoEdge
      <4> SUFFICES ASSUME bgn_curr = NoEdge PROVE FALSE
        OBVIOUS
      <4>1. Surely(0) /\ c \in 0 .. TapMax
        BY <1>1, <1>7, OpenAtStart
      <4>2. ~Surely(c)
        <5>1. c \in -TapMax .. c /\ \A r \in c .. c : r = c
          BY <1>1, <4>1
        <5> QED
          BY <1>8, <5>1 DEF RunUpTo
      <4>3. p \in Nat /\ p >= 1 /\ c = p - 1
        BY <1>1, <1>4, <1>7, <4>1, <4>2
      <4> QED
        BY <1>6, <2>3, <4>1, <4>2, <4>3, NoLateBegin
    <3>2. /\ bgn_curr' = bgn_curr
          /\ win' = IF d - bgn_curr + 1 > win.length
                    THEN [bgn |-> bgn_curr, end |-> d,
                          length |-> d - bgn_curr + 1]
                    ELSE win
      BY <1>2, <2>3, <3>1 DEF RunGrows
    <3>3. bgn_curr \in Int /\ win.length \in Int
      BY <1>1 DEF TypeOK, Edge
    <3>4. CASE d - bgn_curr + 1 > win.length
      <4>1. win'.bgn = bgn_curr /\ win'.length = d - bgn_curr + 1
        BY <3>2, <3>4
      <4> QED
        BY <1>1, <2>1, <3>1, <3>2, <3>3, <3>4, <4>1
    <3>5. CASE ~(d - bgn_curr + 1 > win.length)
      BY <2>1, <3>1, <3>2, <3>5
    <3> QED
      BY <3>4, <3>5
  <2> QED
    BY <1>6, <2>2, <2>3
<1> QED
  BY <1>10, <1>11, <1>12, <1>13, <1>14, <1>15, <1>16 DEF StrobeIsBack

(* The mask is put into the middle of its run: inside it, if the margin to
   the run's begin is not negative.                                        *)
LEMMA MaskCentred ==
    ASSUME WriteInv, pc = "centre"
    PROVE  /\ mid \in Tap
           /\ dm_margin >= 0 => Possible(dm_eye, start_dqs - mid)
           /\ OpenGroup => dm_margin >= 0
<1>1. /\ TapMax \in Nat \ {0} /\ NoEdge = TapMax + 1 /\ start_dqs \in 0 .. TapMax
      /\ win.length \in Nat /\ win.bgn \in Int /\ win.end \in Int
  BY Numbers DEF WriteInv, TypeOK, Edge
<1>2. WindowUpTo(TapMax - start_dqs)
  BY DEF WriteInv, AllRuns
<1> DEFINE n == -win.bgn - win.end
<1>3. /\ n \in Int /\ n = (0 - win.bgn) - win.end
      /\ Half(n) \in Int
      /\ n >= 0 => Half(n) >= 0 /\ 2 * Half(n) \in {n, n - 1}
      /\ n <= 0 => Half(n) <= 0
  <2>1. n \in Int /\ n = (0 - win.bgn) - win.end
    BY <1>1
  <2> HIDE DEF n
  <2> QED
    BY <2>1, HalfRounds
<1>4. mid = IF Half(n) < 0 THEN 0 ELSE Half(n)
  BY DEF mid
<1> HIDE DEF n
<1>5. CASE win.length = 0
  <2>1. win.bgn = NoEdge /\ win.end = NoEdge
    BY <1>2, <1>5 DEF WindowUpTo
  <2>2. mid = 0
    BY <1>1, <1>3, <1>4, <2>1
  <2>3. dm_margin = -1
    BY <1>5 DEF dm_margin
  <2>4. ~OpenGroup
    BY <1>5 DEF WriteInv, OpenRun
  <2> QED
    BY <1>1, <2>2, <2>3, <2>4 DEF Tap
<1>6. CASE win.length /= 0
  <2>1. /\ win.bgn \in -TapMax .. TapMax - start_dqs
        /\ win.end \in win.bgn .. TapMax - start_dqs
        /\ \A p \in win.bgn .. win.end : Maybe(p)
    BY <1>2, <1>6 DEF WindowUpTo
  <2>2. mid \in 0 .. TapMax
    BY <1>1, <1>3, <1>4, <2>1
  <2>3. dm_margin = (0 - win.bgn) - mid
    BY <1>1, <1>6, <2>2 DEF dm_margin
  <2>4. ASSUME dm_margin >= 0 PROVE Possible(dm_eye, start_dqs - mid)
    <3>1. 0 - mid \in win.bgn .. win.end
      BY <1>1, <1>3, <1>4, <2>1, <2>2, <2>3, <2>4
    <3>2. Maybe(0 - mid)
      BY <2>1, <3>1
    <3>3. start_dqs + (0 - mid) = start_dqs - mid
      BY <1>1, <2>2
    <3> QED
      BY <3>2, <3>3 DEF Maybe, Writable
  <2>5. ASSUME OpenGroup PROVE dm_margin >= 0
    <3>1. win.bgn <= 0
      BY <2>5 DEF WriteInv, OpenRun
    <3> QED
      BY <1>1, <1>3, <1>4, <2>1, <2>2, <2>3, <3>1
  <2> QED
    BY <2>2, <2>4, <2>5 DEF Tap
<1> QED
  BY <1>5, <1>6

LEMMA CentreStep ==
    ASSUME WriteInv, CentreMask
    PROVE  /\ WriteInv'
           /\ result' \in {"ok", "bad"}
           /\ result' = "ok" => /\ \A i \in Bits : Possible(eyes[i], dqs' - dq'[i])
                                /\ Possible(dm_eye, dqs' - dm')
           /\ result' = "bad" => ~OpenGroup
<1> USE DEF WriteInv
<1>1. /\ pc = "centre" /\ pc' = "done" /\ dqs' = start_dqs /\ dm' = mid
      /\ UNCHANGED <<eyes, dm_eye, start_dqs, d, bitSearch, maskSearch, dq, error>>
      /\ result' = IF MarginsHold(left, right, dq, 0) /\ dm_margin >= 0
                   THEN "ok" ELSE "bad"
  BY DEF CentreMask
<1>2. /\ start_dqs \in 0 .. TapMax
      /\ \A i \in Bits : eyes[i].lo \in Int /\ eyes[i].hi \in Int
      /\ left \in Edges /\ right \in Edges /\ dq \in [Bits -> Tap]
  BY Numbers DEF TypeOK
<1>3. ASSUME result' = "ok", NEW i \in Bits
      PROVE  Possible(eyes[i], start_dqs - dq[i])
  <2>1. MarginsHold(left, right, dq, 0)
    BY <1>1, <1>3
  <2>2. /\ eyes[i].lo - 1 <= start_dqs - left[i]
        /\ start_dqs + right[i] <= eyes[i].hi + 1
    BY <1>1 DEF BothEdges, Aligned, Blind, Inside, MaskPhase
  <2>3. start_dqs - 0 = start_dqs
    BY <1>2
  <2>4. dq[i] \in Int
    BY <1>2, TapAssumption DEF Tap
  <2> QED
    BY <1>2, <2>1, <2>2, <2>3, <2>4, MarginsAreInside DEF Possible
<1>4. result' = "ok" => Possible(dm_eye, start_dqs - mid)
  BY <1>1, MaskCentred
<1>5. result' = "bad" => ~OpenGroup
  BY <1>1, MaskCentred, OpenBitMargins DEF OpenGroup, Spare, MaskPhase
<1>6. TypeOK'
  BY <1>1, MaskCentred DEF TypeOK, bitSearch, maskSearch
<1>7. AllRuns' /\ Runs'
  BY <1>1, SamePositions DEF AllRuns, Runs, WindowUpTo, maskSearch
<1>8. WriteInv'
  BY <1>1, <1>6, <1>7 DEF SweepBounds, NoRuns, LeftEdges, RightEdges, BothEdges,
     OpenBits, OpenBit, Aligned, OpenRun, StrobeIsBack, MaskPhase
<1> QED
  BY <1>1, <1>3, <1>4, <1>5, <1>8

-----------------------------------------------------------------------------
LEMMA WriteInitHolds == WriteInit => WriteInv
<1> SUFFICES ASSUME WriteInit PROVE WriteInv
  OBVIOUS
<1> USE DEF WriteInit
<1>1. TapMax \in Nat \ {0} /\ NoEdge \in Edge /\ 0 \in Tap
      /\ 0 \in 0 .. 2 * TapMax + 1
  BY TapAssumption DEF NoEdge, Edge, Tap
<1>2. TypeOK
  BY <1>1 DEF TypeOK, Edges, Tap
<1>3. SweepBounds /\ NoRuns /\ LeftEdges /\ RightEdges /\ BothEdges
  BY <1>1 DEF SweepBounds, NoRuns, LeftEdges, RightEdges, BothEdges, SeenLeft,
     MaskPhase
<1>4. OpenBits
  BY DEF OpenBits, OpenBit, MaskPhase
<1>5. Aligned /\ Runs /\ AllRuns /\ OpenRun /\ StrobeIsBack
  BY DEF Aligned, Runs, AllRuns, OpenRun, StrobeIsBack, MaskPhase
<1> QED
  BY <1>2, <1>3, <1>4, <1>5 DEF WriteInv

LEMMA StutterStep ==
    ASSUME WriteInv, UNCHANGED writeVars
    PROVE  WriteInv'
<1> USE DEF WriteInv, writeVars, bitSearch, maskSearch
<1>1. TypeOK' /\ SweepBounds' /\ NoRuns' /\ StrobeIsBack'
  BY DEF TypeOK, SweepBounds, NoRuns, StrobeIsBack
<1>2. LeftEdges' /\ RightEdges' /\ BothEdges' /\ OpenBits'
  BY DEF LeftEdges, SeenLeft, RightEdges, BothEdges, Inside, OpenBits, OpenBit,
     EarlyEdge, Spare
<1>3. Aligned' /\ OpenRun'
  BY DEF Aligned, OpenRun, OpenGroup, Spare
<1>4. Runs' /\ AllRuns'
  BY SamePositions DEF Runs, AllRuns, WindowUpTo, RunUpTo, Covered
<1> QED
  BY <1>1, <1>2, <1>3, <1>4

LEMMA WriteNextStep == WriteInv /\ [WriteNext]_writeVars => WriteInv'
  BY LeftStep, RightStep, FailStep, AlignStep, MaskStep, StrobeStep, CentreStep,
     StutterStep DEF WriteNext, Finished

(* What the edges and the runs of the mask found so far mean, in each sweep. *)
THEOREM WriteInvariant == WriteSpec => []WriteInv
  BY WriteInitHolds, WriteNextStep, PTL DEF WriteSpec

-----------------------------------------------------------------------------
(* Delays stay between 0 and TapMax, edges and runs within a tap of them. *)
THEOREM WriteTypes == WriteSpec => []TypeOK
<1>1. WriteInv => TypeOK
  BY DEF WriteInv
<1> QED
  BY <1>1, WriteInvariant, PTL

(* The run the mask is centred in can be written, and there is no longer one
   that surely can: neither the joint of the two sweeps nor the early end of
   the second loses a position.                                            *)
THEOREM LongestRun == WriteSpec => []RunIsLongest
<1>1. WriteInv => RunIsLongest
  <2> SUFFICES ASSUME WriteInv, pc = "done", error = NoBit
               PROVE  /\ win.length > 0 => \A p \in win.bgn .. win.end : Maybe(p)
                      /\ \A p, q \in -TapMax .. TapMax - start_dqs :
                            (\A r \in p .. q : Surely(r)) => q - p < win.length
    BY DEF RunIsLongest, Maybe, Surely
  <2>1. WindowUpTo(TapMax - start_dqs)
    BY DEF WriteInv, AllRuns
  <2> QED
    BY <2>1 DEF WindowUpTo
<1> QED
  BY <1>1, WriteInvariant, PTL

(* The strobe ends at its levelled delay unless a bit had no edges. *)
THEOREM StrobeBack == WriteSpec => []StrobeIsBack
<1>1. WriteInv => StrobeIsBack
  BY DEF WriteInv
<1> QED
  BY <1>1, WriteInvariant, PTL

(* The centring of writes keeps the promise of Centring. *)
THEOREM CentringImplemented == WriteSpec => ImplementsCentring
<1> DEFINE lanes == Bits \cup {Dm}
           opn == {i \in Bits : Spare(eyes[i])}
                  \cup {m \in {Dm} : Sure(dm_eye, start_dqs)}
           clr == {i \in Bits : Possible(eyes[i], dqs - dq[i])}
                  \cup {m \in {Dm} : Possible(dm_eye, dqs - dm)}
<1> USE DEF Service!centringVars
<1>1. WriteInit => Service!CentringInit
  BY DEF WriteInit, Service!CentringInit
<1>2. WriteInv /\ [WriteNext]_writeVars
        => [Service!CentringNext]_(Service!centringVars)
  <2> SUFFICES ASSUME WriteInv, [WriteNext]_writeVars
               PROVE  [Service!CentringNext]_(Service!centringVars)
    OBVIOUS
  <2>1. clr' \in SUBSET lanes /\ opn \in SUBSET lanes
    OBVIOUS
  <2>2. ASSUME UNCHANGED <<eyes, dm_eye, start_dqs>> PROVE opn' = opn
    BY <2>2 DEF Spare
  <2>3. OpenGroup <=> opn = lanes
    BY EyeAssumption DEF OpenGroup
  <2>4. CASE LeftTap \/ RightTap \/ AlignBits \/ MaskTap \/ StrobeTap
    <3>1. result = "none" /\ UNCHANGED <<eyes, dm_eye, start_dqs, result, error>>
      BY <2>4 DEF LeftTap, RightTap, AlignBits, MaskTap, StrobeTap, WriteInv,
         SweepBounds
    <3> QED
      BY <2>1, <2>2, <3>1 DEF Service!CentringNext, Service!Search
  <2>5. CASE FailAlign
    <3>1. result = "none" /\ UNCHANGED <<eyes, dm_eye, start_dqs>> /\ result' = "bad"
      BY <2>5 DEF FailAlign, WriteInv, SweepBounds
    <3>2. error' \in Bits /\ ~Spare(eyes[error'])
      BY <2>5, FailStep DEF Spare
    <3>3. opn /= lanes /\ error' \in lanes \ opn
      BY <3>2, EyeAssumption
    <3> QED
      BY <2>1, <2>2, <3>1, <3>3 DEF Service!CentringNext, Service!GiveUp
  <2>6. CASE CentreMask
    <3>1. result = "none" /\ UNCHANGED <<eyes, dm_eye, start_dqs, error>>
          /\ error = NoBit
      BY <2>6 DEF CentreMask, WriteInv, SweepBounds
    <3>2. CASE result' = "ok"
      <4>1. clr' = lanes
        BY <2>6, <3>1, <3>2, CentreStep
      <4> QED
        BY <2>2, <3>1, <3>2, <4>1 DEF Service!CentringNext, Service!Succeed
    <3>3. CASE result' = "bad"
      <4>1. opn /= lanes
        BY <2>3, <2>6, <3>3, CentreStep
      <4> QED
        BY <2>1, <2>2, <3>1, <3>3, <4>1 DEF Service!CentringNext, Service!GiveUp
    <3> QED
      BY <2>6, <3>2, <3>3, CentreStep
  <2>7. CASE UNCHANGED writeVars
    BY <2>2, <2>7 DEF writeVars, bitSearch, maskSearch
  <2> QED
    BY <2>4, <2>5, <2>6, <2>7 DEF WriteNext, Finished
<1> QED
  BY <1>1, <1>2, WriteInvariant, PTL
     DEF WriteSpec, ImplementsCentring, Service!CentringSpec
=============================================================================
