------------------------ MODULE ReadCenteringProofs ------------------------
(***************************************************************************)
(* The centring of reads, for any number of bits, any number of taps and   *)
(* any eyes: a success is readable, an open group is not given up, and     *)
(* ReadCentering implements Centring.  The invariant says, for each bit,   *)
(* what the edges found so far say of its eye.                             *)
(***************************************************************************)
EXTENDS ReadCentering, EdgeSearchProofs

(* Both edges are inside the eye, or a tap outside it where noise decides. *)
Inside(i) == /\ eyes[i].lo - 1 <= start_dqs - left[i]
             /\ start_dqs + right[i] <= eyes[i].hi + 1

(* What the left sweep has learnt of a bit that passed in it. *)
SeenLeft(l, r, i) ==
    l[i] /= NoEdge =>
        /\ l[i] \in Tap
        /\ eyes[i].lo - 1 <= start_dqs - l[i]
        /\ IF r[i] = NoEdge THEN start_dqs <= eyes[i].hi + 1
           ELSE start_dqs + r[i] <= eyes[i].hi + 1

LeftEdges ==
    pc = "left" => \A i \in Bits :
        /\ d = 0 => left[i] = NoEdge
        /\ left[i] = NoEdge => right[i] = IF d = 0 THEN NoEdge ELSE 0 - d
        /\ SeenLeft(left, right, i)

RightEdges ==
    pc = "right" => \A i \in Bits :
        /\ left[i] = NoEdge /\ right[i] = NoEdge => d = 0
        /\ left[i] /= NoEdge /\ right[i] /= NoEdge => Inside(i)
        /\ left[i] /= NoEdge /\ right[i] = NoEdge =>
              IF d = 0 THEN /\ eyes[i].lo - 1 <= start_dqs - left[i]
                            /\ start_dqs <= eyes[i].hi + 1
              ELSE left[i] = 0 - d

BothEdges ==
    pc = "centre" => \A i \in Bits :
        left[i] /= NoEdge /\ right[i] /= NoEdge => Inside(i)

(* A bit that is open at the start has its edges on either side of it. *)
OpenBit(i) ==
    /\ pc = "left" => IF d = 0 THEN sticky = {}
                      ELSE left[i] \in Tap /\ right[i] = NoEdge
    /\ pc = "right" => /\ left[i] \in Tap
                       /\ IF d = 0 THEN right[i] = NoEdge
                          ELSE right[i] \in 0 .. TapMax - start_dqs
    /\ pc = "centre" => left[i] \in Tap /\ right[i] \in 0 .. TapMax - start_dqs
OpenBits == \A i \in Bits : Sure(eyes[i], start_dqs) => OpenBit(i)

SweepBounds ==
    /\ pc = "left" => d \in 0 .. TapMax
    /\ pc = "right" => d \in 0 .. TapMax - start_dqs
    /\ pc /= "done" => result = "none" /\ error = NoBit

Outcome == /\ SuccessIsReadable /\ OpenEyesSucceed
           /\ StrobeCentred /\ BlameIsRestored

ReadInv == /\ TypeOK /\ SweepBounds /\ LeftEdges /\ RightEdges /\ BothEdges
           /\ OpenBits /\ Outcome

-----------------------------------------------------------------------------
LEMMA Numbers ==
    ASSUME TypeOK
    PROVE  /\ TapMax \in Nat \ {0} /\ NoEdge = TapMax + 1
           /\ start_dqs \in 0 .. TapMax
           /\ \A i \in Bits : eyes[i].lo \in Int /\ eyes[i].hi \in Int
  BY TapAssumption, EyeAssumption DEF TypeOK, NoEdge, Tap

(* While the search runs there is no outcome. *)
LEMMA NoOutcome ==
    ASSUME result = "none", error = NoBit, pc /= "done"
    PROVE  Outcome
  BY DEF Outcome, SuccessIsReadable, OpenEyesSucceed, StrobeCentred,
         BlameIsRestored

(* A bit that passed may be inside its eye, an open one passes. *)
LEMMA Passes ==
    ASSUME NEW skew, NEW good \in PassSets(eyes, skew), NEW i \in Bits
    PROVE  /\ good \subseteq Bits
           /\ i \in good => Possible(eyes[i], skew)
           /\ Sure(eyes[i], skew) => i \in good
  BY DEF PassSets

(* The end of the left sweep. *)
LEMMA EndLeftHolds ==
    ASSUME ReadInv, pc = "left", NEW l \in Edges, NEW r \in Edges,
           EndLeft(l, r), UNCHANGED <<eyes, start_dqs, dqs, result, error>>,
           \A i \in Bits : SeenLeft(l, r, i),
           \A i \in Bits : Sure(eyes[i], start_dqs) =>
                               l[i] \in Tap /\ r[i] = NoEdge
    PROVE  ReadInv'
<1> USE DEF ReadInv, EndLeft
<1>1. TapMax \in Nat /\ NoEdge = TapMax + 1 /\ start_dqs \in 0 .. TapMax
  BY Numbers
<1>2. \A i \in Bits : right'[i] = IF l[i] = NoEdge THEN NoEdge ELSE r[i]
  BY DEF RightReset
<1>3. TypeOK'
  <2>1. right' \in Edges
    BY <1>1 DEF RightReset, Edges, Edge
  <2>2. dq' \in [Bits -> Tap]
    BY <1>1 DEF ApplyDqIn, Tap
  <2>3. sticky' \subseteq Bits
    BY DEF StickyReset
  <2> QED
    BY <1>1, <2>1, <2>2, <2>3 DEF TypeOK
<1>4. SweepBounds'
  BY <1>1 DEF SweepBounds
<1>5. LeftEdges' /\ BothEdges'
  BY DEF LeftEdges, BothEdges
<1>6. RightEdges'
  BY <1>1, <1>2 DEF RightEdges, SeenLeft, Inside
<1>7. OpenBits'
  BY <1>1, <1>2 DEF OpenBits, OpenBit
<1>8. Outcome'
  BY NoOutcome DEF SweepBounds, Outcome, SuccessIsReadable, OpenEyesSucceed,
     StrobeCentred, BlameIsRestored
<1> QED
  BY <1>3, <1>4, <1>5, <1>6, <1>7, <1>8

(* One tap of the left sweep. *)
LEMMA LeftUpdate ==
    ASSUME ReadInv, pc = "left", NEW good \in PassSets(eyes, start_dqs - d),
           NEW l, l = LeftOfLeft(left, good, d),
           NEW r, r = RightOfLeft(left, right, good, d)
    PROVE  /\ l \in Edges /\ r \in Edges
           /\ \A i \in Bits : SeenLeft(l, r, i)
           /\ \A i \in Bits : l[i] = NoEdge => r[i] = 0 - (d + 1)
           /\ \A i \in Bits : Sure(eyes[i], start_dqs) =>
                                  l[i] \in Tap /\ r[i] = NoEdge
<1> USE DEF ReadInv
<1>1. /\ TapMax \in Nat \ {0} /\ NoEdge = TapMax + 1 /\ start_dqs \in 0 .. TapMax
      /\ d \in 0 .. TapMax
      /\ \A i \in Bits : eyes[i].lo \in Int /\ eyes[i].hi \in Int
  BY Numbers DEF SweepBounds
<1>2. \A i \in Bits : left[i] \in Edge /\ right[i] \in Edge
  BY DEF TypeOK, Edges
<1>3. \A i \in Bits : l[i] = IF i \in good THEN d ELSE left[i]
  BY DEF LeftOfLeft
<1>4. \A i \in Bits : r[i] = IF i \notin good /\ left[i] = NoEdge
                             THEN 0 - (d + 1) ELSE right[i]
  <2>1. -(d + 1) = 0 - (d + 1)
    BY <1>1
  <2> QED
    BY <2>1 DEF RightOfLeft
<1>5. d \in Edge /\ 0 - (d + 1) \in Edge /\ d \in Tap /\ d /= NoEdge
  BY <1>1 DEF Edge, Tap
<1>6. l \in Edges
  BY <1>2, <1>5 DEF LeftOfLeft, Edges
<1>7. r \in Edges
  <2>1. -(d + 1) = 0 - (d + 1)
    BY <1>1
  <2> QED
    BY <1>2, <1>5, <2>1 DEF RightOfLeft, Edges
<1>8. ASSUME NEW i \in Bits PROVE SeenLeft(l, r, i)
  <2> SUFFICES ASSUME l[i] /= NoEdge PROVE SeenLeft(l, r, i)
    BY DEF SeenLeft
  <2>1. /\ left[i] = NoEdge => right[i] = IF d = 0 THEN NoEdge ELSE 0 - d
        /\ SeenLeft(left, right, i)
    BY DEF LeftEdges
  <2>2. CASE i \in good
    <3>1. /\ eyes[i].lo - 1 <= start_dqs - d
          /\ start_dqs - d <= eyes[i].hi + 1
      BY <2>2, Passes DEF Possible
    <3>2. l[i] = d /\ r[i] = right[i]
      BY <1>3, <1>4, <2>2
    <3>3. CASE left[i] = NoEdge
      BY <1>1, <1>5, <2>1, <3>1, <3>2, <3>3 DEF SeenLeft
    <3>4. CASE left[i] /= NoEdge
      BY <1>5, <2>1, <3>1, <3>2, <3>4 DEF SeenLeft
    <3> QED
      BY <3>3, <3>4
  <2>3. CASE i \notin good
    BY <1>3, <1>4, <2>1, <2>3 DEF SeenLeft
  <2> QED
    BY <2>2, <2>3
<1>9. ASSUME NEW i \in Bits, Sure(eyes[i], start_dqs)
      PROVE  l[i] \in Tap /\ r[i] = NoEdge
  <2>1. OpenBit(i)
    BY <1>9 DEF OpenBits
  <2>2. CASE d = 0
    <3>1. i \in good
      BY <1>1, <1>9, <2>2, Passes
    <3>2. right[i] = NoEdge
      BY <2>2 DEF LeftEdges
    <3> QED
      BY <1>3, <1>4, <1>5, <3>1, <3>2
  <2>3. CASE d /= 0
    BY <1>1, <1>3, <1>4, <1>5, <2>1, <2>3 DEF OpenBit, Tap
  <2> QED
    BY <2>2, <2>3
<1>10. \A i \in Bits : l[i] = NoEdge => r[i] = 0 - (d + 1)
  BY <1>3, <1>4, <1>5
<1> QED
  BY <1>6, <1>7, <1>8, <1>9, <1>10

LEMMA LeftStep ==
    ASSUME ReadInv, LeftTap
    PROVE  ReadInv'
<1> USE DEF ReadInv
<1>1. /\ TapMax \in Nat \ {0} /\ NoEdge = TapMax + 1 /\ start_dqs \in 0 .. TapMax
      /\ d \in 0 .. TapMax /\ pc = "left"
  BY Numbers DEF SweepBounds, LeftTap
<1>2. PICK good \in PassSets(eyes, start_dqs - d) :
          IF good = {} /\ sticky = Bits
          THEN EndLeft(left, right)
          ELSE LET l == LeftOfLeft(left, good, d)
                   r == RightOfLeft(left, right, good, d)
               IN  IF d = TapMax
                   THEN EndLeft(l, r)
                   ELSE /\ left' = l /\ right' = r
                        /\ sticky' = sticky \cup good
                        /\ d' = d + 1
                        /\ ApplyDqIn(d)
                        /\ UNCHANGED pc
  BY DEF LeftTap
<1>3. UNCHANGED <<eyes, start_dqs, dqs, result, error>>
  BY DEF LeftTap
<1>4. CASE good = {} /\ sticky = Bits
  <2>1. \A i \in Bits : SeenLeft(left, right, i)
    BY <1>1 DEF LeftEdges
  <2>2. \A i \in Bits : Sure(eyes[i], start_dqs) =>
                            left[i] \in Tap /\ right[i] = NoEdge
    BY <1>1, <1>4, BitsAssumption DEF OpenBits, OpenBit
  <2>3. left \in Edges /\ right \in Edges
    BY DEF TypeOK
  <2> QED
    BY <1>1, <1>2, <1>3, <1>4, <2>1, <2>2, <2>3, EndLeftHolds
<1>5. CASE ~(good = {} /\ sticky = Bits)
  <2> DEFINE l == LeftOfLeft(left, good, d)
             r == RightOfLeft(left, right, good, d)
  <2>1. /\ l \in Edges /\ r \in Edges
        /\ \A i \in Bits : SeenLeft(l, r, i)
        /\ \A i \in Bits : l[i] = NoEdge => r[i] = 0 - (d + 1)
        /\ \A i \in Bits : Sure(eyes[i], start_dqs) =>
                               l[i] \in Tap /\ r[i] = NoEdge
    BY <1>1, LeftUpdate
  <2>2. CASE d = TapMax
    <3>1. EndLeft(l, r)
      BY <1>2, <1>5, <2>2
    <3> HIDE DEF l, r
    <3> QED
      BY <1>1, <1>3, <2>1, <3>1, EndLeftHolds
  <2>3. CASE d /= TapMax
    <3>1. /\ left' = l /\ right' = r /\ sticky' = sticky \cup good
          /\ d' = d + 1 /\ ApplyDqIn(d) /\ pc' = "left"
      BY <1>1, <1>2, <1>5, <2>3
    <3> HIDE DEF l, r
    <3>2. d' \in 1 .. TapMax
      BY <1>1, <2>3, <3>1
    <3>3. TypeOK'
      <4>1. good \subseteq Bits
        BY DEF PassSets
      <4>2. dq' \in [Bits -> Tap]
        BY <1>1, <3>1 DEF ApplyDqIn, Tap
      <4> QED
        BY <1>1, <1>3, <2>1, <3>1, <3>2, <4>1, <4>2 DEF TypeOK
    <3>4. SweepBounds'
      BY <1>1, <1>3, <3>1, <3>2 DEF SweepBounds
    <3>5. LeftEdges'
      <4> SUFFICES ASSUME NEW i \in Bits
                   PROVE  /\ left'[i] = NoEdge => right'[i] = 0 - d'
                          /\ SeenLeft(left, right, i)'
        BY <3>1, <3>2 DEF LeftEdges
      <4>1. left'[i] = l[i] /\ right'[i] = r[i] /\ d' = d + 1
        BY <3>1
      <4>2. SeenLeft(left, right, i)'
        BY <1>3, <2>1, <4>1 DEF SeenLeft
      <4> QED
        BY <2>1, <4>1, <4>2
    <3>6. RightEdges' /\ BothEdges'
      BY <3>1 DEF RightEdges, BothEdges
    <3>7. OpenBits'
      BY <1>3, <2>1, <3>1, <3>2 DEF OpenBits, OpenBit
    <3>8. Outcome'
      BY <1>1, <1>3, <3>1, NoOutcome DEF SweepBounds, Outcome, SuccessIsReadable,
         OpenEyesSucceed, StrobeCentred, BlameIsRestored
    <3> QED
      BY <3>3, <3>4, <3>5, <3>6, <3>7, <3>8
  <2> QED
    BY <2>2, <2>3
<1> QED
  BY <1>4, <1>5

-----------------------------------------------------------------------------
(* One tap of the right sweep. *)
LEMMA RightUpdate ==
    ASSUME ReadInv, pc = "right", NEW good \in PassSets(eyes, start_dqs + d),
           NEW l, l = LeftOfRight(left, right, good, d),
           NEW r, r = RightOfRight(left, right, good, d)
    PROVE  /\ l \in Edges /\ r \in Edges
           /\ \A i \in Bits :
                 /\ l[i] /= NoEdge \/ r[i] /= NoEdge
                 /\ l[i] /= NoEdge /\ r[i] /= NoEdge =>
                       /\ eyes[i].lo - 1 <= start_dqs - l[i]
                       /\ start_dqs + r[i] <= eyes[i].hi + 1
                 /\ l[i] /= NoEdge /\ r[i] = NoEdge => l[i] = 0 - (d + 1)
           /\ \A i \in Bits : Sure(eyes[i], start_dqs) =>
                 l[i] \in Tap /\ r[i] \in 0 .. TapMax - start_dqs
<1> USE DEF ReadInv
<1>1. /\ TapMax \in Nat \ {0} /\ NoEdge = TapMax + 1 /\ start_dqs \in 0 .. TapMax
      /\ d \in 0 .. TapMax - start_dqs
      /\ \A i \in Bits : eyes[i].lo \in Int /\ eyes[i].hi \in Int
  BY Numbers DEF SweepBounds
<1>2. \A i \in Bits : left[i] \in Edge /\ right[i] \in Edge
  BY DEF TypeOK, Edges
<1>3. -(d + 1) = 0 - (d + 1) /\ -1 = 0 - 1
  BY <1>1
<1>4. \A i \in Bits :
          l[i] = IF /\ i \notin good /\ right[i] = NoEdge
                    /\ ~LosesAtStart(left, right, i, d)
                 THEN 0 - (d + 1) ELSE left[i]
  BY <1>3 DEF LeftOfRight
<1>5. \A i \in Bits :
          r[i] = IF i \in good THEN d
                 ELSE IF LosesAtStart(left, right, i, d) THEN 0 - 1
                 ELSE right[i]
  BY <1>3 DEF RightOfRight
<1>6. d \in Edge /\ 0 - (d + 1) \in Edge /\ 0 - 1 \in Edge /\ d /= NoEdge
      /\ 0 - 1 /= NoEdge /\ 0 - (d + 1) /= NoEdge
  BY <1>1 DEF Edge
<1>7. l \in Edges /\ r \in Edges
  BY <1>2, <1>3, <1>6 DEF LeftOfRight, RightOfRight, Edges
<1>8. ASSUME NEW i \in Bits
      PROVE  /\ l[i] /= NoEdge \/ r[i] /= NoEdge
             /\ l[i] /= NoEdge /\ r[i] /= NoEdge =>
                   /\ eyes[i].lo - 1 <= start_dqs - l[i]
                   /\ start_dqs + r[i] <= eyes[i].hi + 1
             /\ l[i] /= NoEdge /\ r[i] = NoEdge => l[i] = 0 - (d + 1)
  <2>1. /\ left[i] = NoEdge /\ right[i] = NoEdge => d = 0
        /\ left[i] /= NoEdge /\ right[i] /= NoEdge =>
              /\ eyes[i].lo - 1 <= start_dqs - left[i]
              /\ start_dqs + right[i] <= eyes[i].hi + 1
        /\ left[i] /= NoEdge /\ right[i] = NoEdge =>
              IF d = 0 THEN /\ eyes[i].lo - 1 <= start_dqs - left[i]
                            /\ start_dqs <= eyes[i].hi + 1
              ELSE left[i] = 0 - d
    BY DEF RightEdges, Inside
  <2>2. left[i] \in Int /\ right[i] \in Int
    BY <1>1, <1>2 DEF Edge
  <2>3. CASE i \in good
    <3>1. /\ eyes[i].lo - 1 <= start_dqs + d
          /\ start_dqs + d <= eyes[i].hi + 1
      BY <2>3, Passes DEF Possible
    <3>2. l[i] = left[i] /\ r[i] = d
      BY <1>4, <1>5, <2>3
    <3> QED
      BY <1>1, <1>6, <2>1, <2>2, <3>1, <3>2
  <2>4. CASE i \notin good /\ LosesAtStart(left, right, i, d)
    <3>1. l[i] = left[i] /\ r[i] = 0 - 1 /\ left[i] /= NoEdge
          /\ right[i] = NoEdge /\ d = 0
      BY <1>4, <1>5, <2>4 DEF LosesAtStart
    <3> QED
      BY <1>1, <1>6, <2>1, <2>2, <3>1
  <2>5. CASE i \notin good /\ ~LosesAtStart(left, right, i, d)
    <3>1. r[i] = right[i]
          /\ l[i] = IF right[i] = NoEdge THEN 0 - (d + 1) ELSE left[i]
      BY <1>4, <1>5, <2>5
    <3> QED
      BY <1>1, <1>6, <2>1, <2>2, <3>1
  <2> QED
    BY <2>3, <2>4, <2>5
<1>9. ASSUME NEW i \in Bits, Sure(eyes[i], start_dqs)
      PROVE  l[i] \in Tap /\ r[i] \in 0 .. TapMax - start_dqs
  <2>1. left[i] \in Tap /\ IF d = 0 THEN right[i] = NoEdge
                           ELSE right[i] \in 0 .. TapMax - start_dqs
    BY <1>9 DEF OpenBits, OpenBit
  <2>2. CASE i \in good
    BY <1>1, <1>4, <1>5, <2>1, <2>2
  <2>3. CASE i \notin good
    <3>1. d /= 0
      BY <1>1, <1>9, <2>3, Passes
    <3>2. right[i] /= NoEdge
      BY <1>1, <2>1, <3>1
    <3> QED
      BY <1>4, <1>5, <2>1, <2>3, <3>1, <3>2 DEF LosesAtStart
  <2> QED
    BY <2>2, <2>3
<1> QED
  BY <1>7, <1>8, <1>9

LEMMA RightStep ==
    ASSUME ReadInv, RightTap
    PROVE  ReadInv'
<1> USE DEF ReadInv
<1>1. /\ TapMax \in Nat \ {0} /\ NoEdge = TapMax + 1 /\ start_dqs \in 0 .. TapMax
      /\ d \in 0 .. TapMax - start_dqs /\ pc = "right"
  BY Numbers DEF SweepBounds, RightTap
<1>2. PICK good \in PassSets(eyes, start_dqs + d) :
          /\ dqs' = start_dqs + d
          /\ sticky' = sticky \cup good
          /\ IF good = {} /\ sticky = Bits
             THEN pc' = "centre" /\ UNCHANGED <<left, right, d>>
             ELSE /\ left' = LeftOfRight(left, right, good, d)
                  /\ right' = RightOfRight(left, right, good, d)
                  /\ d' = d + 1
                  /\ pc' = IF d = TapMax - start_dqs THEN "centre" ELSE pc
  BY DEF RightTap
<1>3. UNCHANGED <<eyes, start_dqs, dq, result, error>>
  BY DEF RightTap
<1>4. good \subseteq Bits /\ dqs' \in Tap /\ sticky' \subseteq Bits
  BY <1>1, <1>2 DEF PassSets, TypeOK, Tap
<1>5. pc' \in {"right", "centre"}
  BY <1>1, <1>2
<1>6. LeftEdges' /\ Outcome'
  BY <1>1, <1>3, <1>5, NoOutcome DEF SweepBounds, LeftEdges, Outcome,
     SuccessIsReadable, OpenEyesSucceed, StrobeCentred, BlameIsRestored
<1>7. CASE good = {} /\ sticky = Bits
  <2>1. pc' = "centre" /\ UNCHANGED <<left, right, d>>
    BY <1>2, <1>7
  <2>2. TypeOK' /\ SweepBounds'
    BY <1>1, <1>3, <1>4, <2>1 DEF TypeOK, SweepBounds
  <2>3. RightEdges' /\ BothEdges'
    BY <1>1, <1>3, <2>1 DEF RightEdges, BothEdges, Inside
  <2>4. OpenBits'
    <3> SUFFICES ASSUME NEW i \in Bits, Sure(eyes[i], start_dqs)
                 PROVE  left[i] \in Tap /\ right[i] \in 0 .. TapMax - start_dqs
      BY <1>3, <2>1 DEF OpenBits, OpenBit
    <3>1. d /= 0
      BY <1>1, <1>7, Passes
    <3> QED
      BY <1>1, <3>1 DEF OpenBits, OpenBit
  <2> QED
    BY <1>6, <2>2, <2>3, <2>4
<1>8. CASE ~(good = {} /\ sticky = Bits)
  <2> DEFINE l == LeftOfRight(left, right, good, d)
             r == RightOfRight(left, right, good, d)
  <2>1. /\ l \in Edges /\ r \in Edges
        /\ \A i \in Bits :
              /\ l[i] /= NoEdge \/ r[i] /= NoEdge
              /\ l[i] /= NoEdge /\ r[i] /= NoEdge =>
                    /\ eyes[i].lo - 1 <= start_dqs - l[i]
                    /\ start_dqs + r[i] <= eyes[i].hi + 1
              /\ l[i] /= NoEdge /\ r[i] = NoEdge => l[i] = 0 - (d + 1)
        /\ \A i \in Bits : Sure(eyes[i], start_dqs) =>
              l[i] \in Tap /\ r[i] \in 0 .. TapMax - start_dqs
    BY <1>1, RightUpdate
  <2>2. /\ left' = l /\ right' = r /\ d' = d + 1
        /\ pc' = IF d = TapMax - start_dqs THEN "centre" ELSE pc
    BY <1>2, <1>8
  <2> HIDE DEF l, r
  <2>3. d' \in 1 .. TapMax + 1
        /\ (pc' = "right" => d' \in 1 .. TapMax - start_dqs)
    BY <1>1, <2>2
  <2>4. TypeOK'
    BY <1>1, <1>3, <1>4, <1>5, <2>1, <2>2, <2>3 DEF TypeOK
  <2>5. SweepBounds'
    BY <1>1, <1>3, <1>5, <2>3 DEF SweepBounds
  <2>6. RightEdges'
    BY <1>3, <2>1, <2>2, <2>3 DEF RightEdges, Inside
  <2>7. BothEdges'
    BY <1>3, <2>1, <2>2 DEF BothEdges, Inside
  <2>8. OpenBits'
    BY <1>3, <1>5, <2>1, <2>2, <2>3 DEF OpenBits, OpenBit
  <2> QED
    BY <1>6, <2>4, <2>5, <2>6, <2>7, <2>8
<1> QED
  BY <1>7, <1>8

-----------------------------------------------------------------------------
(* A bit without an edge: the first one is blamed. *)
LEMMA FirstBlind ==
    ASSUME Blind(left, right) /= {}, FailCentre
    PROVE  error' \in Blind(left, right)
<1> DEFINE B == Blind(left, right)
<1>1. B \in SUBSET Int /\ \A n \in B : 0 <= n
  BY BitsAssumption DEF Blind
<1>2. B /= {} /\ 0 \in Int
  OBVIOUS
<1>3. \E m \in B : \A n \in B : m <= n
  <2> HIDE DEF B
  <2> QED
    BY <1>1, <1>2, LeastOf
<1> QED
  BY <1>3 DEF FailCentre

LEMMA FailStep ==
    ASSUME ReadInv, FailCentre
    PROVE  ReadInv'
<1> USE DEF ReadInv
<1>1. pc = "centre" /\ result' = "bad" /\ pc' = "done" /\ dqs' = start_dqs
      /\ UNCHANGED <<eyes, start_dqs, d, left, right, sticky, dq>>
  BY DEF FailCentre
<1>2. error' \in Bits /\ (left[error'] = NoEdge \/ right[error'] = NoEdge)
  BY FirstBlind DEF FailCentre, Blind
<1>3. ~Sure(eyes[error'], start_dqs)
  <2>1. NoEdge \notin Tap /\ NoEdge \notin 0 .. TapMax - start_dqs
    BY Numbers DEF Tap
  <2> QED
    BY <1>1, <1>2, <2>1 DEF OpenBits, OpenBit
<1>4. TypeOK'
  BY <1>1, <1>2 DEF TypeOK
<1>5. error' /= NoBit
  BY <1>2, EyeAssumption
<1>6. Outcome'
  BY <1>1, <1>2, <1>3, <1>5 DEF Outcome, SuccessIsReadable, OpenEyesSucceed,
     StrobeCentred, BlameIsRestored, Sure
<1> QED
  BY <1>1, <1>4, <1>6 DEF SweepBounds, LeftEdges, RightEdges, BothEdges,
     OpenBits, OpenBit

(* All edges are known. *)
LEMMA CentreStep ==
    ASSUME ReadInv, SetCentre
    PROVE  ReadInv'
<1> USE DEF ReadInv
<1>1. pc = "centre" /\ pc' = "done" /\ dqs' = new_dqs /\ error = NoBit
      /\ UNCHANGED <<eyes, start_dqs, d, left, right, sticky, error>>
      /\ dq' = [i \in Bits |-> ShiftDq(left, right, Moved, i)]
      /\ result' = IF MarginsHold(left, right, dq', Moved) THEN "ok" ELSE "bad"
  BY DEF SetCentre, SweepBounds
<1>2. /\ TapMax \in Nat \ {0} /\ start_dqs \in 0 .. TapMax
      /\ \A i \in Bits : eyes[i].lo \in Int /\ eyes[i].hi \in Int
      /\ left \in Edges /\ right \in Edges
  BY Numbers DEF TypeOK
<1>3. /\ \A i \in Bits : Mid(left, right, i) \in Int
      /\ MidMin(left, right) \in Int
  BY <1>2, LeastMid
<1>4. HalfUp(MidMin(left, right)) \in Int
  BY <1>3, HalfUpRounds
<1>5. new_dqs \in 0 .. TapMax
  BY <1>2, <1>4, ClampIsTap DEF new_dqs, Tap
<1>6. Moved = start_dqs - new_dqs /\ Moved \in Int
  BY <1>2, <1>5 DEF Moved
<1>7. \A i \in Bits : /\ Centre(left, right, i) \in Int
                      /\ dq'[i] = Clamp(Centre(left, right, i) - Moved)
  BY <1>1, <1>2, CentreIsMiddle DEF ShiftDq, Centre
<1>8. dq' \in [Bits -> Tap]
  <2>1. \A i \in Bits : Clamp(Centre(left, right, i) - Moved) \in Tap
    BY <1>6, <1>7, ClampIsTap
  <2> QED
    BY <1>1, <1>7, <2>1
<1>9. TypeOK'
  BY <1>1, <1>5, <1>8 DEF TypeOK, Tap
<1>10. SuccessIsReadable'
  <2> SUFFICES ASSUME result' = "ok", NEW i \in Bits
               PROVE  Possible(eyes[i], new_dqs - dq'[i])
    BY <1>1 DEF SuccessIsReadable
  <2>1. MarginsHold(left, right, dq', Moved)
    BY <1>1
  <2>2. left[i] /= NoEdge /\ right[i] /= NoEdge
    BY DEF SetCentre, Blind
  <2>3. /\ eyes[i].lo - 1 <= start_dqs - left[i]
        /\ start_dqs + right[i] <= eyes[i].hi + 1
    BY <1>1, <2>2 DEF BothEdges, Inside
  <2>4. start_dqs - Moved = new_dqs
    BY <1>2, <1>5, <1>6
  <2> QED
    BY <1>2, <1>6, <1>8, <2>1, <2>3, <2>4, MarginsAreInside DEF Possible
<1>11. OpenEyesSucceed'
  <2> SUFFICES ASSUME \A i \in Bits : Sure(eyes[i], start_dqs)
               PROVE  MarginsHold(left, right, dq', Moved)
    BY <1>1 DEF OpenEyesSucceed
  <2>1. \A i \in Bits : left[i] \in Tap /\ right[i] \in 0 .. TapMax - start_dqs
    BY <1>1 DEF OpenBits, OpenBit
  <2>2. start_dqs \in Tap
    BY DEF TypeOK
  <2>3. ASSUME NEW i \in Bits
        PROVE  /\ DqMargin(left, dq', start_dqs - new_dqs, i) >= 0
               /\ DqsMargin(right, dq', start_dqs - new_dqs, i) >= 0
    <3>1. dq'[i] = ShiftDq(left, right, start_dqs - new_dqs, i)
      BY <1>1, <1>6
    <3>2. new_dqs = Clamp(start_dqs - HalfUp(MidMin(left, right)))
      BY DEF new_dqs
    <3> QED
      BY <1>2, <2>1, <2>2, <3>1, <3>2, OpenMargins
  <2> QED
    BY <1>6, <2>3 DEF MarginsHold
<1>12. StrobeCentred'
  <2> SUFFICES ASSUME Unclamped', NEW i \in Bits
               PROVE  (left[i] - dq'[i] - Moved) - (right[i] + dq'[i] + Moved)
                          \in -1 .. 1
    <3>1. Moved' = Moved
      BY <1>1 DEF Moved, new_dqs
    <3> QED
      BY <1>1, <3>1 DEF StrobeCentred
  <2> DEFINE c == Centre(left, right, i)
  <2>1. c \in Int /\ left[i] - right[i] - 2 * c \in -1 .. 1
    BY <1>2, CentreIsMiddle DEF Mid
  <2>2. dq'[i] = c - Moved
    <3> DEFINE h == HalfUp(MidMin(left, right))
    <3>1. h \in Int /\ c >= h
      BY <1>2, <1>4, CentreIsMiddle
    <3>2. new_dqs = Clamp(start_dqs - h) /\ new_dqs < TapMax
      BY <1>1 DEF new_dqs, Unclamped
    <3> HIDE DEF h, c
    <3>3. c - Moved >= 0
      BY <1>2, <1>6, <2>1, <3>1, <3>2 DEF Clamp
    <3>4. dq'[i] = Clamp(c - Moved) /\ dq'[i] < TapMax
      BY <1>7 DEF Unclamped, c
    <3> QED
      BY <1>6, <2>1, <3>3, <3>4, ClampIsTap
  <2>3. left[i] \in Int /\ right[i] \in Int
    BY <1>2, TapAssumption DEF Edges, Edge, NoEdge
  <2> HIDE DEF c
  <2> QED
    BY <1>6, <2>1, <2>2, <2>3
<1>13. BlameIsRestored'
  BY <1>1 DEF BlameIsRestored
<1> QED
  BY <1>1, <1>9, <1>10, <1>11, <1>12, <1>13 DEF SweepBounds, LeftEdges,
     RightEdges, BothEdges, OpenBits, OpenBit, Outcome

LEMMA ReadInitHolds == ReadInit => ReadInv
<1> SUFFICES ASSUME ReadInit PROVE ReadInv
  OBVIOUS
<1> USE DEF ReadInit
<1>1. TapMax \in Nat \ {0} /\ NoEdge \in Edge /\ 0 \in Tap
  BY TapAssumption DEF NoEdge, Edge, Tap
<1>2. TypeOK
  BY <1>1 DEF TypeOK, Edges, Tap
<1>3. SweepBounds /\ LeftEdges /\ RightEdges /\ BothEdges
  BY <1>1 DEF SweepBounds, LeftEdges, RightEdges, BothEdges, SeenLeft
<1>4. OpenBits
  BY DEF OpenBits, OpenBit
<1>5. Outcome
  BY NoOutcome
<1> QED
  BY <1>2, <1>3, <1>4, <1>5 DEF ReadInv

LEMMA StutterStep ==
    ASSUME ReadInv, UNCHANGED readVars
    PROVE  ReadInv'
<1> USE DEF ReadInv, readVars
<1>1. TypeOK' /\ SweepBounds'
  BY DEF TypeOK, SweepBounds
<1>2. LeftEdges' /\ RightEdges' /\ BothEdges' /\ OpenBits'
  BY DEF LeftEdges, SeenLeft, RightEdges, BothEdges, Inside, OpenBits, OpenBit
<1>3. Outcome'
  BY DEF Outcome, SuccessIsReadable, OpenEyesSucceed, StrobeCentred, Unclamped,
         Moved, new_dqs, BlameIsRestored
<1> QED
  BY <1>1, <1>2, <1>3

(* What the edges found so far mean, in each of the two sweeps. *)
THEOREM ReadInvariant == ReadSpec => []ReadInv
<1>1. ReadInv /\ [ReadNext]_readVars => ReadInv'
  BY LeftStep, RightStep, FailStep, CentreStep, StutterStep DEF ReadNext, Finished
<1> QED
  BY ReadInitHolds, <1>1, PTL DEF ReadSpec

-----------------------------------------------------------------------------
(* Delays stay between 0 and TapMax, edges within a tap of them. *)
THEOREM ReadTypes == ReadSpec => []TypeOK
<1>1. ReadInv => TypeOK
  BY DEF ReadInv
<1> QED
  BY <1>1, ReadInvariant, PTL

(* A centring that reports success leaves delays at which every bit may be
   read, whatever noise the edges were found with.                         *)
THEOREM SuccessReadable == ReadSpec => []SuccessIsReadable
<1>1. ReadInv => SuccessIsReadable
  BY DEF ReadInv, Outcome
<1> QED
  BY <1>1, ReadInvariant, PTL

(* A group that can be read at the start is not given up. *)
THEOREM OpenSucceeds == ReadSpec => []OpenEyesSucceed
<1>1. ReadInv => OpenEyesSucceed
  BY DEF ReadInv, Outcome
<1> QED
  BY <1>1, ReadInvariant, PTL

(* Unless a delay is at the end of its chain, the strobe is in the middle of
   the edges of every bit to within half a tap, however its distance was
   rounded.                                                                *)
THEOREM Centred == ReadSpec => []StrobeCentred
<1>1. ReadInv => StrobeCentred
  BY DEF ReadInv, Outcome
<1> QED
  BY <1>1, ReadInvariant, PTL

(* A failure that names a bit leaves the strobe at its start, and that bit
   was not open there.                                                     *)
THEOREM BlameRestored == ReadSpec => []BlameIsRestored
<1>1. ReadInv => BlameIsRestored
  BY DEF ReadInv, Outcome
<1> QED
  BY <1>1, ReadInvariant, PTL

-----------------------------------------------------------------------------
(* The centring of reads keeps the promise of Centring. *)
THEOREM CentringImplemented == ReadSpec => ImplementsCentring
<1> DEFINE opn == {i \in Bits : Sure(eyes[i], start_dqs)}
           clr == {i \in Bits : Possible(eyes[i], dqs - dq[i])}
<1> USE DEF Service!centringVars
<1>1. ReadInit => Service!CentringInit
  BY DEF ReadInit, Service!CentringInit
<1>2. ReadInv /\ [ReadNext]_readVars => [Service!CentringNext]_(Service!centringVars)
  <2> SUFFICES ASSUME ReadInv, [ReadNext]_readVars
               PROVE  [Service!CentringNext]_(Service!centringVars)
    OBVIOUS
  <2>1. ReadInv'
    BY LeftStep, RightStep, FailStep, CentreStep, StutterStep
       DEF ReadNext, Finished
  <2>2. clr' \in SUBSET Bits /\ opn \in SUBSET Bits
    OBVIOUS
  <2>3. ASSUME UNCHANGED <<eyes, start_dqs>> PROVE opn' = opn
    BY <2>3
  <2>4. CASE LeftTap \/ RightTap
    <3>1. result = "none" /\ UNCHANGED <<eyes, start_dqs, result, error>>
      BY <2>4 DEF LeftTap, RightTap, ReadInv, SweepBounds
    <3> QED
      BY <2>2, <2>3, <3>1 DEF Service!CentringNext, Service!Search
  <2>5. CASE FailCentre
    <3>1. result = "none" /\ UNCHANGED <<eyes, start_dqs>> /\ result' = "bad"
      BY <2>5 DEF FailCentre, ReadInv, SweepBounds
    <3>2. error' \in Bits /\ error' /= NoBit
      BY <2>5, FirstBlind, EyeAssumption DEF FailCentre, Blind
    <3>3. ~Sure(eyes[error'], start_dqs)
      BY <2>1, <3>1, <3>2 DEF ReadInv, Outcome, BlameIsRestored, Sure
    <3>4. opn /= Bits /\ error' \in Bits \ opn
      BY <3>2, <3>3
    <3> QED
      BY <2>2, <2>3, <3>1, <3>4 DEF Service!CentringNext, Service!GiveUp
  <2>6. CASE SetCentre
    <3>1. result = "none" /\ UNCHANGED <<eyes, start_dqs, error>> /\ error = NoBit
          /\ result' \in {"ok", "bad"}
      BY <2>6 DEF SetCentre, ReadInv, SweepBounds
    <3>2. CASE result' = "ok"
      <4>1. clr' = Bits
        BY <2>1, <3>2 DEF ReadInv, Outcome, SuccessIsReadable
      <4> QED
        BY <2>3, <3>1, <3>2, <4>1 DEF Service!CentringNext, Service!Succeed
    <3>3. CASE result' = "bad"
      <4>1. opn /= Bits
        BY <2>1, <3>1, <3>3 DEF ReadInv, Outcome, OpenEyesSucceed, Sure
      <4> QED
        BY <2>2, <2>3, <3>1, <3>3, <4>1 DEF Service!CentringNext, Service!GiveUp
    <3> QED
      BY <3>1, <3>2, <3>3
  <2>7. CASE UNCHANGED readVars
    BY <2>3, <2>7 DEF readVars
  <2> QED
    BY <2>4, <2>5, <2>6, <2>7 DEF ReadNext, Finished
<1> QED
  BY <1>1, <1>2, ReadInvariant, PTL
     DEF ReadSpec, ImplementsCentring, Service!CentringSpec
=============================================================================
