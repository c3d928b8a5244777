-------------------------- MODULE EdgeSearchProofs --------------------------
(***************************************************************************)
(* The arithmetic of the centring, for any number of bits and taps: what   *)
(* the rounding of sequencer.c loses, and that it never loses an open eye. *)
(***************************************************************************)
EXTENDS EdgeSearch, WellFoundedInduction, TLAPS

(* A nonempty set of numbers that are bounded below has a least one. *)
LEMMA LeastOf ==
    ASSUME NEW S \in SUBSET Int, S /= {}, NEW b \in Int, \A n \in S : b <= n
    PROVE  \E m \in S : \A n \in S : m <= n
<1> DEFINE T == {n - b : n \in S}
<1>1. T \subseteq Nat /\ T /= {}
  <2>1. \A n \in S : n - b \in Nat
    OBVIOUS
  <2>2. PICK n \in S : TRUE
    OBVIOUS
  <2> QED
    BY <2>1, <2>2
<1>2. PICK x \in T : \A y \in T : <<y, x>> \notin OpToRel(<, Nat)
  BY <1>1, NatLessThanWellFounded, WFMin, Zenon
<1>3. ASSUME NEW y \in T, y < x PROVE FALSE
  <2>1. x \in Nat /\ y \in Nat
    BY <1>1
  <2>2. <<y, x>> \in OpToRel(<, Nat)
    BY <1>3, <2>1 DEF OpToRel
  <2> QED
    BY <1>2, <2>2
<1>4. PICK k \in S : x = k - b
  OBVIOUS
<1>5. \A n \in S : ~(n - b < x)
  BY <1>3
<1>6. k \in S /\ \A n \in S : k <= n
  BY <1>4, <1>5
<1> QED
  BY <1>6

-----------------------------------------------------------------------------
(* Division by two rounds towards zero, HalfUp up. *)
LEMMA HalfRounds ==
    ASSUME NEW n \in Int
    PROVE  /\ Half(n) \in Int
           /\ n >= 0 => Half(n) >= 0 /\ 2 * Half(n) \in {n, n - 1}
           /\ n <= 0 => Half(n) <= 0 /\ 2 * Half(n) \in {n, n + 1}
  BY DEF Half

LEMMA HalfUpRounds ==
    ASSUME NEW n \in Int
    PROVE  HalfUp(n) \in Int /\ 2 * HalfUp(n) \in {n, n + 1}
  BY HalfRounds DEF HalfUp

LEMMA ClampIsTap ==
    ASSUME NEW n \in Int
    PROVE  /\ Clamp(n) \in Tap
           /\ n \in Tap => Clamp(n) = n
           /\ n >= 0 /\ Clamp(n) < TapMax => Clamp(n) = n
           /\ n < 0 => Clamp(n) = 0
  BY TapAssumption DEF Clamp, Tap

LEMMA LeastMid ==
    ASSUME NEW left \in Edges, NEW right \in Edges
    PROVE  /\ MidMin(left, right) \in {Mid(left, right, i) : i \in Bits}
           /\ \A i \in Bits : /\ Mid(left, right, i) \in Int
                              /\ MidMin(left, right) <= Mid(left, right, i)
<1> DEFINE S == {Mid(left, right, i) : i \in Bits}
<1>1. \A i \in Bits : left[i] \in Edge /\ right[i] \in Edge
  BY DEF Edges
<1>0. NoEdge \in Nat
  BY TapAssumption DEF NoEdge
<1>2. \A i \in Bits : /\ Mid(left, right, i) \in Int
                      /\ 0 - 2 * NoEdge <= Mid(left, right, i)
  <2> SUFFICES ASSUME NEW i \in Bits
               PROVE  /\ left[i] - right[i] \in Int
                      /\ 0 - 2 * NoEdge <= left[i] - right[i]
    BY DEF Mid
  <2>1. left[i] \in -NoEdge .. NoEdge /\ right[i] \in -NoEdge .. NoEdge
    BY <1>1 DEF Edge
  <2> QED
    BY <1>0, <2>1
<1>3. S \in SUBSET Int /\ S /= {} /\ 0 - 2 * NoEdge \in Int
  <2>1. PICK i \in Bits : TRUE
    BY BitsAssumption
  <2>2. Mid(left, right, i) \in S
    BY <2>1
  <2>3. S \subseteq Int
    BY <1>2
  <2> QED
    BY <1>0, <2>2, <2>3
<1>4. \A n \in S : 0 - 2 * NoEdge <= n
  BY <1>2
<1>5. \E m \in S : \A n \in S : m <= n
  BY <1>3, <1>4, LeastOf
<1>6. \E m \in S : \A i \in Bits : m <= Mid(left, right, i)
  BY <1>5
<1>7. MidMin(left, right) \in S
      /\ \A i \in Bits : MidMin(left, right) <= Mid(left, right, i)
  BY <1>6 DEF MidMin
<1> QED
  BY <1>2, <1>7

-----------------------------------------------------------------------------
(* Where a bit is put relative to the strobe before any delay is clamped. *)
Centre(left, right, i) ==
    Half(Mid(left, right, i) - MidMin(left, right))
    + HalfUp(MidMin(left, right))

(* It is the middle of the two edges to within half a tap: the rounding of
   a bit's distance never adds to that of the strobe's.                    *)
LEMMA CentreIsMiddle ==
    ASSUME NEW left \in Edges, NEW right \in Edges, NEW i \in Bits
    PROVE  /\ Centre(left, right, i) \in Int
           /\ Centre(left, right, i) >= HalfUp(MidMin(left, right))
           /\ Mid(left, right, i) - 2 * Centre(left, right, i) \in -1 .. 1
<1> DEFINE m == MidMin(left, right)
           x == Mid(left, right, i) - m
<1>1. m \in Int /\ Mid(left, right, i) \in Int /\ x \in Int /\ x >= 0
  BY LeastMid
<1> HIDE DEF m, x
<1>2. Half(x) \in Int /\ Half(x) >= 0 /\ 2 * Half(x) \in {x, x - 1}
  BY <1>1, HalfRounds
<1>3. HalfUp(m) \in Int /\ 2 * HalfUp(m) \in {m, m + 1}
  BY <1>1, HalfUpRounds
<1>4. Centre(left, right, i) = Half(x) + HalfUp(m)
  BY DEF Centre, m, x
<1>5. Mid(left, right, i) = x + m
  BY <1>1 DEF x
<1> QED
  BY <1>1, <1>2, <1>3, <1>4, <1>5 DEF m

(* Where the edges are beyond the start on both sides, clamping leaves both
   margins of every bit: the strobe may be short of its place, then the bit
   moves in its stead.                                                     *)
LEMMA OpenMargins ==
    ASSUME NEW left \in Edges, NEW right \in Edges, NEW start \in Tap,
           \A i \in Bits : left[i] \in Tap /\ right[i] \in 0 .. TapMax - start,
           NEW dqs, dqs = Clamp(start - HalfUp(MidMin(left, right))),
           NEW i \in Bits, NEW shift,
           shift[i] = ShiftDq(left, right, start - dqs, i)
    PROVE  /\ DqMargin(left, shift, start - dqs, i) >= 0
           /\ DqsMargin(right, shift, start - dqs, i) >= 0
<1> DEFINE m == MidMin(left, right)
           c == Centre(left, right, i)
<1>1. start \in 0 .. TapMax /\ TapMax \in Nat
      /\ left[i] \in 0 .. TapMax /\ right[i] \in 0 .. TapMax - start
  BY TapAssumption DEF Tap
<1>2. m \in -(TapMax - start) .. TapMax
  BY <1>1, LeastMid, TapAssumption DEF Mid, Tap
<1>3. HalfUp(m) \in Int /\ 2 * HalfUp(m) \in {m, m + 1}
  BY <1>2, HalfUpRounds
<1>4. /\ c \in Int /\ c >= HalfUp(m)
      /\ left[i] - right[i] - 2 * c \in -1 .. 1
  BY CentreIsMiddle DEF Mid
<1>5. dqs \in 0 .. TapMax
      /\ dqs = IF start < HalfUp(m) THEN 0 ELSE start - HalfUp(m)
  BY <1>1, <1>2, <1>3, TapAssumption DEF Clamp
<1>6. shift[i] = Clamp(c - (start - dqs))
  BY DEF ShiftDq, Centre
<1>e. PICK l \in Int, r \in Int : l = left[i] /\ r = right[i]
  BY <1>1
<1> HIDE DEF m, c
<1>7. c - (start - dqs) \in 0 .. TapMax
  <2>1. CASE start < HalfUp(m)
    BY <1>1, <1>2, <1>3, <1>4, <1>5, <1>e, <2>1
  <2>2. CASE ~(start < HalfUp(m))
    BY <1>1, <1>2, <1>3, <1>4, <1>5, <1>e, <2>2
  <2> QED
    BY <2>1, <2>2
<1>8. shift[i] = c - (start - dqs)
  BY <1>6, <1>7, ClampIsTap DEF Tap
<1> QED
  BY <1>1, <1>4, <1>5, <1>8 DEF DqMargin, DqsMargin

(* Margins that are not negative put the strobe inside the edges. *)
LEMMA MarginsAreInside ==
    ASSUME NEW left \in Edges, NEW right \in Edges, NEW start \in Int,
           NEW moved \in Int, NEW shift \in [Bits -> Tap], NEW i \in Bits,
           NEW lo \in Int, NEW hi \in Int,
           lo <= start - left[i], start + right[i] <= hi,
           MarginsHold(left, right, shift, moved)
    PROVE  /\ lo <= start - moved - shift[i]
           /\ start - moved - shift[i] <= hi
<1>1. left[i] \in Int /\ right[i] \in Int /\ shift[i] \in Int
  BY TapAssumption DEF Edges, Edge, NoEdge, Tap
<1>2. left[i] - shift[i] - moved >= 0 /\ right[i] + shift[i] + moved >= 0
  BY DEF MarginsHold, DqMargin, DqsMargin
<1> QED
  BY <1>1, <1>2
=============================================================================
