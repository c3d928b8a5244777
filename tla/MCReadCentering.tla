-------------------------- MODULE MCReadCentering ---------------------------
(* Two bits, delays of 0 .. 3 taps, all eyes that reach into the sweeps, and
   an empty one.                                                           *)
EXTENDS ReadCentering

MCBits == {0, 1}
MCEyes == {e \in [lo : -3 .. 3, hi : -3 .. 3] : e.lo <= e.hi}
          \cup {[lo |-> 9, hi |-> 5]}
=============================================================================
