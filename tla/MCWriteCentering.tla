-------------------------- MODULE MCWriteCentering --------------------------
(* Two bits and a mask, delays of 0 .. 3 taps, eyes on both sides of the
   start, cut by the ends of the sweeps, open by noise only, and closed.   *)
EXTENDS WriteCentering

MCBits == {0, 1}
MCEyes == {[lo |-> -2, hi |-> 0], [lo |-> -2, hi |-> 2], [lo |-> 0, hi |-> 2],
           [lo |-> 0, hi |-> 3], [lo |-> 1, hi |-> 0], [lo |-> 2, hi |-> 3],
           [lo |-> 9, hi |-> 5]}
=============================================================================
