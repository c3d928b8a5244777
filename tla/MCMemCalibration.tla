-------------------------- MODULE MCMemCalibration --------------------------
(* Two groups of two bits, strobe delays 0 .. 2, three delays of the output
   side; every latency from one that always suffices to one that never does. *)
EXTENDS MemCalibration
=============================================================================
