---------------------------- MODULE MCDqsEnable -----------------------------
(* A clock of 4 phases, 5 time units each, and delay taps of 2 units that
   reach over more than two phases, as on the board (8 phases of 312 ps, 32
   taps of 25 ps).  Windows up to the two clocks that are free, at every
   time.                                                                   *)
EXTENDS DqsEnable

MCWidths == {2, 4} \cup 6 .. 39
=============================================================================
