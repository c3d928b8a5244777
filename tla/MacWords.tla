------------------------------ MODULE MacWords ------------------------------
(***************************************************************************)
(* Machine words of the cluster and the arithmetic of one mac_2x2 lane     *)
(* (src/Verilog_srcs/cluster_ip/mac_2x2.v).  A word has Base values: Base  *)
(* is 2^32 in the sources.  A lane multiplies words as signed numbers and  *)
(* keeps a result of two words, which wraps at Base^2 (2^64).              *)
(***************************************************************************)
EXTENDS Integers

CONSTANT Base  \* number of values of a word

(* A word holds the largest status code of cluster_ctrl, 15, and has a sign
   bit, so Base is even.                                                   *)
ASSUME BaseAssumption ==
    /\ Base \in Nat
    /\ Base >= 16
    /\ Base % 2 = 0

Word == 0 .. Base - 1
DoubleWord == 0 .. Base * Base - 1

(* How "wire signed [31:0]" reads a word. *)
Signed(w) == IF 2 * w >= Base THEN w - Base ELSE w

(* Fault: the sum is not reduced to the result register's width. *)
MacResult_unwrapped(a0, a1, b0, b1) ==
    Signed(a0) * Signed(b0) + Signed(a1) * Signed(b1)

(* What the lane latches for the operands of one result element: row
   (a0, a1) times column (b0, b1), as two's complement in two words.       *)
MacResult(a0, a1, b0, b1) ==
    (Signed(a0) * Signed(b0) + Signed(a1) * Signed(b1)) % (Base * Base)

(* The two result words: data_tx_<i>_lo and data_tx_<i>_hi. *)
LoWord(r) == r % Base
HiWord(r) == r \div Base

(* The same dot product as the host's uint32_t arithmetic defines it. *)
DotProduct(a0, a1, b0, b1) == (a0 * b0 + a1 * b1) % Base
=============================================================================
