------------------------------ MODULE MCApbBus ------------------------------
(* ApbBus with a processor that issues a few accesses in any order. *)
EXTENDS ApbBus

(* Every instruction main.c defines (5 is INST_RX_COMPLETE, which the
   cluster does not know), two operand words of lane 0 and
   an attempt to write the read-only status.                               *)
MCAccesses ==
    { WriteOf(INSTRUCTION, i) : i \in {0, 1, 3, 5} }
        \cup { WriteOf(DATA, 9), WriteOf(DATA + 2, 3), WriteOf(STATUS, 15) }
        \cup { ReadOf(r) : r \in {INSTRUCTION, STATUS, DATA} }
=============================================================================
