----------------------------- MODULE MacFabric ------------------------------
(***************************************************************************)
(* The stand-alone FPGA design of src/Verilog_srcs: fpga_top synchronizes  *)
(* an instruction word, turns the rise of its start bit into a pulse and   *)
(* hands it to the fabric, which starts one of four clusters of mac_3x3    *)
(* cores, waits until all of its cores are done and collects the results.  *)
(* cluster_fabric.v is the same fabric in one file.                        *)
(*                                                                         *)
(* Clock is one edge of pll_clk.  The instruction and data inputs may      *)
(* change between any two edges; key[0] resets everything at any time.     *)
(* Bits of an instruction that are synchronized in different cycles look  *)
(* like an input that takes a mixed value for a cycle: Drive covers them.  *)
(***************************************************************************)
EXTENDS MacWords

CONSTANTS
    Sels,       \* cluster selects the instruction may hold, out of 0 .. 3
    Words,      \* words data_to_fpga may hold
    CycleBase   \* number of values of a cycle counter (2^32)

ASSUME FabricAssumption ==
    /\ Sels \subseteq 0 .. 3
    /\ Words \subseteq Word
    /\ CycleBase \in Nat \ {0}

VARIABLES
    fpga_instruction,       \* input: [start, cluster_sel]
    data_to_fpga,           \* input: the word fed to all operands
    fpga_instruction_meta,  \* the synchronizer
    fpga_instruction_sync,
    start_prev,
    done, busy, active_cluster_sel,      \* cluster_fabric_structural
    cycles_running, cycles_last, result_flat_out,
    core_busy, core_done, core_result    \* mac_3x3, one per cluster and core

inputs == <<fpga_instruction, data_to_fpga>>
top == <<fpga_instruction_meta, fpga_instruction_sync, start_prev>>
fabric == <<done, busy, active_cluster_sel, cycles_running, cycles_last,
            result_flat_out>>
cores == <<core_busy, core_done, core_result>>
fabricVars == <<inputs, top, fabric, cores>>

Clusters == 0 .. 3
CoresOf(c) == 0 .. 2^c - 1
Slots == 0 .. 7  \* results of the largest cluster

Instruction == [start : BOOLEAN, cluster_sel : Sels \cup {0}]
NoInstruction == [start |-> FALSE, cluster_sel |-> 0]

(* fpga_top replicates the word into every operand of every core. *)
Dot3(w) == (3 * Signed(w) * Signed(w)) % (Base * Base)

AllCores(v) == [c \in Clusters |-> [i \in CoresOf(c) |-> v]]

-----------------------------------------------------------------------------
fabric_start_pulse == fpga_instruction_sync.start /\ ~start_prev
fabric_cluster_sel == fpga_instruction_sync.cluster_sel

(* Fault: a core is started whatever cluster was selected. *)
Fire_unselected(c) == fabric_start_pulse /\ ~busy /\ fabric_cluster_sel >= c

(* cluster_dispatcher: all cores of the selected cluster are started, for
   the one cycle in which the fabric is not yet busy.                      *)
Fire(c) == fabric_start_pulse /\ ~busy /\ fabric_cluster_sel = c

(* cluster_response_mux *)
selected_done ==
    \A i \in CoresOf(active_cluster_sel) : core_done[active_cluster_sel][i]
selected_result ==
    [s \in Slots |-> IF s \in CoresOf(active_cluster_sel)
                     THEN core_result[active_cluster_sel][s] ELSE 0]

(* mac_3x3: a start makes an idle core busy; a busy core takes the operands
   in the next cycle.  Whatever happens, done is low after a cycle in which
   start was low: that assignment comes last.                              *)
CoreEdge ==
    /\ core_busy' = [c \in Clusters |-> [i \in CoresOf(c) |->
          Fire(c) /\ ~core_busy[c][i]]]
    /\ core_result' = [c \in Clusters |-> [i \in CoresOf(c) |->
          IF core_busy[c][i] THEN Dot3(data_to_fpga) ELSE core_result[c][i]]]
    /\ core_done' = [c \in Clusters |-> [i \in CoresOf(c) |->
          Fire(c) /\ core_busy[c][i]]]

(* Fault: a counter without a width. *)
Tick_wide(n) == n + 1

(* The cycle counter is a register: it wraps. *)
Tick(n) == (n + 1) % CycleBase

(* Fault: a start is taken while the fabric is busy. *)
FabricEdge_relaunch ==
    LET collect == busy /\ selected_done
    IN
    /\ done' = collect
    /\ busy' = (fabric_start_pulse \/ (busy /\ ~collect))
    /\ active_cluster_sel' =
          IF fabric_start_pulse THEN fabric_cluster_sel ELSE active_cluster_sel
    /\ cycles_running' = IF fabric_start_pulse THEN 0
                         ELSE IF busy THEN Tick(cycles_running)
                         ELSE cycles_running
    /\ cycles_last' = IF collect THEN cycles_running ELSE cycles_last
    /\ result_flat_out' = IF collect THEN selected_result ELSE result_flat_out

(* cluster_fabric_structural's registers. *)
FabricEdge ==
    LET launch  == fabric_start_pulse /\ ~busy
        collect == busy /\ selected_done
    IN
    /\ done' = collect
    /\ busy' = (launch \/ (busy /\ ~collect))
    /\ active_cluster_sel' =
          IF launch THEN fabric_cluster_sel ELSE active_cluster_sel
    /\ cycles_running' = IF launch THEN 0
                         ELSE IF busy THEN Tick(cycles_running)
                         ELSE cycles_running
    /\ cycles_last' = IF collect THEN cycles_running ELSE cycles_last
    /\ result_flat_out' = IF collect THEN selected_result ELSE result_flat_out

Clock ==
    /\ fpga_instruction_meta' = fpga_instruction
    /\ fpga_instruction_sync' = fpga_instruction_meta
    /\ start_prev' = fpga_instruction_sync.start
    /\ FabricEdge
    /\ CoreEdge
    /\ UNCHANGED inputs

(* Whoever drives the ports of fpga_top. *)
Drive ==
    /\ fpga_instruction' \in Instruction
    /\ data_to_fpga' \in Words
    /\ UNCHANGED <<top, fabric, cores>>

(* key[0] is pressed: every register is cleared, the inputs stay. *)
KeyReset ==
    /\ fpga_instruction_meta' = NoInstruction
    /\ fpga_instruction_sync' = NoInstruction
    /\ start_prev' = FALSE
    /\ done' = FALSE
    /\ busy' = FALSE
    /\ active_cluster_sel' = 0
    /\ cycles_running' = 0
    /\ cycles_last' = 0
    /\ result_flat_out' = [s \in Slots |-> 0]
    /\ core_busy' = AllCores(FALSE)
    /\ core_done' = AllCores(FALSE)
    /\ core_result' = AllCores(0)
    /\ UNCHANGED inputs

(* The board is reset before it is used. *)
Init ==
    /\ fpga_instruction \in Instruction
    /\ data_to_fpga \in Words
    /\ fpga_instruction_meta = NoInstruction
    /\ fpga_instruction_sync = NoInstruction
    /\ start_prev = FALSE
    /\ done = FALSE
    /\ busy = FALSE
    /\ active_cluster_sel = 0
    /\ cycles_running = 0
    /\ cycles_last = 0
    /\ result_flat_out = [s \in Slots |-> 0]
    /\ core_busy = AllCores(FALSE)
    /\ core_done = AllCores(FALSE)
    /\ core_result = AllCores(0)

Next == Clock \/ Drive \/ KeyReset

(* The clock runs. *)
Spec == Init /\ [][Next]_fabricVars /\ WF_fabricVars(Clock)

-----------------------------------------------------------------------------
(* Properties *)

TypeOK ==
    /\ fpga_instruction \in Instruction
    /\ data_to_fpga \in Words
    /\ fpga_instruction_meta \in Instruction
    /\ fpga_instruction_sync \in Instruction
    /\ start_prev \in BOOLEAN
    /\ done \in BOOLEAN
    /\ busy \in BOOLEAN
    /\ active_cluster_sel \in Clusters
    /\ cycles_running \in 0 .. CycleBase - 1
    /\ cycles_last \in 0 .. CycleBase - 1
    /\ result_flat_out \in [Slots -> DoubleWord]
    /\ \A c \in Clusters :
          /\ core_busy[c] \in [CoresOf(c) -> BOOLEAN]
          /\ core_done[c] \in [CoresOf(c) -> BOOLEAN]
          /\ core_result[c] \in [CoresOf(c) -> DoubleWord]

(* Only the cluster the fabric is waiting for computes, and all its cores
   do, whatever the instruction port shows meanwhile: the select that was
   dispatched to the cores (cluster_dispatcher) is the select the response
   mux uses (active_cluster_sel).                                          *)
OnlyTheActiveClusterRuns ==
    \A c \in Clusters : \A i \in CoresOf(c) : core_busy[c][i] =>
        /\ busy
        /\ active_cluster_sel = c
        /\ \A j \in CoresOf(c) : core_busy[c][j]

(* A command that arrives while the fabric is busy does not disturb the one
   it is busy with: the response mux keeps looking at the cluster that was
   started (cluster_fabric_structural.v:125-134).                          *)
SelectHeldWhileBusy ==
    [][busy /\ busy' => active_cluster_sel' = active_cluster_sel]_fabricVars

(* A computation that was launched comes to its end.  The launch is "one-
   cycle" (cluster_fabric.v:23), the core's answer a "one-cycle dot product"
   (mac_3x3.v:39) that raises done, and the fabric stays busy until then.   *)
LaunchesFinish == busy ~> ~busy
=============================================================================
