----------------------------- MODULE ClusterIp ------------------------------
(***************************************************************************)
(* The memory-mapped cluster peripheral, one clock edge at a time: the     *)
(* register file eric_ip2 (src/hps_fpga_Project/eric_ip2.v), the sequencer *)
(* cluster_ctrl and the three mac_2x2 lanes wired up by cluster_top        *)
(* (src/Verilog_srcs/cluster_ip).                                          *)
(*                                                                         *)
(* A step of the clock is the action IpEdge(psel, pwrite, reg, wdata): its *)
(* arguments are the APB signals of the cycle the edge ends.  The register *)
(* reg stands for the word address paddr[5:2].                             *)
(***************************************************************************)
EXTENDS MacWords

VARIABLES
    state,       \* cluster_ctrl.state
    mac_done,    \* the lanes' done flags, one function of the lane
    mac_result,  \* the lanes' result registers
    data_out,    \* eric_ip2.data_out, the 16 registers
    data_temp    \* eric_ip2.data_temp, the APB read data

ipVars == <<state, mac_done, mac_result, data_out, data_temp>>

Lanes == 0 .. 2
Regs == 0 .. 15

INSTRUCTION == 0  \* register 0: the host's instruction
STATUS      == 1  \* register 1: the cluster's status, read-only to the host
DATA        == 2  \* first of the data registers

INST_RESET       == 0
INST_SIGNAL_TX   == 1
INST_TX_COMPLETE == 3

ST_RESET      == "ST_RESET"
ST_READY_RX   == "ST_READY_RX"
ST_ACK_RX     == "ST_ACK_RX"
ST_PROCESSING == "ST_PROCESSING"
ST_DONE       == "ST_DONE"
States == {ST_RESET, ST_READY_RX, ST_ACK_RX, ST_PROCESSING, ST_DONE}

STATUS_RESET      == 0
STATUS_READY_RX   == 3
STATUS_ACK_RX     == 5
STATUS_PROCESSING == 9
STATUS_DONE_TX    == 15

instruction == data_out[INSTRUCTION]

-----------------------------------------------------------------------------
(* cluster_ctrl: combinational outputs and next state *)

StatusOf(s) ==
    CASE s = ST_RESET      -> STATUS_RESET
      [] s = ST_READY_RX   -> STATUS_READY_RX
      [] s = ST_ACK_RX     -> STATUS_ACK_RX
      [] s = ST_PROCESSING -> STATUS_PROCESSING
      [] s = ST_DONE       -> STATUS_DONE_TX
      [] OTHER             -> STATUS_RESET

status == StatusOf(state)

(* &mac_status *)
AllDone == \A l \in Lanes : mac_done[l]

next_state ==
    CASE state = ST_RESET ->
           IF instruction = INST_SIGNAL_TX THEN ST_READY_RX ELSE ST_RESET
      [] state # ST_RESET /\ instruction = INST_RESET -> ST_RESET
      [] state = ST_READY_RX /\ instruction # INST_RESET ->
           IF instruction = INST_TX_COMPLETE THEN ST_ACK_RX ELSE ST_READY_RX
      [] state = ST_ACK_RX /\ instruction # INST_RESET -> ST_PROCESSING
      [] state = ST_PROCESSING /\ instruction # INST_RESET ->
           IF AllDone THEN ST_DONE ELSE ST_PROCESSING
      [] state = ST_DONE /\ instruction # INST_RESET -> ST_DONE
      [] OTHER -> ST_RESET

(* Fault: mac_reset is not lowered in ST_PROCESSING. *)
MacReset_processing(s, inst) == ~ (s = ST_ACK_RX /\ inst # INST_RESET)

(* The lanes leave reset only to compute and to hold their result until it
   has been copied; a function of the state and the instruction because the
   lanes' reset is asynchronous (see MacEdge).                             *)
MacReset(s, inst) ==
    ~ (s \in {ST_ACK_RX, ST_PROCESSING} /\ inst # INST_RESET)

(* Fault: the lanes are started a cycle late. *)
mac_start_late == state = ST_PROCESSING /\ instruction # INST_RESET

mac_start == state = ST_ACK_RX /\ instruction # INST_RESET

(* The cycle in which the results are copied to the register file. *)
cluster_tx_state ==
    state = ST_PROCESSING /\ instruction # INST_RESET /\ AllDone

-----------------------------------------------------------------------------
(* The lanes.  cluster_top gives lane l the four data registers from
   DATA + 4 * l on: a0, a1, b0, b1.                                        *)

Operand(l, k) == data_out[DATA + 4 * l + k]

LaneResult(l) ==
    MacResult(Operand(l, 0), Operand(l, 1), Operand(l, 2), Operand(l, 3))

(* A clock edge at the lanes.  mac_reset is asynchronous: a lane whose reset
   is active once the edge has changed state and instruction is clear.     *)
MacEdge ==
    LET clear == MacReset(state', instruction')
    IN  /\ mac_done' = [l \in Lanes |->
               IF clear THEN FALSE ELSE mac_start \/ mac_done[l]]
        /\ mac_result' = [l \in Lanes |->
               IF clear THEN 0
               ELSE IF mac_start THEN LaneResult(l) ELSE mac_result[l]]

-----------------------------------------------------------------------------
(* Fault: the high word first. *)
ResultWord_swapped(i) ==
    LET r == mac_result[(i - DATA) \div 2]
    IN  IF (i - DATA) % 2 = 0 THEN HiWord(r) ELSE LoWord(r)

(* eric_ip2: the register file.  Lane l's result goes to the two registers
   from DATA + 2 * l on, low word first; the other data registers are
   cleared.                                                                *)

ResultWord(i) ==
    LET r == mac_result[(i - DATA) \div 2]
    IN  IF (i - DATA) % 2 = 0 THEN LoWord(r) ELSE HiWord(r)

(* Fault: the copy does not keep the instruction. *)
CopyResults_noInstruction ==
    data_out' = [i \in Regs |->
        IF i = STATUS THEN status
        ELSE IF i \in DATA .. DATA + 5 THEN ResultWord(i)
        ELSE 0]

(* The cycle that copies the results takes precedence over an APB write in
   the same cycle, which is dropped.                                       *)
CopyResults ==
    data_out' = [i \in Regs |->
        IF i = INSTRUCTION THEN instruction
        ELSE IF i = STATUS THEN status
        ELSE IF i \in DATA .. DATA + 5 THEN ResultWord(i)
        ELSE 0]

(* Fault: register 5 has no arm in the write case. *)
HostWrite_missingArm(psel, pwrite, reg, wdata) ==
    data_out' = [i \in Regs |->
        IF i = STATUS THEN status
        ELSE IF psel /\ pwrite /\ i = reg /\ i # 5 THEN wdata ELSE data_out[i]]

(* Fault: the status register is refreshed only when results are copied. *)
HostWrite_noStatus(psel, pwrite, reg, wdata) ==
    data_out' = [i \in Regs |->
        IF psel /\ pwrite /\ i = reg /\ i # STATUS THEN wdata ELSE data_out[i]]

(* penable is not looked at: an APB write happens at the edge of its setup
   cycle and again at the edge of its access cycle.                        *)
HostWrite(psel, pwrite, reg, wdata) ==
    data_out' = [i \in Regs |->
        IF i = STATUS THEN status
        ELSE IF psel /\ pwrite /\ i = reg THEN wdata ELSE data_out[i]]

IpEdge(psel, pwrite, reg, wdata) ==
    /\ data_temp' = IF psel /\ ~pwrite THEN data_out[reg] ELSE data_temp
    /\ IF cluster_tx_state THEN CopyResults
                           ELSE HostWrite(psel, pwrite, reg, wdata)
    /\ state' = next_state
    /\ MacEdge

(* reset_reset: data_temp has no reset. *)
IpReset ==
    /\ state' = ST_RESET
    /\ mac_done' = [l \in Lanes |-> FALSE]
    /\ mac_result' = [l \in Lanes |-> 0]
    /\ data_out' = [i \in Regs |-> 0]
    /\ UNCHANGED data_temp

IpInit ==
    /\ state = ST_RESET
    /\ mac_done = [l \in Lanes |-> FALSE]
    /\ mac_result = [l \in Lanes |-> 0]
    /\ data_out = [i \in Regs |-> 0]
    /\ data_temp \in Word  \* no reset value

IpTypeOK ==
    /\ state \in States
    /\ mac_done \in [Lanes -> BOOLEAN]
    /\ mac_result \in [Lanes -> DoubleWord]
    /\ data_out \in [Regs -> Word]
    /\ data_temp \in Word
=============================================================================
