------------------------------- MODULE ApbBus -------------------------------
(***************************************************************************)
(* The peripheral behind its bus: the state machine of the APB master      *)
(* (altera_merlin_apb_slave_agent.sv) that turns one bus access of the     *)
(* processor into an APB transfer, composed with ClusterIp.  Both run on   *)
(* the same clock, so every action below but Request is one clock edge.    *)
(*                                                                         *)
(* The processor maps the registers strongly ordered (main.c opens         *)
(* /dev/mem with O_SYNC): it has at most one access outstanding, req.      *)
(* Requests arrive after any delay and the answer may be held back by the  *)
(* interconnect (rp_ready low) for any number of cycles.                   *)
(*                                                                         *)
(* BusSpec leaves the processor free to issue any access of Accesses in    *)
(* any order: it stands for every program, or several at once, that uses   *)
(* the registers.  ClusterHost replaces it by the driver.                  *)
(***************************************************************************)
EXTENDS ClusterIp

CONSTANTS
    Accesses,  \* the accesses of the unconstrained processor
    NoAccess   \* no access is outstanding

VARIABLES
    req,        \* the processor's outstanding access
    apb_state,  \* the agent's state
    cp_data_reg,\* the access the agent is carrying out
    prdata_reg  \* the read data the agent answers with

busVars == <<req, apb_state, cp_data_reg, prdata_reg>>
hwVars == <<state, mac_done, mac_result, data_out, data_temp,
            req, apb_state, cp_data_reg, prdata_reg>>

Access == [write : BOOLEAN, reg : Regs, data : Word]

ReadOf(r)     == [write |-> FALSE, reg |-> r, data |-> 0]
WriteOf(r, v) == [write |-> TRUE, reg |-> r, data |-> v]

ASSUME AccessAssumption ==
    /\ Accesses \subseteq Access
    /\ NoAccess \notin Access

BusInit ==
    /\ IpInit
    /\ req = NoAccess
    /\ apb_state = "IDLE"
    /\ cp_data_reg = ReadOf(0)
    /\ prdata_reg = 0

psel    == apb_state \in {"SET_UP", "ACCESS"}
pwrite  == cp_data_reg.write

(* What happens at every edge outside reset, whatever the agent's state:
   pready is tied high, so the agent samples prdata each cycle.            *)
Edge ==
    /\ IpEdge(psel, pwrite, cp_data_reg.reg, cp_data_reg.data)
    /\ prdata_reg' = data_temp

(* The agent waits: no access, or one still on its way. *)
BusIdle ==
    /\ apb_state = "IDLE"
    /\ Edge
    /\ UNCHANGED <<req, apb_state, cp_data_reg>>

(* cp_valid: the access has arrived. *)
BusAccept ==
    /\ apb_state = "IDLE"
    /\ req # NoAccess
    /\ apb_state' = "SET_UP"
    /\ cp_data_reg' = req
    /\ Edge
    /\ UNCHANGED req

(* Fault: the transfer ends without its access cycle. *)
BusSetUp_short ==
    /\ apb_state = "SET_UP"
    /\ apb_state' = "SEND_RESPONSE"
    /\ Edge
    /\ UNCHANGED <<req, cp_data_reg>>

BusSetUp ==
    /\ apb_state = "SET_UP"
    /\ apb_state' = "ACCESS"
    /\ Edge
    /\ UNCHANGED <<req, cp_data_reg>>

(* Fault: stores are taken for posted writes, which nobody answers. *)
BusAccess_posted ==
    /\ apb_state = "ACCESS"
    /\ apb_state' = IF pwrite THEN "IDLE" ELSE "SEND_RESPONSE"
    /\ Edge
    /\ UNCHANGED <<req, cp_data_reg>>

BusAccess ==
    /\ apb_state = "ACCESS"
    /\ apb_state' = "SEND_RESPONSE"
    /\ Edge
    /\ UNCHANGED <<req, cp_data_reg>>

(* rp_ready is low: the answer waits, and keeps sampling prdata. *)
BusStall ==
    /\ apb_state = "SEND_RESPONSE"
    /\ Edge
    /\ UNCHANGED <<req, apb_state, cp_data_reg>>

(* rp_ready is high: the processor gets prdata_reg, its access is over. *)
BusRespond ==
    /\ apb_state = "SEND_RESPONSE"
    /\ apb_state' = "IDLE"
    /\ req' = NoAccess
    /\ Edge
    /\ UNCHANGED cp_data_reg

(* The edges at which the processor learns nothing. *)
SilentEdge == BusIdle \/ BusAccept \/ BusSetUp \/ BusAccess \/ BusStall

(* The processor starts a load or a store. *)
Request(a) ==
    /\ req = NoAccess
    /\ req' = a
    /\ UNCHANGED <<ipVars, apb_state, cp_data_reg, prdata_reg>>

(* h2f_reset: the processor's reset is the fabric's. *)
BusReset ==
    /\ IpReset
    /\ req' = NoAccess
    /\ apb_state' = "IDLE"
    /\ cp_data_reg' = ReadOf(0)
    /\ prdata_reg' = 0

BusNext ==
    \/ SilentEdge
    \/ BusRespond
    \/ \E a \in Accesses : Request(a)
    \/ BusReset

(* The clock never stops, a request on its way arrives and the interconnect
   takes the answer in the end.                                            *)
BusFairness ==
    /\ WF_hwVars(SilentEdge \/ BusRespond)
    /\ WF_hwVars(BusAccept)
    /\ WF_hwVars(BusRespond)

BusSpec == BusInit /\ [][BusNext]_hwVars /\ BusFairness

-----------------------------------------------------------------------------
(* Properties *)

BusTypeOK ==
    /\ IpTypeOK
    /\ req \in Access \cup {NoAccess}
    /\ apb_state \in {"IDLE", "SET_UP", "ACCESS", "SEND_RESPONSE"}
    /\ cp_data_reg \in Access
    /\ prdata_reg \in Word

(* eric_ip2 drops an APB write that falls in the cycle in which the results
   are copied into the registers (the first branch of its write process
   wins).  No write ever does: the agent is answering the store of
   TX_COMPLETE, or is idle, by the time the copy takes place.              *)
NoWriteDropped == ~ (cluster_tx_state /\ psel /\ pwrite)

(* When the agent answers a store, the register holds the stored word: the
   copy of the results never overtakes a store in progress.  (The status
   register is read-only.)                                                 *)
StoreTookEffect ==
    apb_state = "SEND_RESPONSE" /\ pwrite /\ cp_data_reg.reg # STATUS
        => data_out[cp_data_reg.reg] = cp_data_reg.data

(* The agent samples the read data once per cycle, so an answer that is held
   back carries the sample of the access cycle instead of the one of the
   setup cycle (prdata_reg, altera_merlin_apb_slave_agent.sv).  It makes no
   difference: a load of an instruction or data register is answered with
   the word the register holds, never with one the copy has just replaced. *)
LoadIsExact ==
    apb_state = "SEND_RESPONSE" /\ ~pwrite /\ cp_data_reg.reg # STATUS
        => prdata_reg = data_out[cp_data_reg.reg]

(* The status register lags the state by a cycle and the answer lags the
   register.  Still, a load of the status is answered with the cluster's
   present status, except that PROCESSING may be reported when the cluster
   is already done; ACK_RX, which main.c also defines, is never seen.      *)
StatusIsCurrent ==
    apb_state = "SEND_RESPONSE" /\ ~pwrite /\ cp_data_reg.reg = STATUS
        => \/ prdata_reg = status
           \/ prdata_reg = STATUS_PROCESSING /\ state = ST_DONE

(* Why these hold.  An instruction reaches register 0 at the end of a store's
   setup cycle; whatever it sets off takes the four cycles Arriving, Turned,
   Computing, Finished, during which the agent is busy with the rest of that
   store or has just finished it.  All other states are Settled, and in them
   only a store can move the cluster.                                      *)
status_reg == data_out[STATUS]

Settled ==
    \/ state = ST_RESET    /\ instruction # INST_SIGNAL_TX /\ status_reg = STATUS_RESET
    \/ state = ST_READY_RX /\ instruction \notin {INST_RESET, INST_TX_COMPLETE}
                           /\ status_reg = STATUS_READY_RX
    \/ state = ST_DONE     /\ instruction # INST_RESET /\ status_reg = STATUS_DONE_TX

Storing(phase) ==
    apb_state = phase /\ cp_data_reg = WriteOf(INSTRUCTION, instruction)

Arriving ==
    /\ Storing("ACCESS")
    /\ \/ state = ST_RESET    /\ instruction = INST_SIGNAL_TX   /\ status_reg = STATUS_RESET
       \/ state = ST_READY_RX /\ instruction = INST_RESET       /\ status_reg = STATUS_READY_RX
       \/ state = ST_READY_RX /\ instruction = INST_TX_COMPLETE /\ status_reg = STATUS_READY_RX
       \/ state = ST_DONE     /\ instruction = INST_RESET       /\ status_reg = STATUS_DONE_TX

Turned ==
    /\ Storing("SEND_RESPONSE")
    /\ \/ state = ST_READY_RX /\ instruction = INST_SIGNAL_TX
       \/ state = ST_ACK_RX   /\ instruction = INST_TX_COMPLETE
       \/ state = ST_RESET    /\ instruction = INST_RESET

Computing ==
    /\ apb_state = "IDLE" \/ Storing("SEND_RESPONSE")
    /\ state = ST_PROCESSING /\ instruction = INST_TX_COMPLETE
    /\ AllDone

Finished ==
    /\ apb_state \in {"IDLE", "SET_UP"} \/ Storing("SEND_RESPONSE")
    /\ state = ST_DONE /\ instruction = INST_TX_COMPLETE
    /\ status_reg = STATUS_PROCESSING

Phases == Settled \/ Arriving \/ Turned \/ Computing \/ Finished

(* The agent carries out the outstanding access. *)
InFlight == apb_state # "IDLE" => req = cp_data_reg

(* A transfer has taken effect by the end of its setup cycle. *)
Transferred ==
    LET r == cp_data_reg.reg IN
    apb_state \in {"ACCESS", "SEND_RESPONSE"} =>
        /\ pwrite /\ r # STATUS => data_out[r] = cp_data_reg.data
        /\ ~pwrite /\ r # STATUS => data_temp = data_out[r]
        /\ ~pwrite /\ r = STATUS =>
               data_temp = status \/ (data_temp = STATUS_PROCESSING /\ state = ST_DONE)

BusInv ==
    /\ BusTypeOK
    /\ Phases
    /\ InFlight
    /\ Transferred
    /\ LoadIsExact
    /\ StatusIsCurrent

(* Every access is answered, whatever the cluster is doing: the peripheral
   has no wait states and the agent no path that loses a request.          *)
AccessesAnswered == (req # NoAccess) ~> (req = NoAccess)

(* The computation does not hang in its transient states: once the operands
   are declared complete the results come out, or the cluster is reset.    *)
ComputationEnds ==
    (state = ST_ACK_RX) ~> (state \in {ST_DONE, ST_RESET})
=============================================================================
