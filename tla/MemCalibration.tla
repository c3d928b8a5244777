--------------------------- MODULE MemCalibration ---------------------------
(***************************************************************************)
(* The calibration of the processor's memory from reset to its verdict:    *)
(* run_mem_calibrate of sequencer.c, the loops of mem_calibrate over the   *)
(* groups, and the retries of rw_mgr_mem_calibrate_vfifo.                  *)
(*                                                                         *)
(* A search or centring of a group is one step with an outcome, which is   *)
(* what ReadCentering, WriteCentering and DqsEnable allow: success, a bit  *)
(* without an edge (it is recorded, and the strobe of a read is restored), *)
(* or a margin that is too small (nothing is recorded).  The latency that  *)
(* the memory needs is chosen at the start.                                *)
(***************************************************************************)
EXTENDS Integers

CONSTANTS
    GroupCount,             \* RW_MGR_MEM_IF_WRITE_DQS_WIDTH
    DqPerDqs,               \* bits of a group
    DelayMax,               \* IO_DQS_IN_DELAY_MAX, IO_IO_OUT1_DELAY_MAX
    DqsInReserve,           \* IO_DQS_IN_RESERVE
    DqsOutReserve,          \* IO_DQS_OUT_RESERVE
    DtapsPerPtap,           \* delays tried on the output side, two by two
    StartLatency,           \* rlat + 16
    MaxLatency              \* largest the latency register holds

ASSUME CalibrationAssumption ==
    /\ {GroupCount, DqPerDqs, DelayMax, StartLatency} \subseteq Nat \ {0}
    /\ DqsInReserve \in 0 .. DelayMax
    /\ DqsOutReserve \in Nat /\ DtapsPerPtap \in Nat
    /\ MaxLatency \in Nat /\ StartLatency < MaxLatency

VARIABLES
    pc,
    cal_status,                     \* PHY_MGR_CAL_STATUS
    mux_sel,                        \* PHY_MGR_MUX_SEL: who drives the memory
    tracking, ctrlcfg,              \* bit 22 of CTRL_CONFIG_REG, its copy
    cur_stage,                      \* REG_FILE_CUR_STAGE: [stage, group]
    failing_stage,                  \* REG_FILE_FAILING_STAGE
    error,                          \* gbl->error_*: [stage, substage, group]
    group, d, dqs_in_dtaps,         \* loops
    orig_start_dqs, failed_substage,
    dqs_in, dqs_out,                \* delays of the strobe of each group
    phy_rlat, curr_read_lat, found_one,
    need,                           \* latency the memory needs
    pass,
    calibrated                      \* history: stages each group has passed

hostRegs == <<cal_status, mux_sel, tracking, ctrlcfg>>
reports == <<cur_stage, failing_stage, error>>
loop == <<group, d, dqs_in_dtaps, orig_start_dqs, failed_substage>>
delays == <<dqs_in, dqs_out>>
latency == <<phy_rlat, curr_read_lat, found_one>>
calVars == <<pc, hostRegs, reports, loop, delays, latency, need, pass,
             calibrated>>

-----------------------------------------------------------------------------
Groups == 0 .. GroupCount - 1
NoError == [stage |-> "NIL", substage |-> "NIL", group |-> 255]
Parts == {"read", "write", "after"}

CalInit ==
    /\ pc = "reset"
    /\ cal_status = "unknown" /\ mux_sel = "none"
    /\ tracking \in BOOLEAN /\ ctrlcfg = FALSE
    /\ cur_stage = [stage |-> "NIL", group |-> 0]
    /\ failing_stage = NoError /\ error = NoError
    /\ group = 0 /\ d = 0 /\ dqs_in_dtaps = 0 /\ orig_start_dqs = 0
    /\ failed_substage = "NIL"
    /\ dqs_in = [g \in Groups |-> 0] /\ dqs_out = [g \in Groups |-> 0]
    /\ phy_rlat = 0 /\ curr_read_lat = 0 /\ found_one = FALSE
    /\ need \in 0 .. MaxLatency
    /\ pass = FALSE
    /\ calibrated = [g \in Groups |-> {}]

(* set_failing_group_stage keeps the first failure, whatever becomes of the
   attempt it is from.                                                     *)
Recorded(g, stage, substage) ==
    IF error.stage = "NIL"
    THEN [stage |-> stage, substage |-> substage, group |-> g] ELSE error

(* A failed centring records the number of a bit that has no edge, or else
   its caller records the group.                                           *)
BitNumbers == {group * DqPerDqs + i : i \in 0 .. DqPerDqs - 1}

SetStage(stage) == cur_stage' = [stage |-> stage, group |-> group]
AnyDelay(scc) == \E n \in 0 .. DelayMax : scc' = [scc EXCEPT ![group] = n]
Passed(part) == calibrated' = [calibrated EXCEPT ![group] = @ \cup {part}]

-----------------------------------------------------------------------------
(* Fault: the configuration is saved after it was changed. *)
ResetStatus_savedLate ==
    /\ pc = "reset"
    /\ cal_status' = "RESET"
    /\ tracking' = FALSE /\ ctrlcfg' = tracking'
    /\ pc' = "initialize"
    /\ UNCHANGED <<mux_sel, reports, loop, delays, latency, need, pass,
                   calibrated>>

(* run_mem_calibrate: the status is reset and the tracking stopped, then
   the firmware takes the memory over.                                     *)
ResetStatus ==
    /\ pc = "reset"
    /\ cal_status' = "RESET"
    /\ ctrlcfg' = tracking /\ tracking' = FALSE
    /\ pc' = "initialize"
    /\ UNCHANGED <<mux_sel, reports, loop, delays, latency, need, pass,
                   calibrated>>

initialize ==
    /\ pc = "initialize"
    /\ mux_sel' = "sequencer" /\ cal_status' = "RESET"
    /\ pc' = "config"
    /\ UNCHANGED <<tracking, ctrlcfg, reports, loop, delays, latency, need,
                   pass, calibrated>>

(* scc_mgr_zero_all and, for the output side of a group, scc_mgr_zero_group. *)
ZeroAll == dqs_in' = [g \in Groups |-> DqsInReserve]
ZeroGroup == dqs_out' = [dqs_out EXCEPT ![group] = DqsOutReserve]

(* The beginning of mem_calibrate: mem_config and scc_mgr_zero_all. *)
mem_config ==
    /\ pc = "config"
    /\ error' = NoError
    /\ phy_rlat' = StartLatency /\ curr_read_lat' = StartLatency
    /\ ZeroAll
    /\ group' = 0 /\ pc' = "group"
    /\ UNCHANGED <<hostRegs, cur_stage, failing_stage, d, dqs_in_dtaps,
                   orig_start_dqs, failed_substage, dqs_out, found_one, need,
                   pass, calibrated>>

(* The entry of rw_mgr_mem_calibrate_vfifo. *)
BeginGroup ==
    /\ pc = "group"
    /\ ZeroGroup
    /\ SetStage("VFIFO")
    /\ failed_substage' = "GUARANTEED_READ"
    /\ d' = 0 /\ pc' = "pattern"
    /\ UNCHANGED <<hostRegs, failing_stage, error, group, dqs_in_dtaps,
                   orig_start_dqs, dqs_in, latency, need, pass, calibrated>>

(* Faults: one delay too many; always the same delay. *)
NextShift_oneMore == IF d <= DtapsPerPtap
                     THEN pc' = "shift" /\ d' = d + 2
                     ELSE pc' = "give_up" /\ UNCHANGED d
NextShift_same == IF d + 2 <= DtapsPerPtap
                  THEN pc' = "shift" /\ d' = 2
                  ELSE pc' = "give_up" /\ UNCHANGED d

(* The next delay of the output side, or the end of the retries. *)
NextShift == IF d + 2 <= DtapsPerPtap
             THEN pc' = "shift" /\ d' = d + 2
             ELSE pc' = "give_up" /\ UNCHANGED d

(* scc_mgr_apply_group_all_out_delay_add: the second output delay is fixed
   at 0, so the first is set to the delay that was to be added.            *)
AllOutDelayAdd ==
    /\ pc = "shift"
    /\ dqs_out' = [dqs_out EXCEPT ![group] = d]
    /\ pc' = "pattern"
    /\ UNCHANGED <<hostRegs, reports, loop, dqs_in, latency, need, pass,
                   calibrated>>

(* The guaranteed read; then delays of the strobe are tried from where it
   is, which after a failed attempt is where that attempt ended.           *)
GuaranteedRead ==
    /\ pc = "pattern"
    /\ \/ /\ orig_start_dqs' = dqs_in[group] /\ dqs_in_dtaps' = dqs_in[group]
          /\ pc' = "enable"
          /\ UNCHANGED d
       \/ NextShift /\ UNCHANGED <<orig_start_dqs, dqs_in_dtaps>>
    /\ UNCHANGED <<hostRegs, reports, group, failed_substage, delays, latency,
                   need, pass, calibrated>>

(* The next delay of the strobe, or the next delay of the output side. *)
NextDtap(substage) ==
    /\ failed_substage' = substage
    /\ IF dqs_in_dtaps < DelayMax
       THEN pc' = "enable" /\ dqs_in_dtaps' = dqs_in_dtaps + 1 /\ UNCHANGED d
       ELSE NextShift /\ UNCHANGED dqs_in_dtaps

(* find_dqs_en_phase with the strobe's delay at dqs_in_dtaps; if it finds
   the phase, the delay goes back to orig_start_dqs.                       *)
FindDqsEnPhase ==
    /\ pc = "enable"
    /\ \/ /\ dqs_in' = [dqs_in EXCEPT ![group] = orig_start_dqs]
          /\ pc' = "deskew"
          /\ UNCHANGED <<dqs_in_dtaps, d, failed_substage>>
       \/ /\ dqs_in' = [dqs_in EXCEPT ![group] = dqs_in_dtaps]
          /\ NextDtap("DQS_EN_PHASE")
    /\ UNCHANGED <<hostRegs, reports, group, orig_start_dqs, dqs_out, latency,
                   need, pass, calibrated>>

(* Fault: the delay of the output side stays. *)
DeskewPasses_shifted ==
    /\ pc = "deskew"
    /\ AnyDelay(dqs_in)
    /\ Passed("read")
    /\ pc' = "writes" /\ SetStage("WRITES")
    /\ UNCHANGED <<hostRegs, failing_stage, error, loop, dqs_out, latency, need,
                   pass>>

(* rw_mgr_mem_calibrate_vfifo_center before the writes.  A group that
   needed a delay on its output side has it removed again.                 *)
DeskewPasses ==
    /\ pc = "deskew"
    /\ AnyDelay(dqs_in)
    /\ Passed("read")
    /\ IF d > 0 THEN ZeroGroup ELSE UNCHANGED dqs_out
    /\ pc' = "writes" /\ SetStage("WRITES")
    /\ UNCHANGED <<hostRegs, failing_stage, error, loop, latency, need, pass>>

DeskewFails ==
    /\ pc = "deskew"
    /\ NextDtap("VFIFO_CENTER")
    /\ \/ /\ \E g \in BitNumbers : error' = Recorded(g, "VFIFO", "VFIFO_CENTER")
          /\ UNCHANGED dqs_in
       \/ AnyDelay(dqs_in) /\ UNCHANGED error
    /\ UNCHANGED <<hostRegs, cur_stage, failing_stage, group, orig_start_dqs,
                   dqs_out, latency, need, pass, calibrated>>

Stop == pc' = "release" /\ pass' = FALSE

VfifoGivesUp ==
    /\ pc = "give_up" /\ Stop
    /\ error' = Recorded(group, "VFIFO", failed_substage)
    /\ UNCHANGED <<hostRegs, cur_stage, failing_stage, loop, delays, latency,
                   need, calibrated>>

-----------------------------------------------------------------------------
(* rw_mgr_mem_calibrate_writes.  The strobe returns to where it was unless
   a bit has no edge.                                                      *)
WritesPass ==
    /\ pc = "writes"
    /\ Passed("write")
    /\ pc' = "after" /\ SetStage("VFIFO_AFTER_WRITES")
    /\ UNCHANGED <<hostRegs, failing_stage, error, loop, delays, latency, need,
                   pass>>

(* Fault: the failure is recorded and the calibration goes on. *)
WritesFail_goesOn ==
    /\ pc = "writes" /\ pc' = "after" /\ SetStage("VFIFO_AFTER_WRITES")
    /\ error' = Recorded(group, "WRITES", "WRITES_CENTER")
    /\ UNCHANGED <<hostRegs, failing_stage, loop, delays, latency, need, pass,
                   calibrated>>

WritesFail ==
    /\ pc = "writes" /\ Stop
    /\ \/ /\ \E g \in BitNumbers : error' = Recorded(g, "WRITES", "WRITES_CENTER")
          /\ AnyDelay(dqs_out)
       \/ /\ error' = Recorded(group, "WRITES", "WRITES_CENTER")
          /\ UNCHANGED dqs_out
    /\ UNCHANGED <<hostRegs, cur_stage, failing_stage, loop, dqs_in, latency,
                   need, calibrated>>

(* rw_mgr_mem_calibrate_vfifo_end, then the next group or the latency. *)
AfterPasses ==
    /\ pc = "after"
    /\ Passed("after")
    /\ AnyDelay(dqs_in)
    /\ IF group + 1 < GroupCount
       THEN group' = group + 1 /\ pc' = "group" /\ UNCHANGED cur_stage
       ELSE pc' = "lfifo" /\ SetStage("LFIFO") /\ UNCHANGED group
    /\ UNCHANGED <<hostRegs, failing_stage, error, d, dqs_in_dtaps,
                   orig_start_dqs, failed_substage, dqs_out, latency, need,
                   pass>>

AfterFails ==
    /\ pc = "after" /\ Stop
    /\ \/ /\ \E g \in BitNumbers :
                error' = Recorded(g, "VFIFO_AFTER_WRITES", "VFIFO_CENTER")
          /\ UNCHANGED dqs_in
       \/ /\ error' = Recorded(group, "VFIFO_AFTER_WRITES", "VFIFO_CENTER")
          /\ AnyDelay(dqs_in)
    /\ UNCHANGED <<hostRegs, cur_stage, failing_stage, loop, dqs_out, latency,
                   need, calibrated>>

(* Fault: latency 0 is not tried. *)
LfifoLess_above1 ==
    /\ pc = "lfifo" /\ curr_read_lat >= need
    /\ found_one' = TRUE
    /\ phy_rlat' = curr_read_lat
    /\ curr_read_lat' = curr_read_lat - 1
    /\ pc' = IF curr_read_lat' > 1 THEN pc ELSE "fudge"
    /\ UNCHANGED <<hostRegs, reports, loop, delays, need, pass, calibrated>>

(* rw_mgr_mem_calibrate_lfifo: one latency less in each step while reads
   succeed, then two more.                                                 *)
LfifoLess ==
    /\ pc = "lfifo" /\ curr_read_lat >= need
    /\ found_one' = TRUE
    /\ phy_rlat' = curr_read_lat
    /\ curr_read_lat' = curr_read_lat - 1
    /\ pc' = IF curr_read_lat' > 0 THEN pc ELSE "fudge"
    /\ UNCHANGED <<hostRegs, reports, loop, delays, need, pass, calibrated>>

LfifoFails ==
    /\ pc = "lfifo" /\ curr_read_lat < need
    /\ phy_rlat' = curr_read_lat
    /\ pc' = "fudge"
    /\ UNCHANGED <<hostRegs, reports, loop, delays, curr_read_lat, found_one,
                   need, pass, calibrated>>

LfifoEnds ==
    /\ pc = "fudge"
    /\ IF found_one
       THEN /\ curr_read_lat' = curr_read_lat + 2
            /\ phy_rlat' = curr_read_lat + 2
            /\ pass' = TRUE /\ UNCHANGED error
       ELSE /\ error' = Recorded(255, "LFIFO", "READ_LATENCY")
            /\ pass' = FALSE /\ UNCHANGED <<phy_rlat, curr_read_lat>>
    /\ pc' = "release"
    /\ UNCHANGED <<hostRegs, cur_stage, failing_stage, loop, delays, found_one,
                   need, calibrated>>

-----------------------------------------------------------------------------
(* The rest of run_mem_calibrate: rw_mgr_mem_handoff and the multiplexer,
   the controller's configuration, the verdict.                            *)
HandOff ==
    /\ pc = "release"
    /\ mux_sel' = "controller"
    /\ pc' = "restore"
    /\ UNCHANGED <<cal_status, tracking, ctrlcfg, reports, loop, delays,
                   latency, need, pass, calibrated>>

RestoreConfig ==
    /\ pc = "restore"
    /\ tracking' = ctrlcfg
    /\ pc' = "report"
    /\ UNCHANGED <<cal_status, mux_sel, ctrlcfg, reports, loop, delays, latency,
                   need, pass, calibrated>>

(* Fault: the failing stage is left to UpdateFailure. *)
PublishFailure_left ==
    /\ pc = "report" /\ ~pass
    /\ pc' = "verdict"
    /\ UNCHANGED <<hostRegs, reports, loop, delays, latency, need, pass,
                   calibrated>>

(* The failing stage is published before the verdict, and once more after
   it; on a success it is left alone.                                      *)
PublishFailure ==
    /\ pc = "report" /\ ~pass
    /\ failing_stage' = error
    /\ pc' = "verdict"
    /\ UNCHANGED <<hostRegs, cur_stage, error, loop, delays, latency, need,
                   pass, calibrated>>

ReportResult ==
    /\ \/ /\ pc = "report" /\ pass
          /\ cal_status' = "SUCCESS" /\ pc' = "done"
       \/ /\ pc = "verdict"
          /\ cal_status' = "FAIL" /\ pc' = "update"
    /\ UNCHANGED <<mux_sel, tracking, ctrlcfg, reports, loop, delays, latency,
                   need, pass, calibrated>>

UpdateFailure ==
    /\ pc = "update"
    /\ failing_stage' = error
    /\ pc' = "done"
    /\ UNCHANGED <<hostRegs, cur_stage, error, loop, delays, latency, need,
                   pass, calibrated>>

Finished == pc = "done" /\ UNCHANGED calVars

CalNext ==
    \/ ResetStatus \/ initialize \/ mem_config \/ BeginGroup \/ AllOutDelayAdd
    \/ GuaranteedRead \/ FindDqsEnPhase \/ DeskewPasses \/ DeskewFails
    \/ VfifoGivesUp \/ WritesPass \/ WritesFail \/ AfterPasses \/ AfterFails
    \/ LfifoLess \/ LfifoFails
    \/ LfifoEnds \/ HandOff \/ RestoreConfig
    \/ PublishFailure \/ ReportResult \/ UpdateFailure \/ Finished

CalFairness == WF_calVars(CalNext)
CalSpec == CalInit /\ [][CalNext]_calVars /\ CalFairness

-----------------------------------------------------------------------------
Stages == {"NIL", "VFIFO", "WRITES", "VFIFO_AFTER_WRITES", "LFIFO"}
Substages == {"NIL", "GUARANTEED_READ", "DQS_EN_PHASE", "VFIFO_CENTER",
              "WRITES_CENTER", "READ_LATENCY"}
ErrorRecord == [stage : Stages, substage : Substages, group : Nat]

ControlOK ==
    /\ pc \in {"reset", "initialize", "config", "group", "pattern", "shift",
               "enable", "deskew", "give_up", "writes", "after", "lfifo",
               "fudge", "release", "restore", "report", "verdict", "update", "done"}
    /\ cal_status \in {"unknown", "RESET", "SUCCESS", "FAIL"}
    /\ mux_sel \in {"none", "sequencer", "controller"}
    /\ tracking \in BOOLEAN /\ ctrlcfg \in BOOLEAN
ReportsOK ==
    /\ cur_stage \in [stage : Stages, group : Groups]
    /\ failing_stage \in ErrorRecord /\ error \in ErrorRecord
LoopOK ==
    /\ group \in Groups /\ d \in 0 .. DtapsPerPtap
    /\ dqs_in_dtaps \in 0 .. DelayMax /\ orig_start_dqs \in 0 .. DelayMax
    /\ failed_substage \in Substages
DelaysOK ==
    /\ dqs_in \in [Groups -> 0 .. DelayMax]
    /\ dqs_out \in [Groups -> Nat]
LatencyOK ==
    /\ phy_rlat \in 0 .. MaxLatency /\ curr_read_lat \in 0 .. MaxLatency
    /\ found_one \in BOOLEAN /\ need \in 0 .. MaxLatency
HistoryOK == pass \in BOOLEAN /\ calibrated \in [Groups -> SUBSET Parts]

(* Every delay, latency and record is in its range. *)
TypeOK == ControlOK /\ ReportsOK /\ LoopOK /\ DelaysOK /\ LatencyOK /\ HistoryOK

(* SUCCESS is reported only if every group has passed all three of its
   centrings, whatever attempts failed on the way, and the latency that is
   left in the register suffices.                                          *)
SuccessIsEarned ==
    cal_status = "SUCCESS" =>
        (\A g \in Groups : calibrated[g] = Parts) /\ phy_rlat >= need

(* The latency that is left is one more than the least with which all
   reads passed, also where the search goes down to 0.                     *)
LatencyIsLeast ==
    cal_status = "SUCCESS" => phy_rlat = (IF need = 0 THEN 1 ELSE need) + 1

(* The writes of a group are centred with the strobe at its reserved delay,
   also if the reads needed other delays of the output side; the centring
   of the writes leaves the strobe where it starts.                        *)
WritesStartAtReserve ==
    pc \in {"writes", "after"} => dqs_out[group] = DqsOutReserve

(* Who sees FAIL finds the failing stage in the register file already, the
   first failure that was recorded in any attempt, not only when the second
   write is done; and the record of an attempt that failed never shows in a
   calibration that succeeds in the end.                                   *)
FailureIsNamed ==
    /\ cal_status = "FAIL" => error.stage /= "NIL" /\ failing_stage = error
    /\ failing_stage.stage /= "NIL" => ~pass /\ cal_status /= "SUCCESS"

(* The calibration ends with a verdict. *)
CalibrationEnds == <>(cal_status \in {"SUCCESS", "FAIL"})

(* All groups have passed, and the latency has been found and suffices. *)
Usable == /\ \A g \in Groups : calibrated[g] = Parts
          /\ found_one /\ phy_rlat >= need

Service ==
    INSTANCE CalibrationService WITH
        owner <- mux_sel, status <- cal_status, track <- tracking,
        before <- ctrlcfg, usable <- Usable
(* Boot code and controller see the promise of CalibrationService. *)
ImplementsService == Service!ServiceSpec

-----------------------------------------------------------------------------
(* The assertion of set_failing_group_stage, "group <
   RW_MGR_MEM_IF_WRITE_DQS_WIDTH".  (It fails: the centrings hand over the
   number of a bit.)                                                       *)
FailingGroupIsGroup == error.stage /= "NIL" => error.group < GroupCount
=============================================================================
