------------------------ MODULE MemCalibrationProofs ------------------------
(***************************************************************************)
(* For any number of groups, any delays and any latency: what the status   *)
(* of the calibration means, by an inductive invariant that ties the       *)
(* progress of the loops to the stages the groups have passed.             *)
(***************************************************************************)
EXTENDS MemCalibration, TLAPS

Reported == {"verdict", "update", "done"}
Reporting == {"release", "restore", "report"} \cup Reported

(* The groups before the present one are done; the present one has passed
   the stages before pc.                                                   *)
Progress ==
    /\ pc \in {"group", "pattern", "shift", "enable", "deskew", "give_up",
               "writes", "after"} =>
          \A g \in Groups : g < group => calibrated[g] = Parts
    /\ pc = "writes" => "read" \in calibrated[group]
    /\ pc = "after" => {"read", "write"} \subseteq calibrated[group]
    /\ pc \in {"lfifo", "fudge"} => \A g \in Groups : calibrated[g] = Parts

(* The latency is tried from the start down, and one too many. *)
Search ==
    /\ pc \notin {"reset", "initialize", "config", "lfifo", "fudge"} \cup Reporting
          => ~found_one /\ curr_read_lat = StartLatency
    /\ pc \in {"lfifo", "fudge"} => curr_read_lat <= StartLatency
    /\ pc = "lfifo" => /\ curr_read_lat >= 1
                       /\ found_one => /\ curr_read_lat + 1 >= need
                                       /\ curr_read_lat < StartLatency
    /\ pc = "fudge" /\ found_one =>
          /\ curr_read_lat < StartLatency
          /\ curr_read_lat + 1 = (IF need = 0 THEN 1 ELSE need)
    /\ pc \in {"reset", "initialize", "config"} => ~found_one

(* The verdict. *)
Verdict ==
    /\ pass => /\ pc \in Reporting /\ found_one
               /\ \A g \in Groups : calibrated[g] = Parts
               /\ phy_rlat = (IF need = 0 THEN 1 ELSE need) + 1
    /\ pc \in Reporting /\ ~pass => error.stage /= "NIL"
    /\ pc \notin {"update", "done"} => cal_status \in {"unknown", "RESET"}
    /\ cal_status = "SUCCESS" => pass
    /\ cal_status = "FAIL" => ~pass
    /\ pc \in {"verdict", "update"} => ~pass
    /\ pc \in Reported /\ ~pass => failing_stage = error
    /\ pc \notin Reported \/ pass => failing_stage.stage = "NIL"

Strobe == pc \in {"writes", "after"} => dqs_out[group] = DqsOutReserve

(* The strobe is moved only for an attempt other than the first. *)
Unshifted ==
    /\ pc = "shift" => d > 0
    /\ pc \in {"pattern", "enable", "deskew"} /\ d = 0 =>
          dqs_out[group] = DqsOutReserve

(* Who drives the memory, and what the status and the tracking then are. *)
Working == {"config", "group", "pattern", "shift", "enable", "deskew",
            "give_up", "writes", "after", "lfifo", "fudge", "release"}
Ownership ==
    /\ pc \in {"reset", "initialize"} => mux_sel = "none"
    /\ pc \in Working => mux_sel = "sequencer"
    /\ pc \in {"restore", "report"} \cup Reported => mux_sel = "controller"
    /\ pc = "reset" => cal_status = "unknown"
    /\ pc \notin {"reset", "update", "done"} => cal_status = "RESET"
    /\ pc \in {"report", "verdict"} => tracking = ctrlcfg

CalInv == Ownership /\ TypeOK /\ Progress /\ Search /\ Verdict /\ Strobe /\ Unshifted

LEMMA ConstantsNat ==
    /\ GroupCount \in Nat \ {0} /\ DqPerDqs \in Nat \ {0}
    /\ DelayMax \in Nat \ {0} /\ StartLatency \in Nat \ {0}
  BY CalibrationAssumption

(* What set_failing_group_stage leaves is a record. *)
LEMMA RecordedType ==
    ASSUME error \in ErrorRecord,
           NEW g \in Nat, NEW stage \in Stages, NEW substage \in Substages
    PROVE  Recorded(g, stage, substage) \in ErrorRecord
  BY DEF Recorded, ErrorRecord

LEMMA GroupIsNat ==
    ASSUME TypeOK
    PROVE  group \in Nat
  BY CalibrationAssumption DEF TypeOK, LoopOK, Groups

LEMMA BitNumbersNat ==
    ASSUME TypeOK
    PROVE  BitNumbers \subseteq Nat
<1> SUFFICES ASSUME NEW i \in 0 .. DqPerDqs - 1
             PROVE  group * DqPerDqs + i \in Nat
  BY DEF BitNumbers
<1>1. group \in Nat /\ DqPerDqs \in Nat /\ i \in Nat
  BY CalibrationAssumption, GroupIsNat
<1>2. \A a, b \in Nat : a * b \in Nat
  OBVIOUS
<1> QED
  BY <1>1, <1>2

LEMMA TypeStep ==
    ASSUME CalInv, [CalNext]_calVars
    PROVE  TypeOK'
<1> USE CalibrationAssumption
<1> USE DEF CalInv, TypeOK, hostRegs, reports, loop, delays, latency
<1>1. CASE ResetStatus
  <2>1. ControlOK'
    BY <1>1 DEF ResetStatus, ControlOK
  <2>2. ReportsOK'
    BY <1>1 DEF ResetStatus, ReportsOK, LoopOK, Stages, Substages
  <2>3. LoopOK'
    BY <1>1 DEF ResetStatus, LoopOK, DelaysOK, Groups, Substages
  <2>4. DelaysOK'
    BY <1>1 DEF ResetStatus, DelaysOK, LoopOK, Groups
  <2>5. LatencyOK'
    BY <1>1 DEF ResetStatus, LatencyOK, Search
  <2>6. HistoryOK'
    BY <1>1 DEF ResetStatus, HistoryOK, Parts
  <2> QED
    BY <2>1, <2>2, <2>3, <2>4, <2>5, <2>6
<1>2. CASE initialize
  BY <1>2 DEF initialize, ControlOK, ReportsOK, LoopOK, DelaysOK, LatencyOK, HistoryOK
<1>3. CASE mem_config
  <2>1. ControlOK'
    BY <1>3 DEF mem_config, ZeroAll, NoError, ControlOK
  <2>2. ReportsOK'
    BY <1>3 DEF mem_config, ZeroAll, NoError, ReportsOK, LoopOK, Stages, Substages, ErrorRecord
  <2>3. LoopOK'
    BY <1>3 DEF mem_config, ZeroAll, NoError, LoopOK, DelaysOK, Groups, Substages
  <2>4. DelaysOK'
    BY <1>3 DEF mem_config, ZeroAll, NoError, DelaysOK, LoopOK, Groups
  <2>5. LatencyOK'
    BY <1>3 DEF mem_config, ZeroAll, NoError, LatencyOK, Search
  <2>6. HistoryOK'
    BY <1>3 DEF mem_config, ZeroAll, NoError, HistoryOK, Parts
  <2> QED
    BY <2>1, <2>2, <2>3, <2>4, <2>5, <2>6
<1>4. CASE BeginGroup
  <2>1. ControlOK'
    BY <1>4 DEF BeginGroup, ZeroGroup, SetStage, ControlOK
  <2>2. ReportsOK'
    BY <1>4 DEF BeginGroup, ZeroGroup, SetStage, ReportsOK, LoopOK, Stages, Substages
  <2>3. LoopOK'
    BY <1>4 DEF BeginGroup, ZeroGroup, SetStage, LoopOK, DelaysOK, Groups, Substages
  <2>4. DelaysOK'
    BY <1>4 DEF BeginGroup, ZeroGroup, SetStage, DelaysOK, LoopOK, Groups
  <2>5. LatencyOK'
    BY <1>4 DEF BeginGroup, ZeroGroup, SetStage, LatencyOK, Search
  <2>6. HistoryOK'
    BY <1>4 DEF BeginGroup, ZeroGroup, SetStage, HistoryOK, Parts
  <2> QED
    BY <2>1, <2>2, <2>3, <2>4, <2>5, <2>6
<1>5. CASE AllOutDelayAdd
  <2>1. ControlOK'
    BY <1>5 DEF AllOutDelayAdd, ControlOK
  <2>2. ReportsOK'
    BY <1>5 DEF AllOutDelayAdd, ReportsOK, LoopOK, Stages, Substages
  <2>3. LoopOK'
    BY <1>5 DEF AllOutDelayAdd, LoopOK, DelaysOK, Groups, Substages
  <2>4. DelaysOK'
    BY <1>5 DEF AllOutDelayAdd, DelaysOK, LoopOK, Groups
  <2>5. LatencyOK'
    BY <1>5 DEF AllOutDelayAdd, LatencyOK, Search
  <2>6. HistoryOK'
    BY <1>5 DEF AllOutDelayAdd, HistoryOK, Parts
  <2> QED
    BY <2>1, <2>2, <2>3, <2>4, <2>5, <2>6
<1>6. CASE GuaranteedRead
  <2>1. ControlOK'
    BY <1>6 DEF GuaranteedRead, NextShift, ControlOK
  <2>2. ReportsOK'
    BY <1>6 DEF GuaranteedRead, NextShift, ReportsOK, LoopOK, Stages, Substages
  <2>3. LoopOK'
    BY <1>6 DEF GuaranteedRead, NextShift, LoopOK, DelaysOK, Groups, Substages
  <2>4. DelaysOK'
    BY <1>6 DEF GuaranteedRead, NextShift, DelaysOK, LoopOK, Groups
  <2>5. LatencyOK'
    BY <1>6 DEF GuaranteedRead, NextShift, LatencyOK, Search
  <2>6. HistoryOK'
    BY <1>6 DEF GuaranteedRead, NextShift, HistoryOK, Parts
  <2> QED
    BY <2>1, <2>2, <2>3, <2>4, <2>5, <2>6
<1>7. CASE FindDqsEnPhase
  <2>1. ControlOK'
    BY <1>7 DEF FindDqsEnPhase, NextDtap, NextShift, ControlOK
  <2>2. ReportsOK'
    BY <1>7 DEF FindDqsEnPhase, NextDtap, NextShift, ReportsOK, LoopOK, Stages, Substages
  <2>3. LoopOK'
    BY <1>7 DEF FindDqsEnPhase, NextDtap, NextShift, LoopOK, DelaysOK, Groups, Substages
  <2>4. DelaysOK'
    BY <1>7 DEF FindDqsEnPhase, NextDtap, NextShift, DelaysOK, LoopOK, Groups
  <2>5. LatencyOK'
    BY <1>7 DEF FindDqsEnPhase, NextDtap, NextShift, LatencyOK, Search
  <2>6. HistoryOK'
    BY <1>7 DEF FindDqsEnPhase, NextDtap, NextShift, HistoryOK, Parts
  <2> QED
    BY <2>1, <2>2, <2>3, <2>4, <2>5, <2>6
<1>8. CASE DeskewPasses
  <2>1. ControlOK'
    BY <1>8 DEF DeskewPasses, ZeroGroup, AnyDelay, Passed, SetStage, ControlOK
  <2>2. ReportsOK'
    BY <1>8 DEF DeskewPasses, ZeroGroup, AnyDelay, Passed, SetStage, ReportsOK, LoopOK, Stages, Substages
  <2>3. LoopOK'
    BY <1>8 DEF DeskewPasses, ZeroGroup, AnyDelay, Passed, SetStage, LoopOK, DelaysOK, Groups, Substages
  <2>4. DelaysOK'
    BY <1>8 DEF DeskewPasses, ZeroGroup, AnyDelay, Passed, SetStage, DelaysOK, LoopOK, Groups
  <2>5. LatencyOK'
    BY <1>8 DEF DeskewPasses, ZeroGroup, AnyDelay, Passed, SetStage, LatencyOK, Search
  <2>6. HistoryOK'
    BY <1>8 DEF DeskewPasses, ZeroGroup, AnyDelay, Passed, SetStage, HistoryOK, Parts
  <2> QED
    BY <2>1, <2>2, <2>3, <2>4, <2>5, <2>6
<1>9. CASE DeskewFails
  <2>1. ControlOK'
    BY <1>9 DEF DeskewFails, AnyDelay, NextDtap, NextShift, ControlOK
  <2>2. ReportsOK'
    BY <1>9, RecordedType, BitNumbersNat, GroupIsNat DEF DeskewFails, AnyDelay, NextDtap, NextShift, ReportsOK, LoopOK, Stages, Substages
  <2>3. LoopOK'
    BY <1>9 DEF DeskewFails, AnyDelay, NextDtap, NextShift, LoopOK, DelaysOK, Groups, Substages
  <2>4. DelaysOK'
    BY <1>9 DEF DeskewFails, AnyDelay, NextDtap, NextShift, DelaysOK, LoopOK, Groups
  <2>5. LatencyOK'
    BY <1>9 DEF DeskewFails, AnyDelay, NextDtap, NextShift, LatencyOK, Search
  <2>6. HistoryOK'
    BY <1>9 DEF DeskewFails, AnyDelay, NextDtap, NextShift, HistoryOK, Parts
  <2> QED
    BY <2>1, <2>2, <2>3, <2>4, <2>5, <2>6
<1>10. CASE VfifoGivesUp
  <2>1. ControlOK'
    BY <1>10 DEF VfifoGivesUp, Stop, ControlOK
  <2>2. ReportsOK'
    BY <1>10, RecordedType, BitNumbersNat, GroupIsNat DEF VfifoGivesUp, Stop, ReportsOK, LoopOK, Stages, Substages
  <2>3. LoopOK'
    BY <1>10 DEF VfifoGivesUp, Stop, LoopOK, DelaysOK, Groups, Substages
  <2>4. DelaysOK'
    BY <1>10 DEF VfifoGivesUp, Stop, DelaysOK, LoopOK, Groups
  <2>5. LatencyOK'
    BY <1>10 DEF VfifoGivesUp, Stop, LatencyOK, Search
  <2>6. HistoryOK'
    BY <1>10 DEF VfifoGivesUp, Stop, HistoryOK, Parts
  <2> QED
    BY <2>1, <2>2, <2>3, <2>4, <2>5, <2>6
<1>11. CASE WritesPass
  <2>1. ControlOK'
    BY <1>11 DEF WritesPass, Passed, SetStage, ControlOK
  <2>2. ReportsOK'
    BY <1>11 DEF WritesPass, Passed, SetStage, ReportsOK, LoopOK, Stages, Substages
  <2>3. LoopOK'
    BY <1>11 DEF WritesPass, Passed, SetStage, LoopOK, DelaysOK, Groups, Substages
  <2>4. DelaysOK'
    BY <1>11 DEF WritesPass, Passed, SetStage, DelaysOK, LoopOK, Groups
  <2>5. LatencyOK'
    BY <1>11 DEF WritesPass, Passed, SetStage, LatencyOK, Search
  <2>6. HistoryOK'
    BY <1>11 DEF WritesPass, Passed, SetStage, HistoryOK, Parts
  <2> QED
    BY <2>1, <2>2, <2>3, <2>4, <2>5, <2>6
<1>12. CASE WritesFail
  <2>1. ControlOK'
    BY <1>12 DEF WritesFail, Stop, AnyDelay, ControlOK
  <2>2. ReportsOK'
    BY <1>12, RecordedType, BitNumbersNat, GroupIsNat DEF WritesFail, Stop, AnyDelay, ReportsOK, LoopOK, Stages, Substages
  <2>3. LoopOK'
    BY <1>12 DEF WritesFail, Stop, AnyDelay, LoopOK, DelaysOK, Groups, Substages
  <2>4. DelaysOK'
    BY <1>12 DEF WritesFail, Stop, AnyDelay, DelaysOK, LoopOK, Groups
  <2>5. LatencyOK'
    BY <1>12 DEF WritesFail, Stop, AnyDelay, LatencyOK, Search
  <2>6. HistoryOK'
    BY <1>12 DEF WritesFail, Stop, AnyDelay, HistoryOK, Parts
  <2> QED
    BY <2>1, <2>2, <2>3, <2>4, <2>5, <2>6
<1>13. CASE AfterPasses
  <2>1. ControlOK'
    BY <1>13 DEF AfterPasses, Passed, AnyDelay, SetStage, ControlOK
  <2>2. ReportsOK'
    BY <1>13 DEF AfterPasses, Passed, AnyDelay, SetStage, ReportsOK, LoopOK, Stages, Substages
  <2>3. LoopOK'
    BY <1>13 DEF AfterPasses, Passed, AnyDelay, SetStage, LoopOK, DelaysOK, Groups, Substages
  <2>4. DelaysOK'
    BY <1>13 DEF AfterPasses, Passed, AnyDelay, SetStage, DelaysOK, LoopOK, Groups
  <2>5. LatencyOK'
    BY <1>13 DEF AfterPasses, Passed, AnyDelay, SetStage, LatencyOK, Search
  <2>6. HistoryOK'
    BY <1>13 DEF AfterPasses, Passed, AnyDelay, SetStage, HistoryOK, Parts
  <2> QED
    BY <2>1, <2>2, <2>3, <2>4, <2>5, <2>6
<1>14. CASE AfterFails
  <2>1. ControlOK'
    BY <1>14 DEF AfterFails, Stop, AnyDelay, ControlOK
  <2>2. ReportsOK'
    BY <1>14, RecordedType, BitNumbersNat, GroupIsNat DEF AfterFails, Stop, AnyDelay, ReportsOK, LoopOK, Stages, Substages
  <2>3. LoopOK'
    BY <1>14 DEF AfterFails, Stop, AnyDelay, LoopOK, DelaysOK, Groups, Substages
  <2>4. DelaysOK'
    BY <1>14 DEF AfterFails, Stop, AnyDelay, DelaysOK, LoopOK, Groups
  <2>5. LatencyOK'
    BY <1>14 DEF AfterFails, Stop, AnyDelay, LatencyOK, Search
  <2>6. HistoryOK'
    BY <1>14 DEF AfterFails, Stop, AnyDelay, HistoryOK, Parts
  <2> QED
    BY <2>1, <2>2, <2>3, <2>4, <2>5, <2>6
<1>15. CASE LfifoLess
  <2>1. ControlOK'
    BY <1>15 DEF LfifoLess, ControlOK
  <2>2. ReportsOK'
    BY <1>15 DEF LfifoLess, ReportsOK, LoopOK, Stages, Substages
  <2>3. LoopOK'
    BY <1>15 DEF LfifoLess, LoopOK, DelaysOK, Groups, Substages
  <2>4. DelaysOK'
    BY <1>15 DEF LfifoLess, DelaysOK, LoopOK, Groups
  <2>5. LatencyOK'
    BY <1>15 DEF LfifoLess, LatencyOK, Search
  <2>6. HistoryOK'
    BY <1>15 DEF LfifoLess, HistoryOK, Parts
  <2> QED
    BY <2>1, <2>2, <2>3, <2>4, <2>5, <2>6
<1>16. CASE LfifoFails
  <2>1. ControlOK'
    BY <1>16 DEF LfifoFails, ControlOK
  <2>2. ReportsOK'
    BY <1>16 DEF LfifoFails, ReportsOK, LoopOK, Stages, Substages
  <2>3. LoopOK'
    BY <1>16 DEF LfifoFails, LoopOK, DelaysOK, Groups, Substages
  <2>4. DelaysOK'
    BY <1>16 DEF LfifoFails, DelaysOK, LoopOK, Groups
  <2>5. LatencyOK'
    BY <1>16 DEF LfifoFails, LatencyOK, Search
  <2>6. HistoryOK'
    BY <1>16 DEF LfifoFails, HistoryOK, Parts
  <2> QED
    BY <2>1, <2>2, <2>3, <2>4, <2>5, <2>6
<1>17. CASE LfifoEnds
  <2>1. ControlOK'
    BY <1>17 DEF LfifoEnds, ControlOK
  <2>2. ReportsOK'
    BY <1>17, RecordedType, BitNumbersNat, GroupIsNat DEF LfifoEnds, ReportsOK, LoopOK, Stages, Substages
  <2>3. LoopOK'
    BY <1>17 DEF LfifoEnds, LoopOK, DelaysOK, Groups, Substages
  <2>4. DelaysOK'
    BY <1>17 DEF LfifoEnds, DelaysOK, LoopOK, Groups
  <2>5. LatencyOK'
    BY <1>17 DEF LfifoEnds, LatencyOK, Search
  <2>6. HistoryOK'
    BY <1>17 DEF LfifoEnds, HistoryOK, Parts
  <2> QED
    BY <2>1, <2>2, <2>3, <2>4, <2>5, <2>6
<1>18. CASE HandOff
  BY <1>18 DEF HandOff, ControlOK, ReportsOK, LoopOK, DelaysOK, LatencyOK, HistoryOK
<1>19. CASE RestoreConfig
  BY <1>19 DEF RestoreConfig, ControlOK, ReportsOK, LoopOK, DelaysOK, LatencyOK, HistoryOK
<1>20. CASE ReportResult
  <2>1. ControlOK'
    BY <1>20 DEF ReportResult, ControlOK
  <2>2. ReportsOK'
    BY <1>20 DEF ReportResult, ReportsOK, LoopOK, Stages, Substages
  <2>3. LoopOK'
    BY <1>20 DEF ReportResult, LoopOK, DelaysOK, Groups, Substages
  <2>4. DelaysOK'
    BY <1>20 DEF ReportResult, DelaysOK, LoopOK, Groups
  <2>5. LatencyOK'
    BY <1>20 DEF ReportResult, LatencyOK, Search
  <2>6. HistoryOK'
    BY <1>20 DEF ReportResult, HistoryOK, Parts
  <2> QED
    BY <2>1, <2>2, <2>3, <2>4, <2>5, <2>6
<1>21. CASE Finished
  BY <1>21 DEF Finished, calVars, ControlOK, ReportsOK, LoopOK, DelaysOK, LatencyOK, HistoryOK
<1>22. CASE UNCHANGED calVars
  BY <1>22 DEF calVars, ControlOK, ReportsOK, LoopOK, DelaysOK, LatencyOK, HistoryOK
<1>23. CASE PublishFailure
  <2>1. ControlOK'
    BY <1>23 DEF PublishFailure, ControlOK
  <2>2. ReportsOK'
    BY <1>23 DEF PublishFailure, ReportsOK, LoopOK, Stages, Substages
  <2>3. LoopOK'
    BY <1>23 DEF PublishFailure, LoopOK, DelaysOK, Groups, Substages
  <2>4. DelaysOK'
    BY <1>23 DEF PublishFailure, DelaysOK, LoopOK, Groups
  <2>5. LatencyOK'
    BY <1>23 DEF PublishFailure, LatencyOK, Search
  <2>6. HistoryOK'
    BY <1>23 DEF PublishFailure, HistoryOK, Parts
  <2> QED
    BY <2>1, <2>2, <2>3, <2>4, <2>5, <2>6
<1>24. CASE UpdateFailure
  <2>1. ControlOK'
    BY <1>24 DEF UpdateFailure, ControlOK
  <2>2. ReportsOK'
    BY <1>24 DEF UpdateFailure, ReportsOK, LoopOK, Stages, Substages
  <2>3. LoopOK'
    BY <1>24 DEF UpdateFailure, LoopOK, DelaysOK, Groups, Substages
  <2>4. DelaysOK'
    BY <1>24 DEF UpdateFailure, DelaysOK, LoopOK, Groups
  <2>5. LatencyOK'
    BY <1>24 DEF UpdateFailure, LatencyOK, Search
  <2>6. HistoryOK'
    BY <1>24 DEF UpdateFailure, HistoryOK, Parts
  <2> QED
    BY <2>1, <2>2, <2>3, <2>4, <2>5, <2>6
<1> QED
  BY <1>1, <1>2, <1>3, <1>4, <1>5, <1>6, <1>7, <1>8, <1>9, <1>10, <1>11, <1>12, <1>13, <1>14, <1>15, <1>16, <1>17, <1>18, <1>19, <1>20, <1>21, <1>22, <1>23, <1>24 DEF CalNext

LEMMA ProgressStep ==
    ASSUME CalInv, [CalNext]_calVars
    PROVE  Progress'
<1> USE CalibrationAssumption
<1> USE DEF CalInv, TypeOK, LoopOK, HistoryOK, Progress, hostRegs, reports, loop, delays, latency, Groups, Parts
<1>1. CASE ResetStatus
  BY <1>1 DEF ResetStatus
<1>2. CASE initialize
  BY <1>2 DEF initialize
<1>3. CASE mem_config
  BY <1>3 DEF mem_config, ZeroAll
<1>4. CASE BeginGroup
  BY <1>4 DEF BeginGroup, ZeroGroup, SetStage
<1>5. CASE AllOutDelayAdd
  BY <1>5 DEF AllOutDelayAdd
<1>6. CASE GuaranteedRead
  BY <1>6 DEF GuaranteedRead, NextShift
<1>7. CASE FindDqsEnPhase
  BY <1>7 DEF FindDqsEnPhase, NextDtap, NextShift
<1>8. CASE DeskewPasses
  BY <1>8 DEF DeskewPasses, ZeroGroup, AnyDelay, Passed, SetStage
<1>9. CASE DeskewFails
  BY <1>9 DEF DeskewFails, AnyDelay, NextDtap, NextShift, Recorded, BitNumbers
<1>10. CASE VfifoGivesUp
  BY <1>10 DEF VfifoGivesUp, Stop, Recorded
<1>11. CASE WritesPass
  BY <1>11 DEF WritesPass, Passed, SetStage
<1>12. CASE WritesFail
  BY <1>12 DEF WritesFail, Stop, Recorded, BitNumbers, AnyDelay
<1>13. CASE AfterPasses
  <2> USE <1>13 DEF AfterPasses
  <2>1. calibrated'[group] = Parts
    BY DEF Passed
  <2>2. \A g \in Groups \ {group} : calibrated'[g] = calibrated[g]
    BY DEF Passed
  <2>3. \A g \in Groups : g < group + 1 => calibrated'[g] = Parts
    BY <2>1, <2>2
  <2>4. CASE group + 1 < GroupCount
    BY <2>3, <2>4
  <2>5. CASE ~(group + 1 < GroupCount)
    <3>1. \A g \in Groups : g < group + 1
      BY <2>5, ConstantsNat
    <3> QED
      BY <2>3, <2>5, <3>1 DEF SetStage
  <2> QED
    BY <2>4, <2>5
<1>14. CASE AfterFails
  BY <1>14 DEF AfterFails, Stop, Recorded, BitNumbers, AnyDelay
<1>15. CASE LfifoLess
  BY <1>15 DEF LfifoLess
<1>16. CASE LfifoFails
  BY <1>16 DEF LfifoFails
<1>17. CASE LfifoEnds
  BY <1>17 DEF LfifoEnds, Recorded
<1>18. CASE HandOff
  BY <1>18 DEF HandOff
<1>19. CASE RestoreConfig
  BY <1>19 DEF RestoreConfig
<1>20. CASE ReportResult
  BY <1>20 DEF ReportResult
<1>21. CASE UNCHANGED calVars
  BY <1>21 DEF calVars
<1>22. CASE Finished
  BY <1>22 DEF Finished, calVars
<1>23. CASE PublishFailure
  BY <1>23 DEF PublishFailure
<1>24. CASE UpdateFailure
  BY <1>24 DEF UpdateFailure
<1> QED
  BY <1>1, <1>2, <1>3, <1>4, <1>5, <1>6, <1>7, <1>8, <1>9, <1>10, <1>11, <1>12, <1>13, <1>14, <1>15, <1>16, <1>17, <1>18, <1>19, <1>20, <1>21, <1>22, <1>23, <1>24 DEF CalNext

LEMMA SearchStep ==
    ASSUME CalInv, [CalNext]_calVars
    PROVE  Search'
<1> USE CalibrationAssumption
<1> USE DEF CalInv, TypeOK, LatencyOK, Search, hostRegs, reports, loop, delays, latency, Reporting, Reported
<1>1. CASE ResetStatus
  BY <1>1 DEF ResetStatus
<1>2. CASE initialize
  BY <1>2 DEF initialize
<1>3. CASE mem_config
  BY <1>3 DEF mem_config, ZeroAll
<1>4. CASE BeginGroup
  BY <1>4 DEF BeginGroup, ZeroGroup, SetStage
<1>5. CASE AllOutDelayAdd
  BY <1>5 DEF AllOutDelayAdd
<1>6. CASE GuaranteedRead
  BY <1>6 DEF GuaranteedRead, NextShift
<1>7. CASE FindDqsEnPhase
  BY <1>7 DEF FindDqsEnPhase, NextDtap, NextShift
<1>8. CASE DeskewPasses
  BY <1>8 DEF DeskewPasses, ZeroGroup, AnyDelay, Passed, SetStage
<1>9. CASE DeskewFails
  BY <1>9 DEF DeskewFails, AnyDelay, NextDtap, NextShift, Recorded, BitNumbers
<1>10. CASE VfifoGivesUp
  BY <1>10 DEF VfifoGivesUp, Stop, Recorded
<1>11. CASE WritesPass
  BY <1>11 DEF WritesPass, Passed, SetStage
<1>12. CASE WritesFail
  BY <1>12 DEF WritesFail, Stop, Recorded, BitNumbers, AnyDelay
<1>13. CASE AfterPasses
  BY <1>13 DEF AfterPasses, Passed, AnyDelay, SetStage
<1>14. CASE AfterFails
  BY <1>14 DEF AfterFails, Stop, Recorded, BitNumbers, AnyDelay
<1>15. CASE LfifoLess
  BY <1>15 DEF LfifoLess
<1>16. CASE LfifoFails
  BY <1>16 DEF LfifoFails
<1>17. CASE LfifoEnds
  BY <1>17 DEF LfifoEnds, Recorded
<1>18. CASE HandOff
  BY <1>18 DEF HandOff
<1>19. CASE RestoreConfig
  BY <1>19 DEF RestoreConfig
<1>20. CASE ReportResult
  BY <1>20 DEF ReportResult
<1>21. CASE UNCHANGED calVars
  BY <1>21 DEF calVars
<1>22. CASE Finished
  BY <1>22 DEF Finished, calVars
<1>23. CASE PublishFailure
  BY <1>23 DEF PublishFailure
<1>24. CASE UpdateFailure
  BY <1>24 DEF UpdateFailure
<1> QED
  BY <1>1, <1>2, <1>3, <1>4, <1>5, <1>6, <1>7, <1>8, <1>9, <1>10, <1>11, <1>12, <1>13, <1>14, <1>15, <1>16, <1>17, <1>18, <1>19, <1>20, <1>21, <1>22, <1>23, <1>24 DEF CalNext

LEMMA VerdictStep ==
    ASSUME CalInv, [CalNext]_calVars
    PROVE  Verdict'
<1> USE CalibrationAssumption
<1> USE DEF CalInv, TypeOK, ReportsOK, LoopOK, LatencyOK, HistoryOK, Progress, Search, Verdict, hostRegs, reports, loop, delays, latency, Reporting, Reported, Groups
<1>1. CASE ResetStatus
  BY <1>1 DEF ResetStatus
<1>2. CASE initialize
  BY <1>2 DEF initialize
<1>3. CASE mem_config
  BY <1>3 DEF mem_config, ZeroAll
<1>4. CASE BeginGroup
  BY <1>4 DEF BeginGroup, ZeroGroup, SetStage
<1>5. CASE AllOutDelayAdd
  BY <1>5 DEF AllOutDelayAdd
<1>6. CASE GuaranteedRead
  BY <1>6 DEF GuaranteedRead, NextShift
<1>7. CASE FindDqsEnPhase
  BY <1>7 DEF FindDqsEnPhase, NextDtap, NextShift
<1>8. CASE DeskewPasses
  BY <1>8 DEF DeskewPasses, ZeroGroup, AnyDelay, Passed, SetStage
<1>9. CASE DeskewFails
  BY <1>9 DEF DeskewFails, AnyDelay, NextDtap, NextShift, Recorded, BitNumbers
<1>10. CASE VfifoGivesUp
  BY <1>10 DEF VfifoGivesUp, Stop, Recorded
<1>11. CASE WritesPass
  BY <1>11 DEF WritesPass, Passed, SetStage
<1>12. CASE WritesFail
  BY <1>12 DEF WritesFail, Stop, Recorded, BitNumbers, AnyDelay
<1>13. CASE AfterPasses
  BY <1>13 DEF AfterPasses, Passed, AnyDelay, SetStage
<1>14. CASE AfterFails
  BY <1>14 DEF AfterFails, Stop, Recorded, BitNumbers, AnyDelay
<1>15. CASE LfifoLess
  BY <1>15 DEF LfifoLess
<1>16. CASE LfifoFails
  BY <1>16 DEF LfifoFails
<1>17. CASE LfifoEnds
  <2>1. pc \notin Reporting /\ ~pass /\ pc' = "release"
    BY <1>17 DEF LfifoEnds
  <2>2. pc' \in Reporting \ Reported
    BY <2>1
  <2>3. pass' => /\ found_one' /\ \A g \in Groups : calibrated'[g] = Parts
                 /\ phy_rlat' = (IF need' = 0 THEN 1 ELSE need') + 1
    BY <1>17 DEF LfifoEnds
  <2>4. ~pass' => error'.stage /= "NIL"
    BY <1>17 DEF LfifoEnds, Recorded
  <2>5. cal_status' = cal_status /\ failing_stage' = failing_stage
    BY <1>17 DEF LfifoEnds
  <2> QED
    BY <2>1, <2>2, <2>3, <2>4, <2>5
<1>18. CASE HandOff
  BY <1>18 DEF HandOff
<1>19. CASE RestoreConfig
  BY <1>19 DEF RestoreConfig
<1>20. CASE ReportResult
  BY <1>20 DEF ReportResult
<1>21. CASE UNCHANGED calVars
  BY <1>21 DEF calVars
<1>22. CASE Finished
  BY <1>22 DEF Finished, calVars
<1>23. CASE PublishFailure
  BY <1>23 DEF PublishFailure
<1>24. CASE UpdateFailure
  BY <1>24 DEF UpdateFailure
<1> QED
  BY <1>1, <1>2, <1>3, <1>4, <1>5, <1>6, <1>7, <1>8, <1>9, <1>10, <1>11, <1>12, <1>13, <1>14, <1>15, <1>16, <1>17, <1>18, <1>19, <1>20, <1>21, <1>22, <1>23, <1>24 DEF CalNext

LEMMA StrobeStep ==
    ASSUME CalInv, [CalNext]_calVars
    PROVE  (Strobe /\ Unshifted)'
<1> USE CalibrationAssumption
<1> USE DEF CalInv, TypeOK, LoopOK, DelaysOK, Strobe, Unshifted, hostRegs, reports, loop, delays, latency, Groups
<1>1. CASE ResetStatus
  BY <1>1 DEF ResetStatus
<1>2. CASE initialize
  BY <1>2 DEF initialize
<1>3. CASE mem_config
  BY <1>3 DEF mem_config, ZeroAll
<1>4. CASE BeginGroup
  BY <1>4 DEF BeginGroup, ZeroGroup, SetStage
<1>5. CASE AllOutDelayAdd
  BY <1>5 DEF AllOutDelayAdd
<1>6. CASE GuaranteedRead
  BY <1>6 DEF GuaranteedRead, NextShift
<1>7. CASE FindDqsEnPhase
  BY <1>7 DEF FindDqsEnPhase, NextDtap, NextShift
<1>8. CASE DeskewPasses
  BY <1>8 DEF DeskewPasses, ZeroGroup, AnyDelay, Passed, SetStage
<1>9. CASE DeskewFails
  BY <1>9 DEF DeskewFails, AnyDelay, NextDtap, NextShift, Recorded, BitNumbers
<1>10. CASE VfifoGivesUp
  BY <1>10 DEF VfifoGivesUp, Stop, Recorded
<1>11. CASE WritesPass
  BY <1>11 DEF WritesPass, Passed, SetStage
<1>12. CASE WritesFail
  BY <1>12 DEF WritesFail, Stop, Recorded, BitNumbers, AnyDelay
<1>13. CASE AfterPasses
  BY <1>13 DEF AfterPasses, Passed, AnyDelay, SetStage
<1>14. CASE AfterFails
  BY <1>14 DEF AfterFails, Stop, Recorded, BitNumbers, AnyDelay
<1>15. CASE LfifoLess
  BY <1>15 DEF LfifoLess
<1>16. CASE LfifoFails
  BY <1>16 DEF LfifoFails
<1>17. CASE LfifoEnds
  BY <1>17 DEF LfifoEnds, Recorded
<1>18. CASE HandOff
  BY <1>18 DEF HandOff
<1>19. CASE RestoreConfig
  BY <1>19 DEF RestoreConfig
<1>20. CASE ReportResult
  BY <1>20 DEF ReportResult
<1>21. CASE UNCHANGED calVars
  BY <1>21 DEF calVars
<1>22. CASE Finished
  BY <1>22 DEF Finished, calVars
<1>23. CASE PublishFailure
  BY <1>23 DEF PublishFailure
<1>24. CASE UpdateFailure
  BY <1>24 DEF UpdateFailure
<1> QED
  BY <1>1, <1>2, <1>3, <1>4, <1>5, <1>6, <1>7, <1>8, <1>9, <1>10, <1>11, <1>12, <1>13, <1>14, <1>15, <1>16, <1>17, <1>18, <1>19, <1>20, <1>21, <1>22, <1>23, <1>24 DEF CalNext

LEMMA OwnershipStep ==
    ASSUME CalInv, [CalNext]_calVars
    PROVE  Ownership'
<1> USE DEF CalInv, Ownership, Working, Reported, hostRegs
<1>1. CASE ResetStatus
  BY <1>1 DEF ResetStatus
<1>2. CASE initialize
  BY <1>2 DEF initialize
<1>3. CASE mem_config
  BY <1>3 DEF mem_config, ZeroAll
<1>4. CASE BeginGroup
  BY <1>4 DEF BeginGroup, ZeroGroup
<1>5. CASE AllOutDelayAdd
  BY <1>5 DEF AllOutDelayAdd
<1>6. CASE GuaranteedRead
  BY <1>6 DEF GuaranteedRead, NextShift
<1>7. CASE FindDqsEnPhase
  BY <1>7 DEF FindDqsEnPhase, NextDtap, NextShift
<1>8. CASE DeskewPasses
  BY <1>8 DEF DeskewPasses, ZeroGroup
<1>9. CASE DeskewFails
  BY <1>9 DEF DeskewFails, NextDtap, NextShift
<1>10. CASE VfifoGivesUp
  BY <1>10 DEF VfifoGivesUp, Stop
<1>11. CASE WritesPass
  BY <1>11 DEF WritesPass
<1>12. CASE WritesFail
  BY <1>12 DEF WritesFail, Stop
<1>13. CASE AfterPasses
  BY <1>13 DEF AfterPasses
<1>14. CASE AfterFails
  BY <1>14 DEF AfterFails, Stop
<1>15. CASE LfifoLess
  BY <1>15 DEF LfifoLess
<1>16. CASE LfifoFails
  BY <1>16 DEF LfifoFails
<1>17. CASE LfifoEnds
  BY <1>17 DEF LfifoEnds
<1>18. CASE HandOff
  BY <1>18 DEF HandOff
<1>19. CASE RestoreConfig
  BY <1>19 DEF RestoreConfig
<1>20. CASE ReportResult
  BY <1>20 DEF ReportResult
<1>21. CASE UNCHANGED calVars
  BY <1>21 DEF calVars
<1>22. CASE Finished
  BY <1>22 DEF Finished, calVars
<1>23. CASE PublishFailure
  BY <1>23 DEF PublishFailure
<1>24. CASE UpdateFailure
  BY <1>24 DEF UpdateFailure
<1> QED
  BY <1>1, <1>2, <1>3, <1>4, <1>5, <1>6, <1>7, <1>8, <1>9, <1>10, <1>11, <1>12, <1>13, <1>14, <1>15, <1>16, <1>17, <1>18, <1>19, <1>20, <1>21, <1>22, <1>23, <1>24 DEF CalNext

LEMMA InitHolds == CalInit => CalInv
<1> SUFFICES ASSUME CalInit PROVE CalInv
  OBVIOUS
<1> USE CalibrationAssumption, ConstantsNat DEF CalInit
<1>1. TypeOK
  <2>1. ControlOK
    BY DEF ControlOK
  <2>4. LoopOK
    BY DEF LoopOK, Groups, Substages
  <2>2. ReportsOK
    BY DEF ReportsOK, ErrorRecord, NoError, Stages, Substages, Groups
  <2>3. DelaysOK
    BY DEF DelaysOK
  <2>5. LatencyOK
    <3>1. 0 \in 0 .. MaxLatency
      OBVIOUS
    <3> QED
      BY <3>1 DEF LatencyOK
  <2>6. HistoryOK
    BY DEF HistoryOK
  <2> QED
    BY <2>1, <2>2, <2>3, <2>4, <2>5, <2>6 DEF TypeOK
<1>3. Ownership
  BY DEF Ownership, Working, Reported
<1>2. Progress /\ Search /\ Verdict /\ Strobe /\ Unshifted
  BY DEF Progress, Search, Verdict, Strobe, Unshifted, Reporting, Reported, NoError
<1> QED
  BY <1>1, <1>2, <1>3 DEF CalInv

(* Who has the memory, and what has been found and earned, at each step. *)
THEOREM CalInvariant == CalSpec => []CalInv
<1>1. CalInv /\ [CalNext]_calVars => CalInv'
  BY TypeStep, ProgressStep, SearchStep, VerdictStep, StrobeStep,
     OwnershipStep DEF CalInv
<1> QED
  BY InitHolds, <1>1, PTL DEF CalSpec

-----------------------------------------------------------------------------
(* Every delay, latency and record stays in its range. *)
THEOREM CalTypes == CalSpec => []TypeOK
<1>1. CalInv => TypeOK
  BY DEF CalInv
<1> QED
  BY <1>1, CalInvariant, PTL

(* SUCCESS means that every group has passed its three centrings and that
   the latency left in the register suffices.                              *)
THEOREM SuccessEarned == CalSpec => []SuccessIsEarned
<1>1. CalInv => SuccessIsEarned
  BY DEF CalInv, TypeOK, LatencyOK, Verdict, SuccessIsEarned
<1> QED
  BY <1>1, CalInvariant, PTL

(* The latency left in the register is one more than the least. *)
THEOREM LatencyLeast == CalSpec => []LatencyIsLeast
<1>1. CalInv => LatencyIsLeast
  BY DEF CalInv, Verdict, LatencyIsLeast
<1> QED
  BY <1>1, CalInvariant, PTL

(* Writes are centred with the strobe at its reserved delay. *)
THEOREM WritesAtReserve == CalSpec => []WritesStartAtReserve
<1>1. CalInv => WritesStartAtReserve
  BY DEF CalInv, Strobe, WritesStartAtReserve
<1> QED
  BY <1>1, CalInvariant, PTL

(* Who sees FAIL finds the first recorded failure in the failing-stage word,
   which only a calibration that fails ever writes.                        *)
THEOREM FailureNamed == CalSpec => []FailureIsNamed
<1>1. CalInv => FailureIsNamed
  BY DEF CalInv, TypeOK, ControlOK, Verdict, Ownership, Reporting, Reported,
     FailureIsNamed
<1> QED
  BY <1>1, CalInvariant, PTL

-----------------------------------------------------------------------------
(* The calibration implements CalibrationService: the boot code never sees a
   verdict before the controller has the memory back and its tracking goes
   on as before, nor SUCCESS for a memory that cannot be used.             *)
THEOREM ServiceImplemented == CalSpec => ImplementsService
<1>1. CalInit => Service!ServiceInit
  <2> SUFFICES ASSUME CalInit PROVE Service!ServiceInit
    OBVIOUS
  <2>1. ~Usable
    BY DEF CalInit, Usable
  <2>2. Usable = FALSE
    BY <2>1 DEF Usable
  <2> QED
    BY <2>2 DEF CalInit, Service!ServiceInit
<1>2. CalInv /\ [CalNext]_calVars => [Service!ServiceNext]_(Service!serviceVars)
  <2> SUFFICES ASSUME CalInv, [CalNext]_calVars
               PROVE  [Service!ServiceNext]_(Service!serviceVars)
    OBVIOUS
  <2>1. Usable' \in BOOLEAN
    BY DEF Usable
  <2>2. ASSUME UNCHANGED <<calibrated, found_one, phy_rlat, need>>
        PROVE  UNCHANGED Usable
    BY <2>2 DEF Usable
  <2>3. ASSUME mux_sel = "sequencer", UNCHANGED hostRegs
        PROVE  Service!ServiceNext
    BY <2>1, <2>3 DEF hostRegs, Service!ServiceNext, Service!Calibrate
  <2>4. ASSUME pc \in Working PROVE mux_sel = "sequencer"
    BY <2>4 DEF CalInv, Ownership
  <2>5. CASE ResetStatus
    <3>1. UNCHANGED Usable
      BY <2>5, <2>2 DEF ResetStatus, latency
    <3> QED
      BY <2>5, <3>1 DEF ResetStatus, CalInv, Ownership, Service!ServiceNext,
         Service!TakeStatus
  <2>6. CASE initialize
    <3>1. UNCHANGED Usable
      BY <2>6, <2>2 DEF initialize, latency
    <3> QED
      BY <2>6, <3>1 DEF initialize, CalInv, Ownership, Service!ServiceNext,
         Service!TakeMemory
  <2>7. CASE mem_config
    BY <2>7, <2>3, <2>4 DEF mem_config, ZeroAll, Working, hostRegs
  <2>8. CASE BeginGroup
    BY <2>8, <2>3, <2>4 DEF BeginGroup, ZeroGroup, Working, hostRegs
  <2>9. CASE AllOutDelayAdd
    BY <2>9, <2>3, <2>4 DEF AllOutDelayAdd, Working, hostRegs
  <2>10. CASE GuaranteedRead
    BY <2>10, <2>3, <2>4 DEF GuaranteedRead, Working, hostRegs
  <2>11. CASE FindDqsEnPhase
    BY <2>11, <2>3, <2>4 DEF FindDqsEnPhase, Working, hostRegs
  <2>12. CASE DeskewPasses
    BY <2>12, <2>3, <2>4 DEF DeskewPasses, ZeroGroup, Working, hostRegs
  <2>13. CASE DeskewFails
    BY <2>13, <2>3, <2>4 DEF DeskewFails, Working, hostRegs
  <2>14. CASE VfifoGivesUp
    BY <2>14, <2>3, <2>4 DEF VfifoGivesUp, Working, hostRegs, Stop
  <2>15. CASE WritesPass
    BY <2>15, <2>3, <2>4 DEF WritesPass, Working, hostRegs
  <2>16. CASE WritesFail
    BY <2>16, <2>3, <2>4 DEF WritesFail, Working, hostRegs, Stop
  <2>17. CASE AfterPasses
    BY <2>17, <2>3, <2>4 DEF AfterPasses, Working, hostRegs
  <2>18. CASE AfterFails
    BY <2>18, <2>3, <2>4 DEF AfterFails, Working, hostRegs, Stop
  <2>19. CASE LfifoLess
    BY <2>19, <2>3, <2>4 DEF LfifoLess, Working, hostRegs
  <2>20. CASE LfifoFails
    BY <2>20, <2>3, <2>4 DEF LfifoFails, Working, hostRegs
  <2>21. CASE LfifoEnds
    BY <2>21, <2>3, <2>4 DEF LfifoEnds, Working, hostRegs
  <2>22. CASE HandOff
    <3>1. UNCHANGED Usable
      BY <2>22, <2>2 DEF HandOff, latency
    <3> QED
      BY <2>22, <3>1 DEF HandOff, Working, CalInv, Ownership, Service!ServiceNext,
         Service!HandOver
  <2>23. CASE RestoreConfig
    <3>1. UNCHANGED Usable
      BY <2>23, <2>2 DEF RestoreConfig, latency
    <3> QED
      BY <2>23, <3>1 DEF RestoreConfig, CalInv, Ownership, Service!ServiceNext,
         Service!Resume
  <2>24. CASE ReportResult
    <3>1. UNCHANGED Usable
      BY <2>24, <2>2 DEF ReportResult, latency
    <3>2. pass => Usable
      BY DEF CalInv, Verdict, TypeOK, LatencyOK, Usable
    <3>3. cal_status' \in IF Usable THEN {"SUCCESS", "FAIL"} ELSE {"FAIL"}
      BY <2>24, <3>2 DEF ReportResult
    <3> QED
      BY <2>24, <3>1, <3>3 DEF ReportResult, CalInv, Ownership, Reported,
         Service!ServiceNext, Service!Report
  <2>25. CASE UNCHANGED calVars
    BY <2>25, <2>2 DEF calVars, hostRegs, latency, Service!serviceVars
  <2>26. CASE Finished
    BY <2>26, <2>2 DEF Finished, calVars, hostRegs, latency, Service!serviceVars
  <2>27. CASE PublishFailure \/ UpdateFailure
    BY <2>27, <2>2 DEF PublishFailure, UpdateFailure, hostRegs, latency,
       Service!serviceVars
  <2> QED
    BY <2>5, <2>6, <2>7, <2>8, <2>9, <2>10, <2>11, <2>12, <2>13, <2>14, <2>15, <2>16, <2>17, <2>18, <2>19, <2>20, <2>21, <2>22, <2>23, <2>24, <2>25, <2>26, <2>27 DEF CalNext
<1> QED
  BY <1>1, <1>2, CalInvariant, PTL DEF CalSpec, ImplementsService, Service!ServiceSpec

-----------------------------------------------------------------------------
(* The retries cannot go round in circles.  The stages of the calibration
   get fewer; in the stage of the groups, the group goes up, or of the same
   group fewer parts are left, or in the attempts of a group the delay of
   the output side goes up, or at the same delay the strobe's, between a
   pattern read at most once; in the latency search, the latency goes down. *)
Attempting == {"pattern", "shift", "enable", "deskew"}

StagesLeft ==
    CASE pc = "reset" -> 11 [] pc = "initialize" -> 10 [] pc = "config" -> 9
      [] pc \in {"group", "give_up", "writes", "after"} \cup Attempting -> 8
      [] pc = "lfifo" -> 7 [] pc = "fudge" -> 6 [] pc = "release" -> 5
      [] pc = "restore" -> 4 [] pc = "report" -> 3 [] pc = "verdict" -> 2
      [] pc = "update" -> 1 [] pc = "done" -> 0

PartsLeft ==
    CASE pc = "group" -> 3 [] pc \in Attempting -> 2
      [] pc \in {"give_up", "writes"} -> 1 [] OTHER -> 0

PreparationsLeft == CASE pc = "shift" -> 2 [] pc = "pattern" -> 1 [] OTHER -> 0

(* Half steps: the phase, then the centring. *)
Tried == 2 * dqs_in_dtaps + (IF pc = "deskew" THEN 1 ELSE 0)

AttemptAdvances ==
    /\ pc \in Attempting /\ pc' \in Attempting
    /\ \/ d' > d
       \/ d' = d /\ PreparationsLeft' < PreparationsLeft
       \/ d' = d /\ PreparationsLeft' = PreparationsLeft /\ Tried' > Tried

Advances ==
    \/ StagesLeft' < StagesLeft
    \/ /\ StagesLeft' = StagesLeft
       /\ \/ group' > group
          \/ group' = group /\ PartsLeft' < PartsLeft
          \/ group' = group /\ PartsLeft' = PartsLeft /\ AttemptAdvances
          \/ pc = "lfifo" /\ pc' = "lfifo" /\ curr_read_lat' < curr_read_lat

Bounded ==
    /\ StagesLeft \in 0 .. 11 /\ group \in 0 .. GroupCount - 1 /\ PartsLeft \in 0 .. 3
    /\ d \in 0 .. DtapsPerPtap /\ PreparationsLeft \in 0 .. 2
    /\ Tried \in 0 .. 2 * DelayMax + 1 /\ curr_read_lat \in 0 .. MaxLatency

LEMMA StepAdvances ==
    ASSUME TypeOK, TypeOK', CalNext, ~UNCHANGED calVars
    PROVE  Advances
<1>1. /\ group \in Nat /\ d \in Nat /\ dqs_in_dtaps \in Nat /\ curr_read_lat \in Nat
      /\ group' \in Nat /\ d' \in Nat /\ dqs_in_dtaps' \in Nat /\ curr_read_lat' \in Nat
  BY CalibrationAssumption DEF TypeOK, LoopOK, LatencyOK, Groups
<1> USE DEF Advances, Attempting, StagesLeft
<1>2. CASE ResetStatus \/ initialize \/ mem_config
  BY <1>2 DEF ResetStatus, initialize, mem_config
<1>3. CASE BeginGroup
  BY <1>3 DEF BeginGroup, PartsLeft
<1>4. CASE AllOutDelayAdd
  BY <1>4 DEF AllOutDelayAdd, loop, PartsLeft, AttemptAdvances, PreparationsLeft
<1>5. CASE GuaranteedRead
  BY <1>1, <1>5 DEF GuaranteedRead, NextShift, PartsLeft, AttemptAdvances, PreparationsLeft
<1>6. CASE FindDqsEnPhase
  BY <1>1, <1>6 DEF FindDqsEnPhase, NextDtap, NextShift, PartsLeft, AttemptAdvances,
     PreparationsLeft, Tried
<1>7. CASE DeskewPasses
  BY <1>7 DEF DeskewPasses, loop, PartsLeft
<1>8. CASE DeskewFails
  BY <1>1, <1>8 DEF DeskewFails, NextDtap, NextShift, PartsLeft, AttemptAdvances,
     PreparationsLeft, Tried
<1>9. CASE VfifoGivesUp \/ WritesFail \/ AfterFails
  BY <1>9 DEF VfifoGivesUp, WritesFail, AfterFails, Stop
<1>10. CASE WritesPass
  BY <1>10 DEF WritesPass, loop, PartsLeft
<1>11. CASE AfterPasses
  BY <1>1, <1>11 DEF AfterPasses
<1>12. CASE LfifoLess
  BY <1>1, <1>12 DEF LfifoLess
<1>13. CASE LfifoFails \/ LfifoEnds \/ HandOff \/ RestoreConfig \/ PublishFailure
               \/ ReportResult \/ UpdateFailure
  BY <1>13 DEF LfifoFails, LfifoEnds, HandOff, RestoreConfig, PublishFailure,
     ReportResult, UpdateFailure
<1>14. CASE Finished
  BY <1>14 DEF Finished
<1> QED
  BY <1>2, <1>3, <1>4, <1>5, <1>6, <1>7, <1>8, <1>9, <1>10, <1>11, <1>12, <1>13, <1>14
     DEF CalNext

(* Whatever the attempts of the groups come to, every step of the
   calibration brings it closer to its verdict: its nested retries never
   try the same delays of a group twice.                                   *)
THEOREM RetriesAdvance == CalSpec => []Bounded /\ [][Advances]_calVars
<1>1. ASSUME TypeOK PROVE Bounded
  BY <1>1, CalibrationAssumption DEF TypeOK, ControlOK, LoopOK, LatencyOK, Groups, Bounded,
     StagesLeft, PartsLeft, PreparationsLeft, Tried, Attempting
<1>2. ASSUME TypeOK, TypeOK', [CalNext]_calVars PROVE [Advances]_calVars
  BY <1>2, StepAdvances
<1> QED
  BY <1>1, <1>2, CalTypes, PTL DEF CalSpec
=============================================================================
