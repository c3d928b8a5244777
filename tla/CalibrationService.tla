------------------------- MODULE CalibrationService -------------------------
(***************************************************************************)
(* What the boot code and the memory controller may rely on: while the     *)
(* firmware drives the memory, the status is RESET and the tracking of the *)
(* controller is stopped; the memory is handed over, the tracking goes on  *)
(* as before, and only then the status says SUCCESS or FAIL, and SUCCESS   *)
(* only if every group reads and writes and the latency is sufficient.     *)
(***************************************************************************)
EXTENDS Integers

VARIABLES
    owner,      \* who drives the memory: "none", "sequencer", "controller"
    status,     \* "unknown", "RESET", "SUCCESS", "FAIL"
    track,      \* the controller tracks the strobe
    before,     \* it did so before
    usable      \* the memory can be used

serviceVars == <<owner, status, track, before, usable>>

ServiceInit ==
    /\ owner = "none" /\ status = "unknown"
    /\ track \in BOOLEAN /\ before \in BOOLEAN
    /\ usable = FALSE

TakeStatus ==
    /\ owner = "none" /\ status = "unknown"
    /\ status' = "RESET" /\ before' = track /\ track' = FALSE
    /\ UNCHANGED <<owner, usable>>

TakeMemory ==
    /\ owner = "none" /\ status = "RESET"
    /\ owner' = "sequencer"
    /\ UNCHANGED <<status, track, before, usable>>

Calibrate ==
    /\ owner = "sequencer"
    /\ usable' \in BOOLEAN
    /\ UNCHANGED <<owner, status, track, before>>

HandOver ==
    /\ owner = "sequencer"
    /\ owner' = "controller"
    /\ UNCHANGED <<status, track, before, usable>>

Resume ==
    /\ owner = "controller" /\ status = "RESET"
    /\ track' = before
    /\ UNCHANGED <<owner, status, before, usable>>

Report ==
    /\ owner = "controller" /\ status = "RESET" /\ track = before
    /\ status' \in IF usable THEN {"SUCCESS", "FAIL"} ELSE {"FAIL"}
    /\ UNCHANGED <<owner, track, before, usable>>

ServiceNext == TakeStatus \/ TakeMemory \/ Calibrate \/ HandOver \/ Resume
               \/ Report
ServiceSpec == ServiceInit /\ [][ServiceNext]_serviceVars
=============================================================================
