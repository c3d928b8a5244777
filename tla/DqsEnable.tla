----------------------------- MODULE DqsEnable ------------------------------
(***************************************************************************)
(* rw_mgr_mem_calibrate_vfifo_find_dqs_en_phase of sequencer.c: when the   *)
(* controller opens its gate for the read strobe.  The gate's time is set  *)
(* in clocks (the VFIFO, whose pointer the firmware can only push on, and  *)
(* which wraps), in phases of a clock, and in delay taps.  The firmware    *)
(* searches the window of gate times at which reads succeed, counts its    *)
(* begin and end in picoseconds, and puts the gate into the middle.        *)
(*                                                                         *)
(* One step is one read test.  A test passes exactly inside the window,    *)
(* which is chosen at the start.                                           *)
(***************************************************************************)
EXTENDS Integers

CONSTANTS
    VFIFO_SIZE,
    IO_DQS_EN_PHASE_MAX,    \* last phase of a clock; phase 0 is not used
    IO_DQS_EN_DELAY_MAX,    \* last delay tap
    Ptap, Dtap,             \* time of a phase and of a delay tap
    Widths                  \* widths of the window

ASSUME EnableAssumption ==
    /\ {VFIFO_SIZE, Ptap, Dtap} \subseteq Nat \ {0}
    /\ IO_DQS_EN_PHASE_MAX \in Nat /\ IO_DQS_EN_PHASE_MAX >= 2
    /\ IO_DQS_EN_DELAY_MAX \in Nat /\ IO_DQS_EN_DELAY_MAX * Dtap >= Ptap
    /\ 2 * Dtap <= Ptap
    /\ Widths \subseteq Nat

VARIABLES
    window,                 \* when the gate is right: [open, width]
    pc,
    vf,                     \* pointer of the VFIFO
    p, d,                   \* phase and delay, also those in the scan chain
    i, j,                   \* loop counters
    fail_cnt,
    work_bgn, work_end,     \* times since the clock the search began with
    initial_failing_dtap,
    dtaps_per_ptap,         \* REG_FILE_DTAPS_PER_PTAP, for the tracking
    result

times == <<work_bgn, work_end>>
tracking == <<initial_failing_dtap, dtaps_per_ptap>>
gate == <<vf, p, d>>
enableVars == <<window, pc, gate, i, j, fail_cnt, times, tracking, result>>

Phase == 1 .. IO_DQS_EN_PHASE_MAX
ClockTime == (IO_DQS_EN_PHASE_MAX + 1) * Ptap
Ring == VFIFO_SIZE * ClockTime

Position == vf * ClockTime + p * Ptap + d * Dtap
ReadPasses == (Position - window.open) % Ring <= window.width

-----------------------------------------------------------------------------
(* The static estimate: the delay taps that surely fit into a phase. *)
StaticDtaps == CHOOSE n \in 0 .. Ptap : n * Dtap < Ptap /\ (n + 1) * Dtap >= Ptap

EnableInit ==
    /\ window \in [open : 0 .. Ring - 1, width : Widths]
    /\ pc = "push" /\ vf = 0 /\ p = 1 /\ d = 0
    /\ i = 0 /\ j = 0 /\ fail_cnt = 0
    /\ work_bgn = 0 /\ work_end = 0
    /\ initial_failing_dtap = 0 /\ dtaps_per_ptap = StaticDtaps
    /\ result = "none"

IncrVfifo(n) == vf' = (vf + n) % VFIFO_SIZE
DecrVfifo == IncrVfifo(VFIFO_SIZE - 1)
Give(value) == pc' = "done" /\ result' = value

(* Step 1: push the VFIFO until the second failing read. *)
PushVfifo ==
    /\ pc = "push"
    /\ fail_cnt' = IF ReadPasses THEN fail_cnt ELSE fail_cnt + 1
    /\ IF fail_cnt' = 2
       THEN pc' = "begin" /\ i' = 0 /\ work_bgn' = Ptap
            /\ UNCHANGED <<vf, result>>
       ELSE /\ IncrVfifo(1) /\ i' = i + 1 /\ UNCHANGED work_bgn
            /\ IF i + 1 = VFIFO_SIZE THEN Give("bad")
               ELSE UNCHANGED <<pc, result>>
    /\ UNCHANGED <<window, p, d, j, work_end, tracking>>

(* Fault: the phase that is skipped is not counted. *)
BeginFails_uncounted ==
    /\ pc = "begin" /\ ~ReadPasses
    /\ work_bgn' = work_bgn + Ptap
    /\ IF p < IO_DQS_EN_PHASE_MAX
       THEN p' = p + 1 /\ UNCHANGED <<pc, result, vf, d, i>>
       ELSE /\ IncrVfifo(1) /\ p' = 1
            /\ IF i + 1 < VFIFO_SIZE
               THEN i' = i + 1 /\ UNCHANGED <<pc, result, d>>
               ELSE Give("bad") /\ UNCHANGED <<d, i>>
    /\ UNCHANGED <<window, j, fail_cnt, work_end, tracking>>

(* Step 2: the first working phase, at the least delay at which there is
   one, over all clocks.  Phase 0 is counted but not tried.                *)
BeginFails ==
    /\ pc = "begin" /\ ~ReadPasses
    /\ IF p < IO_DQS_EN_PHASE_MAX
       THEN p' = p + 1 /\ work_bgn' = work_bgn + Ptap
            /\ UNCHANGED <<pc, result, vf, d, i>>
       ELSE /\ IncrVfifo(1) /\ p' = 1
            /\ IF i + 1 < VFIFO_SIZE
               THEN i' = i + 1 /\ work_bgn' = work_bgn + 2 * Ptap
                    /\ UNCHANGED <<pc, result, d>>
               ELSE IF d < dtaps_per_ptap
               THEN i' = 0 /\ d' = d + 1 /\ work_bgn' = (d + 1) * Dtap + Ptap
                    /\ UNCHANGED <<pc, result>>
               ELSE Give("bad") /\ UNCHANGED <<d, i, work_bgn>>
    /\ UNCHANGED <<window, j, fail_cnt, work_end, tracking>>

(* Steps 3a and 4a: from the phase p that was backed off to, two phases on
   start the search of the end.                                            *)
SearchEnd(backed, end) ==
    /\ pc' = "end" /\ d' = 0
    /\ IF backed + 2 > IO_DQS_EN_PHASE_MAX
       THEN IncrVfifo(1) /\ p' = 1 /\ j' = 1 /\ work_end' = end + 2 * Ptap
       ELSE p' = backed + 2 /\ j' = 0 /\ work_end' = end + Ptap /\ UNCHANGED vf

(* Found at delay 0: one phase back, unless that is phase 0. *)
BeginAtPhase ==
    /\ pc = "begin" /\ ReadPasses /\ d = 0
    /\ IF p > 1
       THEN /\ pc' = "begin2" /\ p' = p - 1 /\ work_end' = work_bgn
            /\ UNCHANGED <<vf, d, j>>
       ELSE SearchEnd(1, work_bgn)
    /\ UNCHANGED <<window, i, fail_cnt, work_bgn, tracking, result>>

(* Found at a delay only: the window is narrower than a phase. *)
BeginAtDelay ==
    /\ pc = "begin" /\ ReadPasses /\ d > 0
    /\ pc' = "end2" /\ work_end' = work_bgn
    /\ UNCHANGED <<window, gate, i, j, fail_cnt, work_bgn, tracking, result>>

(* Step 3a: the first working delay of the phase before. *)
BeginDelay ==
    /\ pc = "begin2"
    /\ LET tmp_delay == work_end - Ptap + d * Dtap
           more == d < IO_DQS_EN_DELAY_MAX /\ tmp_delay + Dtap < work_end
       IN  /\ work_bgn' = IF ReadPasses THEN tmp_delay ELSE work_bgn
           /\ IF ~ReadPasses /\ more
              THEN d' = d + 1 /\ UNCHANGED <<pc, vf, p, j, work_end>>
              ELSE SearchEnd(p, work_end)
    /\ UNCHANGED <<window, i, fail_cnt, tracking, result>>

(* Fault: the gate stays in its clock. *)
EndContinues_sameClock ==
    /\ pc = "end" /\ (ReadPasses \/ j = 0)
    /\ work_bgn' = IF ReadPasses THEN work_bgn ELSE work_end
    /\ IF p < IO_DQS_EN_PHASE_MAX
       THEN p' = p + 1 /\ work_end' = work_end + Ptap /\ j' = j + 1
            /\ UNCHANGED <<pc, result, i>>
       ELSE /\ i' = i + 1
            /\ p' = 1 /\ work_end' = work_end + 2 * Ptap /\ j' = j + 2
            /\ IF i = VFIFO_SIZE THEN Give("bad") ELSE UNCHANGED <<pc, result>>
    /\ UNCHANGED <<window, vf, d, fail_cnt, tracking>>

(* Step 4a: forward to the first phase that fails.  If the very first one
   fails, the begin is taken to be there and the search goes on.           *)
EndContinues ==
    /\ pc = "end" /\ (ReadPasses \/ j = 0)
    /\ work_bgn' = IF ReadPasses THEN work_bgn ELSE work_end
    /\ IF p < IO_DQS_EN_PHASE_MAX
       THEN p' = p + 1 /\ work_end' = work_end + Ptap /\ j' = j + 1
            /\ UNCHANGED <<pc, result, vf, i>>
       ELSE /\ IncrVfifo(1) /\ i' = i + 1
            /\ p' = 1 /\ work_end' = work_end + 2 * Ptap /\ j' = j + 2
            /\ IF i = VFIFO_SIZE THEN Give("bad") ELSE UNCHANGED <<pc, result>>
    /\ UNCHANGED <<window, d, fail_cnt, tracking>>

(* Step 5a: back off to the phase before; phase 0 is skipped. *)
EndFound ==
    /\ pc = "end" /\ ~ReadPasses /\ j > 0
    /\ pc' = "end2"
    /\ IF p = 1
       THEN DecrVfifo /\ p' = IO_DQS_EN_PHASE_MAX /\ work_end' = work_end - 2 * Ptap
       ELSE p' = p - 1 /\ work_end' = work_end - Ptap /\ UNCHANGED vf
    /\ UNCHANGED <<window, d, i, j, fail_cnt, work_bgn, tracking, result>>

(* Then its first failing delay; before a failing delay lies the end.
   For the tracking, one phase back, or to the last phase of the clock
   before if that is phase 0.                                              *)
RangeFound(failing, end) ==
    /\ d' = failing
    /\ work_end' = IF failing = 0 THEN end ELSE end - Dtap
    /\ IF work_end' >= work_bgn
       THEN /\ pc' = "track" /\ initial_failing_dtap' = failing
            /\ IF p = 1 THEN p' = IO_DQS_EN_PHASE_MAX /\ DecrVfifo
               ELSE p' = p - 1 /\ UNCHANGED vf
            /\ UNCHANGED result
       ELSE Give("bad") /\ UNCHANGED <<vf, p, initial_failing_dtap>>

EndDelay ==
    /\ pc = "end2"
    /\ IF ~ReadPasses THEN RangeFound(d, work_end)
       ELSE IF d = IO_DQS_EN_DELAY_MAX THEN RangeFound(d + 1, work_end + Dtap)
       ELSE d' = d + 1 /\ work_end' = work_end + Dtap
            /\ UNCHANGED <<pc, vf, p, initial_failing_dtap, result>>
    /\ UNCHANGED <<window, i, j, fail_cnt, work_bgn, dtaps_per_ptap>>

(* Fault: one tap too many. *)
TapsLeft_oneMore == d <= IO_DQS_EN_DELAY_MAX + 1

(* The condition of the two loops that measure a phase. *)
TapsLeft == d <= IO_DQS_EN_DELAY_MAX

(* Fault: the delay is not pushed on after a failing read. *)
TrackTap_waits ==
    /\ pc \in {"track", "track2"} /\ TapsLeft
    /\ IF pc = "track2" /\ ~ReadPasses
       THEN pc' = "centre" /\ dtaps_per_ptap' = d - initial_failing_dtap
            /\ UNCHANGED d
       ELSE d' = (IF ReadPasses THEN d + 1 ELSE d) /\ UNCHANGED dtaps_per_ptap
            /\ pc' = IF ReadPasses THEN "track2" ELSE pc
    /\ UNCHANGED <<window, vf, p, i, j, fail_cnt, times, initial_failing_dtap,
                   result>>

(* The delays of a phase are measured: from the failing delay to the next
   failing one after a passing one.  Without those, the estimate stands.   *)
TrackTap ==
    /\ pc \in {"track", "track2"} /\ TapsLeft
    /\ IF pc = "track2" /\ ~ReadPasses
       THEN pc' = "centre" /\ dtaps_per_ptap' = d - initial_failing_dtap
            /\ UNCHANGED d
       ELSE d' = d + 1 /\ UNCHANGED dtaps_per_ptap
            /\ pc' = IF ReadPasses THEN "track2" ELSE pc
    /\ UNCHANGED <<window, vf, p, i, j, fail_cnt, times, initial_failing_dtap,
                   result>>

TrackEnds ==
    /\ pc \in {"track", "track2"} /\ ~TapsLeft
    /\ pc' = "centre"
    /\ UNCHANGED <<window, gate, i, j, fail_cnt, times, tracking, result>>

(* Step 6: the middle, within a clock: 1 .. ClockTime. *)
work_mid == LET m == (work_bgn + work_end) \div 2
            IN  IF m = 0 THEN 0 ELSE 1 + ((m - 1) % ClockTime)

(* The phases and taps that reach it; phase 1 stands in for phase 0. *)
Centre ==
    /\ pc = "centre"
    /\ LET n == CHOOSE k \in 0 .. IO_DQS_EN_PHASE_MAX + 1 :
                   k * Ptap >= work_mid /\ (k = 0 \/ (k - 1) * Ptap < work_mid)
           rest == work_mid - (n - 1) * Ptap
       IN  IF n = 1 THEN p' = 1 /\ d' = 0
           ELSE /\ p' = n - 1
                /\ d' = CHOOSE k \in 0 .. IO_DQS_EN_DELAY_MAX :
                           k * Dtap >= rest /\ (k = 0 \/ (k - 1) * Dtap < rest)
    /\ pc' = "final" /\ i' = 0
    /\ UNCHANGED <<window, vf, j, fail_cnt, times, tracking, result>>

(* Push the VFIFO until a read passes. *)
FinalPush ==
    /\ pc = "final"
    /\ IF ReadPasses THEN Give("ok") /\ UNCHANGED <<vf, i>>
       ELSE /\ IncrVfifo(1) /\ i' = i + 1
            /\ IF i + 1 = VFIFO_SIZE THEN Give("bad") ELSE UNCHANGED <<pc, result>>
    /\ UNCHANGED <<window, p, d, j, fail_cnt, times, tracking>>

Finished == pc = "done" /\ UNCHANGED enableVars

EnableNext ==
    \/ PushVfifo \/ BeginFails \/ BeginAtPhase \/ BeginAtDelay \/ BeginDelay
    \/ EndContinues \/ EndFound \/ EndDelay \/ TrackTap \/ TrackEnds
    \/ Centre \/ FinalPush \/ Finished

EnableFairness == WF_enableVars(EnableNext)
EnableSpec == EnableInit /\ [][EnableNext]_enableVars /\ EnableFairness

-----------------------------------------------------------------------------
(* The delay goes one past the last tap when a sweep does not stop. *)
TypeOK ==
    /\ pc \in {"push", "begin", "begin2", "end", "end2", "track", "track2",
               "centre", "final", "done"}
    /\ vf \in 0 .. VFIFO_SIZE - 1 /\ p \in Phase /\ d \in 0 .. IO_DQS_EN_DELAY_MAX + 1
    /\ i \in 0 .. VFIFO_SIZE + 1 /\ j \in Nat /\ fail_cnt \in 0 .. 2
    /\ work_bgn \in Nat /\ work_end \in Nat
    /\ initial_failing_dtap \in 0 .. IO_DQS_EN_DELAY_MAX + 1
    /\ dtaps_per_ptap \in 0 .. IO_DQS_EN_DELAY_MAX
    /\ result \in {"none", "ok", "bad"}

FromOpen == (Position - window.open) % Ring

(* The windows the code expects: four phases, so that the search of the end
   starts inside, and two clocks of the VFIFO at which reads fail, which is
   where the search begins.                                                *)
ClearWindow ==
    window.width >= 4 * Ptap /\ window.width + 2 * ClockTime < Ring

(* The gate that is accepted lies within a phase and half a tap of the
   middle of the window: the times counted in phases and taps, over wraps of
   the VFIFO and the phase that is skipped, are those of the gate.  The last
   read before the search returns would pass at any edge; in a window of
   almost two clocks, also a whole clock past the middle.                  *)
GateCentred ==
    result = "ok" /\ ClearWindow /\ window.width < 2 * (ClockTime - Ptap) =>
        2 * FromOpen - window.width \in -2 * Ptap .. 2 * Ptap + Dtap

(* Such a window is found, however wide, and wherever it lies relative to
   phase 0 and to the wrap of the VFIFO.                                   *)
WideWindowFound == pc = "done" /\ ClearWindow => result = "ok"

(* A single phase is measured for the tracking: in a window of at least a
   clock, the delay taps handed over make up a phase, to within a tap.  (They
   do not: where the phase before is phase 0, two phases are measured.)    *)
TrackingMeasuresPhase ==
    pc = "done" /\ window.width >= ClockTime =>
        dtaps_per_ptap * Dtap - Ptap \in -Dtap .. Dtap

(* The search ends. *)
EnableReturns == <>(pc = "done")
=============================================================================
