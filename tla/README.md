# A verification project for MAC-Cluster

MAC-Cluster is a matrix multiplier on a Cyclone V SoC: a C program on the ARM
processor (HPS) sends rows and columns to a cluster of multiply-accumulate
lanes in the FPGA through memory-mapped registers and reads the products back.
The repository also holds an FPGA-only design with a fabric of larger clusters,
an AES-128 accelerator with the same kind of handshake, and the Quartus
projects that build them. Those carry the firmware that runs at power-up, before
any of this: `sequencer.c`, which calibrates the delays of the processor's DDR3
memory, the largest program of the repository.

This directory holds TLA+ models of the hand-written code, the TLC
configurations that check them on small instances and the proofs TLAPS checks
for every instance. Paths below are relative to the repository.

## 1. The system

| Part | Source | State it keeps | Operations |
|---|---|---|---|
| driver | `hps_fpga_Project/hps_code/main.c` | loop counters, operand packs, result arrays | `cluster_transaction`, `full_cluster_transaction`, `main` |
| processor, bridge, interconnect | generated | the outstanding access | one load or store at a time |
| APB agent | `.../submodules/altera_merlin_apb_slave_agent.sv` | FSM, command register, read-data register | setup, access, response |
| register file | `hps_fpga_Project/eric_ip2.v` | 16 words, read-data register | APB read and write, copy of results, reset |
| sequencer | `Verilog_srcs/cluster_ip/cluster_ctrl.v` | FSM of five states | next state, start and reset of the lanes, status |
| lanes | `Verilog_srcs/cluster_ip/mac_2x2.v`, `cluster_top.v` | done, 64-bit result | one dot product of two words by two words |
| MAC fabric | `Verilog_srcs/cluster_fabric*.v`, `cluster_dispatcher.v`, `cluster_response_mux.v`, `cluster_par.v`, `mac_3x3.v` | busy, done, select, cycle counters, result; per core busy, done, result | launch, collect |
| board top | `Verilog_srcs/fpga_top.v`, `cluster_readback_mux.v` | synchronizer, previous start | start pulse, readback |
| front panel | `Verilog_srcs/ctrl.v`, `Hex6to7seg.v` | key and port synchronizers, display registers | manual step, load, display mux |
| AES | `Verilog_srcs/aes/*` | sequencer | handshake, combinational AES-128 |
| older register files | `eric_ip.v`, `TEMP.v`, `my_aes_ip.v` | words | APB read and write |
| GHRD reset logic | `ghrd_top.v`, `ip/*` | counters, edge FSM | debounce, reset pulses (vendor code) |
| memory calibration, control | `hps_isw_handoff/soc_system_hps_0/sequencer.c` | status, owner of the memory, tracking, record of failures, latency, delays of the strobes | `run_mem_calibrate`, `mem_calibrate`, the retries of `rw_mgr_mem_calibrate_vfifo`, the latency search |
| memory calibration, searches | the same | edges, runs, delays in the scan chain, VFIFO pointer | `..._vfifo_find_dqs_en_phase`, `..._vfifo_center`, `..._writes_center` |

How they interact. The driver stores an *instruction* in register 0 and polls
the *status* in register 1. The sequencer looks at register 0 at every clock
edge: RESET brings it to ST_RESET from anywhere, SIGNAL_TX to ST_READY_RX;
there the driver stores four operand words per core; TX_COMPLETE sends it
through ST_ACK_RX (lanes start) and ST_PROCESSING (lanes done, results copied
over the operand registers) to ST_DONE. The driver loads one word per core and
starts over for the next chunk. Nothing but the registers connects the two
sides, and there is no interrupt, no lock and no timeout.

The calibration firmware runs alone, on the processor, before the memory can be
used. Per group of data bits it looks for the time at which the strobe's gate
opens (`find_dqs_en_phase`), centres the strobe in the eyes of the bits for
reads, then for writes, then for reads again; then it lowers the read latency.
Its inputs are read and write tests that pass or fail; its outputs are delays
in a scan chain and a verdict. Around it, the memory's wires, the tracking of
the controller and a status register change hands in a fixed order.

Where it is hard:

* *Timing.* An instruction takes several cycles to act; the status register
  lags the state, the answer of the bus lags the register, and an answer may be
  held back for any time. The handshake is right only if every poll that
  succeeds tells the truth.
* *Sharing.* Operands and results are in the same registers, and the copy of
  the results competes with a store for the write port.
* *Crashes.* The process may die at any access; the hardware stays as it is,
  the access in flight completes, and the next process meets what is left.
* *Agreement.* Driver and hardware must agree which register holds what, for
  any number of cores and for chunks that do not fill the cluster.
* *Arithmetic.* The lanes multiply signed 32-bit words into 64 bits; the host
  thinks in `uint32_t`.
* *Launch and completion* of the fabric: a pulse starts it, a level ends it.
* *Searches by experiment.* The firmware sees an eye only through tests, of
  which those at its edges may go either way, and never twice the same. Edges
  are found in two sweeps, delays are rounded and clamped, the VFIFO wraps and
  one phase of each clock cannot be used. What it concludes must hold for the
  real eye.
* *Retries.* Attempts of a group leave delays behind for the next one, and a
  record for the report.

The hazards, each at its line, with the properties that would catch it, are
listed in `PROJECT.json`.

## 2. Modules

```
MacWords <- ClusterIp <- ApbBus <- ClusterHost -> MatrixPacks -> MacWords
    ^                      ^           |
    |                      |           +-- implements --> MatrixService
 MacFabric            ApbBusProofs <- ClusterHostProofs
```

* **MacWords**: words, the signed dot product of a lane, its two result
  words. `Base` is the number of values of a word, 2^32 in the sources.
* **ClusterIp**: one edge of the peripheral's clock, `IpEdge(psel, pwrite, reg,
  wdata)`. Everything the edge does is in that one action: read register,
  status refresh, host write or result copy (`HostWrite`, `CopyResults`), next
  state, lanes. The lanes' reset is asynchronous and combinational in the state
  and the instruction, so `MacEdge` looks at both *after* the edge. The read
  register has no reset. An APB write is seen in its setup and in its access
  cycle, since `penable` is not looked at.
* **ApbBus**: the agent's FSM and the processor's single outstanding access
  (`/dev/mem` is opened with `O_SYNC`). All actions but `Request` are one clock
  edge. `BusSpec` lets the processor issue any access at any time: it stands
  for any program or several.
* **MatrixPacks**: matrices, operand packs, the packing of results, and the
  product they should give.
* **ClusterHost**: the driver on `ApbBus`. `pc` names the register access that
  is next or under way; what the C code does after an access happens in the
  step that delivers the answer. `Following` and `Awaited` are the tables of
  unconditional accesses and of polls. `Call`, `Transact`, `Package`, `Return`
  are `full_cluster_transaction` and `main`, with every argument check and the
  truncation of the last chunk; `Kill`, `Restart`, `Reset` are the process and
  the board. A killed process's access in flight completes.
* **MatrixService**: what a call promises, without hardware: the elements of
  the products appear in order and final, and a call that is not abandoned
  ends. `ClusterHost!ImplementsService` is the refinement.
* **MacFabric**: the FPGA-only design from the instruction port to the
  result register. `Clock` is one edge of all its registers.
* **ApbBusProofs, ClusterHostProofs**: the proofs; ApbBusProofs also holds those
  of the words.
* **MCApbBus, MCClusterHost**: the values of constants for TLC.

Definitions called "Fault: ..." are wrong variants of the definition they stand
next to; nothing uses them in the models. Where a fault is in one condition, the
condition has a definition of its own (`MoreChunks`, `TapsLeft`). Each property of a passing run is
violated if one of them takes the place of the original (`PROJECT.json`,
"mutants"), which shows that the property has something to say about the code.

The memory calibration has modules of its own:

```
 Centring  <- implements -- ReadCentering  -> EdgeSearch     DqsEnable
           <- implements -- WriteCentering -> EdgeSearch
 CalibrationService <- implements -- MemCalibration
 proofs:  EdgeSearchProofs, ReadCenteringProofs, WriteCenteringProofs,
          MemCalibrationProofs, DqsEnableProofs, and MacFabricProofs for
          the fabric
```

* **EdgeSearch**: what the two centrings share. C's division (`Half`), the
  rounding (`HalfUp`), the clamping of delays (`Clamp`), the update of the edges
  by one test in each sweep, the new delay of a bit, the margins. An eye is an
  interval of the skew "strobe minus bit"; `PassSets` are the outcomes a test
  may have: inside the eye it passes, outside it fails, one tap outside it does
  as it likes. The eyes themselves belong to the board and are external.
* **ReadCentering**: `rw_mgr_mem_calibrate_vfifo_center`. A step is one tap of a
  sweep with its test, the end of the search (`SetCentre`), or the branch in
  which a bit has no edge (`FailCentre`).
* **WriteCentering**: `rw_mgr_mem_calibrate_writes_center`. `MaskTap` and
  `StrobeTap` are the two sweeps over which the run of the data mask (`RunGrows`,
  `RunBreaks`) is joined.
* **Centring**: what both promise their caller: success only with delays at which
  every lane can be transferred, no blame for a lane that was open at the start,
  and no failure if all were. For writes a bit counts as open if it also is one
  tap earlier (`Spare`): the strobe stays, the bits can only be made later.
* **DqsEnable**: `rw_mgr_mem_calibrate_vfifo_find_dqs_en_phase`, all six steps,
  one read test at a time, with the measurement for the tracking. Unlike above a
  test passes exactly inside the window. `FromOpen` is the distance of the gate
  from the window's open, around the ring of the VFIFO; the firmware does not know
  it and has only its own counts. `ClearWindow` is what it may expect of a window:
  four phases, so that the search of the end starts inside, and two clocks at which
  reads fail, which the search of the begin starts from.
* **MemCalibration**: `run_mem_calibrate` and `mem_calibrate`. A search or
  centring of a group is one step with any outcome the modules above allow, on
  the delays it may leave behind. A failure is reported as in the code, one
  register write after the other: `PublishFailure`, `ReportResult`,
  `UpdateFailure`. `calibrated` is a history variable.
* **CalibrationService**: what the boot code and the controller may rely on.

The modules are those of this board's configuration: DDR3, hard PHY of the
Cyclone V, one rank, 4 groups of 8 bits, delays up to 31 taps, the second output
delay fixed at 0, reserves of 4 taps, phases of 312 ps, taps of 25 ps, a VFIFO of
16 clocks. All of these but the first three are constants of the modules.

## 3. Runs

| Run | Instance | What it shows |
|---|---|---|
| `bus` (MCApbBus) | four instructions, one unknown; two operand stores, a status store; three loads | no store is dropped by the result copy, every answered store is in place, a load's answer is exact even if held back, a poll is never stale; every access is answered; a computation ends |
| `one_core` (OneCore) | 2 packs, two pairs of matrices, 1 core | the driver and the sequencer stay in step through kills, restarts and resets; every delivered element is right; a transaction always returns; the driver implements MatrixService |
| `more_cores` (MoreCores) | calls with 0, 2, 3 cores | no lane starts on an incomplete or stale operand; the registers hold both result words of each lane while the driver loads; exactly which word each element is; the inductive invariant of the driver's proofs, with its loop bounds |
| `two_cores` | one call with 2 cores | **violated**: finding 1 |
| `fabric` (MCMacFabric) | all four clusters, two data words | only the cluster the response mux looks at runs; a busy fabric keeps its select |
| `fabric_hang` | the same | **violated**: finding 2 |
| `read_centering` | 2 bits, delays 0 to 3, all eyes within the sweeps and a closed one, every start of the strobe, every outcome of a test at an edge | success means readable; the strobe is in the middle whatever was clamped or rounded; who is blamed was not open, and the strobe is put back; Centring is implemented |
| `write_centering` | 2 bits and the mask, delays 0 to 3, 7 eyes | the mask's run is the longest although it is joined from two sweeps and the second stops early; the strobe is put back; Centring is implemented |
| `dqs_enable` | 4 clocks of 4 phases, every place of a window of up to the two clocks that are free | the gate ends within a phase and half a tap of the middle, windows of at least four phases are found, the search ends |
| `dqs_tracking` | the same | **violated**: finding 3 |
| `mem_calibration` | 2 groups of 2 bits, every outcome of every attempt, every latency needed | success is earned by every group and the latency the least plus one; writes start from the reserve; who sees FAIL finds the failing stage already, and a success never shows one; CalibrationService is implemented; the retries end |
| `cal_group` | the same | **violated**: finding 4 |

Bounds and why they are enough:

* `Base = 16`. It is the smallest word that holds the status DONE_TX = 15. The
  data only flow through the registers and the dot product, and the word size
  occurs nowhere else. The pairs of matrices are chosen so that results are
  negative, larger than a word, and (all operands least) wrap the double word.
* `PackCount = 2`: first, last and the step from one to the other. `main` uses 16.
* Core counts 0 to 3: 0 is rejected, 1 and 2 divide the four elements, 3 leaves
  a chunk of one.
* Two data words and `CycleBase = 4` in the fabric: the counter wraps while busy.
* Kills, restarts and resets are not bounded. Delays are not bounded.
* Delays 0 to 3 in the centrings: the strobe starts at both ends and between
  them, sweeps are cut by either end of the chain, and middles are odd and even.
  Two bits: they pull the strobe in different directions. The eyes of the writes
  are chosen (on both sides of the start, cut by a sweep's end, open by noise
  only, closed), since the mask triples the states; the proofs are for any.
* 4 clocks of 4 phases of 5 units, delay taps of 2 units up to 6: the VFIFO wraps,
  the skipped phase falls into every part of the window, taps do not divide a
  phase and reach over two of them, as on the board. The widths go from less than a
  phase, where a delay is needed to meet the window at all, to the largest that is
  clear, two clocks less a unit, in which gates of two clocks pass.
* Two groups, strobe delays 0 to 2, three delays of the output side, latency 3 of
  at most 4: both loops of the retries run to their end, the second group starts
  after a first one that needed retries, and the latency search meets 0 and the
  latency that never suffices.

Deadlock is checked in every run.

## 4. Fairness

* The clock does not stop: weak fairness of the edges (`SilentEdge`, `Respond`,
  `Clock`).
* The interconnect delivers a request and takes an answer in the end: weak
  fairness of `BusAccept` and `BusRespond`. The agent has no arbitration and
  the AXI bridge no path that drops a response.
* A process that is alive is scheduled: weak fairness of `HostStep`.
* Nobody has to kill, restart, reset or press a key, and nobody has to refrain
  from it.
* The calibration firmware is one program without interrupts or waiting: weak
  fairness of its next step (`EnableFairness`, `CalFairness`). Which way a test
  goes is not subject to fairness. The centrings are specified without it; that
  they end is plain from their loop bounds.

## 5. Findings

1. `main.c:417-421` loads one word per core from consecutive registers;
   `eric_ip2.v:96-101` puts two words per lane. With two or more cores, core 1
   gets the high word of lane 0, and so on. `main.c:626-634` expects matrix
   products. `ElementsAreLaneWords` states what is delivered instead.
2. `mac_3x3.v:51-52` clears `done` in every cycle in which `start` is low, also
   in the one in which line 46 sets it. The fabric's start is a one-cycle pulse,
   so `done` never rises and the fabric is busy until it is reset. For the same
   reason the collecting branch of `FabricEdge` is never taken, and the `fabric`
   run says nothing about results.

3. `sequencer.c:4475-4476` wants the delay taps of one phase for the tracking of
   the controller and backs up "a ptap" for it. If the phase before is phase 0,
   which is not used, line 4484 (and its surroundings) backs up to the last phase
   of the clock before: two phases, and twice the number of taps is handed over.
   For lack of taps the measurement may also fall back to the estimate.
4. `sequencer.c:593` asserts that a failing group is a group. The centrings pass
   the number of a bit (5292, 5294, 7408), the latency search 255 (6207).

Not shown by a run, since nothing in the repository says otherwise, but found
while modelling and kept as it is in the models:

* The record of the first failure stays when a later attempt of the same group
  succeeds (596). It is published only if the calibration fails (9635), and
  then may name an attempt that was made good.
* The failing stage is written twice (9635, 9643), before the status and after it.
  The first write is the one that counts: without it the second would still
  leave the same word in the end, but a reader who waits for FAIL could come
  before it (`FailureIsNamed`).
* Line 5938 wants the strobe "back to the reserve value"; line 5939 restores
  `orig_start_dqs`, which after a failed attempt is where that attempt left it.
* `scc_mgr_apply_group_all_out_delay_add` (1935-1939) sets the first output delay
  to the amount it is to add, since the second one is fixed at 0.
* Where the begin of the gate's window is phase 1 nothing is backed off, and the
  "restore" of line 4312 moves on a phase all the same.

## 6. Proofs

For every value of the constants, TLAPS proves the theorems below; `PROJECT.json`
lists them with what each establishes. Nothing is taken on trust but the
assumptions of the modules, which TLC evaluates in every run:

* `BaseAssumption`: an even word size of at least 16. `AccessAssumption`:
  `NoAccess` is no access, `Accesses` are well formed. `HostAssumption`: the calls
  of `main` have at most three cores. `FabricAssumption`: instructions are those
  of the four clusters.
* `TapAssumption`, `BitsAssumption`, `EyeAssumption`: there is a tap and a bit, and
  eyes are intervals of integers, of any width and place, closed ones included.
* `EnableAssumption`: a clock has at least three phases, the delay chain reaches
  over a phase, a tap is at most half a phase (`sequencer_defines.h:88-96`: 25 ps
  and 312 ps), widths are numbers.
* `CalibrationAssumption`: counts are positive, and the latency the search starts
  from is below the largest there is. Without the last, the "fudge" that adds one
  would be clamped, and the latency could be one short of what is asked for.

**Words** (at the head of `ApbBusProofs`). `LowWordIsDotProduct`, `ResultsAreWords`: the low
word of the signed 64-bit result is the host's unsigned dot product. It is why
one core is right although the two sides disagree about signs. The argument is
modular: `Signed` changes a word by a multiple of `Base`, and `Base` divides
`Base^2`.

**The bus** (`ApbBusProofs`). `NoWriteIsDropped`, `StoresTakeEffect`,
`LoadsAreExact`, `StatusIsNeverStale` from the inductive invariant `BusInv`. Why an
invariant is needed: that the copy of the results never meets a store is a matter
of counting cycles. `BusInv` puts the count into the state. An instruction reaches
register 0 at the end of the setup cycle of its store. From then on the cluster
passes the phases `Arriving`, `Turned`, `Computing` and `Finished`, and in each of
them the invariant says where the agent can be: in the rest of that very store,
or idle after it, or just setting up the next access. In all other states the
cluster is `Settled`: its state, its instruction and its status register agree,
and no edge but that of a store changes it. `Transferred` says that by the end of
its setup cycle a transfer has had its effect, so that the samples of the access
cycle and of any later cycle agree. Each action of the bus has a lemma; the
lemmas are stated for any access, not only those of `Accesses`.

**The driver** (`ClusterHostProofs`), for every number of packs, every sequence of
calls with up to three cores and every set of matrix pairs:

* `TypeCorrect`: the driver's accesses stay within the register file and its
  loops within their arrays. `InBounds` is the strengthening: at every access
  `core_idx` is below the size of the chunk, which the argument checks of
  `cluster_transaction` have made positive.
* `HostStaysInStep` from the inductive invariant `HostInv`. `HostInStep` alone is
  not inductive: that ST_READY_RX lasts while the operands are stored depends on
  register 0, which depends on what the host stored last and on there being no
  other store under way. `Asked` says that the access in progress is the one `pc`
  names (only a dead process leaves another behind, and the next one waits for
  its end), and `LastInstruction` what register 0 holds at each program point. An
  access that is no store of an instruction is called `Quiet`; `QuietEdge` shows
  that the edges of such an access move the cluster only from one transient
  state to the next, never out of ST_RESET, ST_READY_RX or ST_DONE. A successful
  poll establishes the state through `StatusIsCurrent` of `BusInv`, and a store
  the instruction through `Transferred`.
* `OperandsAreComplete`, `ResultsArePublished`, `DeliversLaneWords` from `DataInv`,
  which follows the data through the handshake. While the driver stores, the
  operands up to its loop counters are in their registers (`StoredSoFar`). From
  then on `Chunk` says where the data are: in the operand registers in
  ST_READY_RX and ST_ACK_RX, in the lanes in ST_PROCESSING, in the result registers,
  which are partly the same ones, in ST_DONE. While it loads, `LoadedSoFar`; and
  since chunks begin at multiples of the number of cores (`ChunkStarts`), what
  `Package` puts into the matrix are the words `ElementsAreLaneWords` names.
  `MildEdge` shows that no edge of the bus between TX_COMPLETE and the next reset
  touches a data register but the copy.
* `OneCoreIsCorrect`: with calls of one core (or none) these words are the low
  words of the lanes of the very elements, hence matrix products by
  `LowWordIsDotProduct`. The assumption is `OneCoreCalls`; finding 1 is why it is
  needed.
* `ServiceSafety`: under the same assumption the driver, with the hardware, kills
  and resets, implements the safety part of `MatrixService`. The place of an
  element in the order of the service is `Place`; `DeliveredFirst` shows that what
  the loops have delivered are the first elements of that order, and `FirstElements`
  counts them. `Package` is then `Deliver` of one more, a call starts and ends when
  the service's does, and every other step is invisible.

**The fabric** (`MacFabricProofs`). Types and `OnlyActiveRuns` are inductive
together; `SelectHeld` is an action property; `LaunchNeverEnds` shows finding 2
for every instance: no clock edge ends a computation.

**The centrings**, for any number of bits and taps and any eyes.

* `EdgeSearchProofs` has the arithmetic both share. `CentreIsMiddle`: the strobe's
  new place is the middle of the edges of each bit to within half a tap, unless a
  delay is clamped. `MarginsAreInside`: margins that are not
  negative put the strobe inside the edges of the bit, whatever was clamped or
  rounded. `LeastOf`
  is the one place that needs induction, over the bits for their smallest
  middle; it cites the well-foundedness of the natural numbers.
* `ReadCenteringProofs`: `ReadInv` says, per bit and sweep, what the edges found so
  far mean. The second sweep may find an edge again on the other side, which
  sets the first one (`RightEdges`), and a bit that is open at the start keeps one
  edge on each side whatever the tests said (`OpenBits`). From it
  `SuccessReadable`, `OpenSucceeds` (no run checks that one: TLC shows it through
  `ImplementsCentring`), `Centred`, `BlameRestored`.
* `WriteCenteringProofs`: `WriteInv` has the same for the bits and, for the mask,
  `WindowUpTo` and `RunUpTo`: the window kept is the longest run among the
  positions tested so far, and the current run reaches back to the first
  position since the last failure. The two sweeps test positions in one order,
  from the latest mask to the latest strobe, and that is why a run may be
  continued across the joint. `LongestRun` needs in addition that the early end
  of the second sweep is taken only when no longer run can follow.
* `CentringImplemented` in both: the last steps are those of `Centring`, every
  step before is a stutter.

**The calibration** (`MemCalibrationProofs`): `CalInv` says who has the memory at
each point (`Ownership`), how far the loops over groups and delays and the
latency search are (`Progress`, `Search`), and what has been earned by then
(`Verdict`, which also orders the failing stage and the status that sends its
reader there). `SuccessEarned`, `LatencyLeast`, `WritesAtReserve`, `FailureNamed`, and
`ServiceImplemented`, which is the refinement of `CalibrationService`.
`RetriesAdvance` is the part of `CalibrationEnds` that can be proved: every step
goes on in a bounded order of stages, groups, delays of the output side and of the
strobe, so that no loop of the retries can repeat itself.

**The gate** (`DqsEnableProofs`), for every VFIFO, number of phases, length of the
delay chain, and window. `SearchTypes` comes from `SearchInv`, which says how far
the loops are at each stage; that no time gets below zero, for example, needs that
what is backed off was added before.

`GateIsCentred` and `WideWindowIsFound` come from `GateInv`. The properties
themselves speak only of the end, where nothing is left of how the times were
counted; the invariant says at every stage what they mean:

* `PushClear`, `BeginClear`: reads fail in two clocks at phase 1 (`TwoFail`), so the
  first loop ends in one of them; then the gate moves towards the window and cannot
  have been around, so no delay has to be tried, and the first read that passes
  is less than a phase (after the unused one: two) behind the open.
* `Begin2Clear`: none of the delays tried so far passes. The begin is then `Late`
  by less than a tap (`BeginMeasured`), or, where it was met at phase 1, by less
  than two phases.
* `EndClear`, `End2Clear`: the gate is where the times say, but for `Late` and `Skew`
  (`EndCounted`). `Skew` is a phase where the begin was met at phase 1: nothing was
  backed off, but the firmware goes on as if it were (section 5). Across phase 0
  and the wrap the sum stays exact.
* `Measured`: the range found is shorter than the window by what the begin is late
  and less than a phase at the end. `MiddleIs` turns this into the tolerance of the
  middle. The worst case is a middle in phase 0, which phase 1 stands in for;
  there it needs that such a middle, being half a window behind its begin, cannot
  go with every begin.
* `FinalClear`: one of the clocks not yet tried is the right one, and the phase and
  delay set are its place in the clock. Only `NarrowWindow` makes it the first one
  that passes.

Most of the arithmetic is on a ring: `Stepped` says what a step does to `FromOpen`,
from `GateMoves`; the products in it are not linear, which is why the proofs name
them before they use them.

The proof changed the model. As first stated, and as a run with few widths had
shown, every window of a clock or more had its gate within two phases of the
middle, and a window of three phases was found. Neither is so for all constants.
In a window of almost two clocks the first clock that passes may be one off the
middle; the firmware does not look for a better one. With three phases the search
of the end can start behind the window. And the tolerance is a phase and half a
tap. The properties now say this, with a run whose widths meet these cases.

`SearchAdvances`: as for the retries, every step goes on in a bounded order.

A refinement here is proved step by step: the initial states map to initial
states, each action to an action of the abstract specification or a stutter.

Only model-checked: liveness (`AccessesAnswered`, `ComputationEnds`,
`TransactionReturns`, `EnableReturns`, `CalibrationEnds` and the fairness in
`MatrixService`), since TLAPS does not handle fairness and ENABLED. Of the two
loops of the firmware the proofs show that they cannot go round
(`SearchAdvances`, `RetriesAdvance`); what is left to TLC is that a step is
always possible before the end. Every invariant and every action property that a
passing run checks is also proved.

## 7. Not modelled, and why

* Most of the lines of the repository are the calibration firmware, twice:
  `sequencer.c` and `sequencer.h` in `hps_isw_handoff`, and identical copies
  called `sequencer.pre.c` and `.pre.h` in `synthesis/submodules`. `sequencer.c` serves every memory and device family of its
  manufacturer. For this board (DDR3, Cyclone V, hard PHY) about 2600 of its
  10885 lines are left once the conditionals are resolved; the rest is code for
  RLDRAM, QDR, LPDDR, DDR2, Stratix and Arria parts, for the debug master and for
  the report. The models cover those functions of the 2600 that decide anything,
  so that the share of all lines they stand for is small and cannot be large.
* In `sequencer.c`, of the code that is compiled: the words written to the
  scan-chain manager and to the command sequencer of the memory (fixed sequences
  whose meaning is the memory's), the mode registers and initialization by fixed
  waits. `recover_mem_device` does nothing for DDR3. The figures of merit enter nothing.
* `tclrpt.c`: not compiled (`ENABLE_TCL_DEBUG` off); it formats reports.
* Tests inside the gate's window are exact in `DqsEnable`: with noise at the edges
  the code makes no promise about its middle to better than the noise.
* The AES: `aes_ctrl.v` is a state machine of five states like the cluster's. What
  would make its handshake right or wrong is not in the repository: neither the
  register file between it and the processor nor the main loop, which
  `docs/main_loop_handshake_spec.yaml` only describes; and no project builds it. A
  model of the state machine alone would repeat its table. AES-128 itself is
  combinational and keeps no state.
* The front panel (`ctrl.v`, `Hex6to7seg.v`): keys and displays without effect on the
  cluster's data.
* The older register files (`eric_ip.v`, `TEMP.v`, `my_aes_ip.v`, `test_regs`): replaced
  by `eric_ip2`, in no project that is built.
* The generated system, handoff code, databases: generated. Vendor reference
  code (debouncer, edge detector, interrupt capturer, probe): of the board's maker.
* Printing, LED blinking, generation of the test pairs: no property depends on
  them. `main_local_test.c` runs the packing without hardware.
* Four cores: `cluster_transaction` accepts them, `main` never asks for them,
  and the offsets leave the register file.
* Two processes at once: `BusSpec` covers the bus under any interleaving; the
  driver takes no lock and is not meant to share.
* Metastability. Skew between the bits of a synchronized word is covered as far as
  the fabric goes, since its port may show any instruction in any cycle; what the
  sender meant is not in the model.

## 8. Plan

Done: the cluster from the lanes to the driver with its data path and its
service, the fabric, and the calibration of the memory from its control to its
searches; the proofs above.

Left, in this order:

1. Noise at the edges of the gate's window, with a promise weakened by it.
2. The AES handshake on the bus, when its register file and its main loop are in the
   repository; until then there is nothing that `aes_ctrl` could be out of step with.
3. The command sequences of the memory: that a row is open when it is read.
