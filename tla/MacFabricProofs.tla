--------------------------- MODULE MacFabricProofs ---------------------------
(***************************************************************************)
(* Proofs about the fabric, for any word size, any width of the cycle      *)
(* counter, any selects and data words on the ports.                       *)
(*                                                                         *)
(* FabricInv is inductive as it stands: a launch needs an idle fabric, and *)
(* when the fabric is idle no core runs, so a start finds all cores of its *)
(* cluster idle and none of another.                                       *)
(***************************************************************************)
EXTENDS MacFabric, TLAPS

LEMMA BasePositive == Base \in Nat /\ Base > 0 /\ Base * Base \in Nat /\ Base * Base > 0
  BY BaseAssumption

FabricInv == TypeOK /\ OnlyTheActiveClusterRuns

(* The word a core computes fits its result register. *)
LEMMA Dot3IsDoubleWord ==
    ASSUME NEW w \in Words
    PROVE  Dot3(w) \in DoubleWord
<1>1. w \in Word
  BY FabricAssumption
<1>2. Signed(w) \in Int
  BY <1>1, BasePositive DEF Word, Signed
<1>3. 3 * Signed(w) * Signed(w) \in Int
  BY <1>2
<1> QED
  BY <1>3, BasePositive DEF Dot3, DoubleWord

(* The registers after a reset are of their types, and nothing runs. *)
LEMMA ClearedFabric ==
    ASSUME Init PROVE FabricInv
<1>1. 0 \in DoubleWord /\ 0 \in 0 .. CycleBase - 1 /\ 0 \in Clusters
  BY BasePositive, FabricAssumption DEF DoubleWord, Clusters
<1>2. NoInstruction \in Instruction
  BY DEF NoInstruction, Instruction
<1>3. TypeOK
  BY <1>1, <1>2 DEF Init, TypeOK, AllCores
<1>4. OnlyTheActiveClusterRuns
  BY DEF Init, OnlyTheActiveClusterRuns, AllCores
<1> QED
  BY <1>3, <1>4 DEF FabricInv

(* One edge of the fabric's clock keeps every register in its range. *)
LEMMA ClockTypes ==
    ASSUME FabricInv, Clock PROVE TypeOK'
<1> USE DEF FabricInv, TypeOK
<1>1. UNCHANGED inputs /\ FabricEdge /\ CoreEdge
  BY DEF Clock
<1>2. /\ fpga_instruction' \in Instruction /\ data_to_fpga' \in Words
      /\ fpga_instruction_meta' \in Instruction
      /\ fpga_instruction_sync' \in Instruction
      /\ start_prev' \in BOOLEAN
  BY DEF Clock, inputs, Instruction
<1>3. done' \in BOOLEAN /\ busy' \in BOOLEAN
  <2>1. selected_done \in BOOLEAN
    BY DEF selected_done
  <2> QED
    BY <1>1, <2>1 DEF FabricEdge
<1>4. active_cluster_sel' \in Clusters
  <2>1. fabric_cluster_sel \in Sels \cup {0}
    BY DEF fabric_cluster_sel, Instruction
  <2>2. Sels \cup {0} \subseteq Clusters
    BY FabricAssumption DEF Clusters
  <2> QED
    BY <1>1, <2>1, <2>2 DEF FabricEdge
<1>5. cycles_running' \in 0 .. CycleBase - 1 /\ cycles_last' \in 0 .. CycleBase - 1
  <2>1. \A n \in 0 .. CycleBase - 1 : Tick(n) \in 0 .. CycleBase - 1
    BY FabricAssumption DEF Tick
  <2>2. 0 \in 0 .. CycleBase - 1
    BY FabricAssumption
  <2> QED
    BY <1>1, <2>1, <2>2 DEF FabricEdge
<1>6. result_flat_out' \in [Slots -> DoubleWord]
  <2>1. 0 \in DoubleWord
    BY BasePositive DEF DoubleWord
  <2>2. selected_result \in [Slots -> DoubleWord]
    BY <2>1 DEF selected_result
  <2> QED
    BY <1>1, <2>2 DEF FabricEdge
<1>7. ASSUME NEW c \in Clusters
      PROVE  /\ core_busy'[c] \in [CoresOf(c) -> BOOLEAN]
             /\ core_done'[c] \in [CoresOf(c) -> BOOLEAN]
             /\ core_result'[c] \in [CoresOf(c) -> DoubleWord]
  <2>1. core_busy'[c] = [i \in CoresOf(c) |-> Fire(c) /\ ~core_busy[c][i]]
    BY <1>1, <1>7 DEF CoreEdge
  <2>2. core_done'[c] = [i \in CoresOf(c) |-> Fire(c) /\ core_busy[c][i]]
    BY <1>1, <1>7 DEF CoreEdge
  <2>3. core_result'[c] = [i \in CoresOf(c) |->
            IF core_busy[c][i] THEN Dot3(data_to_fpga) ELSE core_result[c][i]]
    BY <1>1, <1>7 DEF CoreEdge
  <2>4. Dot3(data_to_fpga) \in DoubleWord
    BY Dot3IsDoubleWord
  <2>5. core_busy'[c] \in [CoresOf(c) -> BOOLEAN]
    BY <2>1
  <2>6. core_done'[c] \in [CoresOf(c) -> BOOLEAN]
    BY <2>2
  <2>7. core_result'[c] \in [CoresOf(c) -> DoubleWord]
    BY <1>7, <2>3, <2>4
  <2> QED
    BY <2>5, <2>6, <2>7
<1> QED
  BY <1>2, <1>3, <1>4, <1>5, <1>6, <1>7

(* An edge starts cores only of the cluster the fabric then waits for. *)
LEMMA ClockRuns ==
    ASSUME FabricInv, Clock PROVE OnlyTheActiveClusterRuns'
<1> SUFFICES ASSUME NEW c \in Clusters, NEW i \in CoresOf(c), core_busy'[c][i]
             PROVE  /\ busy' /\ active_cluster_sel' = c
                    /\ \A j \in CoresOf(c) : core_busy'[c][j]
  BY DEF OnlyTheActiveClusterRuns
<1>1. core_busy' = [k \in Clusters |-> [j \in CoresOf(k) |->
                       Fire(k) /\ ~core_busy[k][j]]]
  BY DEF Clock, CoreEdge
<1>2. \A j \in CoresOf(c) : core_busy'[c][j] <=> (Fire(c) /\ ~core_busy[c][j])
  BY <1>1
<1>3. Fire(c)
  BY <1>2
<1>4. ~busy
  BY <1>3 DEF Fire
<1>5. \A j \in CoresOf(c) : ~core_busy[c][j]
  BY <1>4 DEF FabricInv, OnlyTheActiveClusterRuns
<1>6. busy' /\ active_cluster_sel' = c
  BY <1>3, <1>4 DEF Clock, FabricEdge, Fire
<1> QED
  BY <1>2, <1>3, <1>5, <1>6

(* Types and the one running cluster, the inductive invariant of the fabric. *)
THEOREM FabricInvCorrect == Spec => []FabricInv
<1>1. Init => FabricInv
  BY ClearedFabric
<1>2. FabricInv /\ [Next]_fabricVars => FabricInv'
  <2> SUFFICES ASSUME FabricInv, [Next]_fabricVars PROVE FabricInv'
    OBVIOUS
  <2>1. CASE Clock
    BY <2>1, ClockTypes, ClockRuns DEF FabricInv
  <2>2. CASE Drive
    BY <2>2 DEF Drive, top, fabric, cores, FabricInv, TypeOK,
                OnlyTheActiveClusterRuns
  <2>3. CASE KeyReset
    <3>1. 0 \in DoubleWord /\ 0 \in 0 .. CycleBase - 1 /\ 0 \in Clusters
      BY BasePositive, FabricAssumption DEF DoubleWord, Clusters
    <3>2. NoInstruction \in Instruction
      BY DEF NoInstruction, Instruction
    <3>3. TypeOK'
      BY <2>3, <3>1, <3>2 DEF KeyReset, inputs, FabricInv, TypeOK, AllCores
    <3>4. OnlyTheActiveClusterRuns'
      BY <2>3 DEF KeyReset, OnlyTheActiveClusterRuns, AllCores
    <3> QED
      BY <3>3, <3>4 DEF FabricInv
  <2>4. CASE UNCHANGED fabricVars
    BY <2>4 DEF fabricVars, inputs, top, fabric, cores, FabricInv, TypeOK,
                OnlyTheActiveClusterRuns
  <2> QED
    BY <2>1, <2>2, <2>3, <2>4 DEF Next
<1> QED
  BY <1>1, <1>2, PTL DEF Spec

(* Every register of the design keeps its range, the wrapping cycle counter
   and the result words among them.                                        *)
THEOREM FabricTypes == Spec => []TypeOK
<1>1. FabricInv => TypeOK
  BY DEF FabricInv
<1> QED
  BY <1>1, FabricInvCorrect, PTL

(* Whatever the instruction port shows and whenever the board is reset, only
   the cluster the response mux looks at computes, and all of its cores do. *)
THEOREM OnlyActiveRuns == Spec => []OnlyTheActiveClusterRuns
<1>1. FabricInv => OnlyTheActiveClusterRuns
  BY DEF FabricInv
<1> QED
  BY <1>1, FabricInvCorrect, PTL

(* A command that arrives while the fabric is busy leaves the select alone. *)
THEOREM SelectHeld == Spec => SelectHeldWhileBusy
<1>1. [Next]_fabricVars =>
        [busy /\ busy' => active_cluster_sel' = active_cluster_sel]_fabricVars
  BY DEF Next, Clock, FabricEdge, Drive, KeyReset, fabricVars, fabric
<1> QED
  BY <1>1, PTL DEF Spec, SelectHeldWhileBusy

-----------------------------------------------------------------------------
(* Why LaunchesFinish fails: a core could raise done only in a cycle in which
   it is started and busy, and a start needs an idle fabric.                *)
NoCoreAnswers == \A c \in Clusters : \A i \in CoresOf(c) : ~core_done[c][i]

LEMMA EveryClusterHasACore ==
    ASSUME NEW c \in Clusters PROVE 0 \in CoresOf(c)
<1>1. CASE c = 0
  BY <1>1, 2^0 = 1 DEF CoresOf
<1>2. CASE c = 1
  BY <1>2, 2^1 = 2 DEF CoresOf
<1>3. CASE c = 2
  BY <1>3, 2^2 = 4 DEF CoresOf
<1>4. CASE c = 3
  BY <1>4, 2^3 = 8 DEF CoresOf
<1> QED
  BY <1>1, <1>2, <1>3, <1>4 DEF Clusters

LEMMA ClockAnswersNothing ==
    ASSUME FabricInv, Clock PROVE NoCoreAnswers'
<1> SUFFICES ASSUME NEW c \in Clusters, NEW i \in CoresOf(c)
             PROVE  ~core_done'[c][i]
  BY DEF NoCoreAnswers
<1>1. core_done'[c][i] <=> (Fire(c) /\ core_busy[c][i])
  BY DEF Clock, CoreEdge
<1>2. Fire(c) => ~core_busy[c][i]
  BY DEF Fire, FabricInv, OnlyTheActiveClusterRuns
<1> QED
  BY <1>1, <1>2

(* No clock edge ends a computation: once launched, the fabric is busy until
   the board is reset (mac_3x3.v:51, for every word and counter width).     *)
BusyUntilReset == [][Clock /\ busy => busy']_fabricVars
THEOREM LaunchNeverEnds == Spec => BusyUntilReset
<1>1. Init => NoCoreAnswers
  BY DEF Init, AllCores, NoCoreAnswers
<1>2. FabricInv /\ NoCoreAnswers /\ [Next]_fabricVars => NoCoreAnswers'
  <2> SUFFICES ASSUME FabricInv, NoCoreAnswers, [Next]_fabricVars
               PROVE  NoCoreAnswers'
    OBVIOUS
  <2>1. CASE Clock
    BY <2>1, ClockAnswersNothing
  <2>2. CASE Drive \/ UNCHANGED fabricVars
    BY <2>2 DEF Drive, fabricVars, cores, NoCoreAnswers
  <2>3. CASE KeyReset
    BY <2>3 DEF KeyReset, AllCores, NoCoreAnswers
  <2> QED
    BY <2>1, <2>2, <2>3 DEF Next
<1>3. Spec => []NoCoreAnswers
  BY <1>1, <1>2, FabricInvCorrect, PTL DEF Spec
<1>4. FabricInv /\ NoCoreAnswers /\ [Next]_fabricVars
        => [Clock /\ busy => busy']_fabricVars
  <2> SUFFICES ASSUME FabricInv, NoCoreAnswers, Clock, busy PROVE busy'
    OBVIOUS
  <2>1. active_cluster_sel \in Clusters
    BY DEF FabricInv, TypeOK
  <2>2. ~selected_done
    BY <2>1, EveryClusterHasACore DEF selected_done, NoCoreAnswers
  <2> QED
    BY <2>2 DEF Clock, FabricEdge
<1> QED
  BY <1>3, <1>4, FabricInvCorrect, PTL DEF Spec, BusyUntilReset
=============================================================================
