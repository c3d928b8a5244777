-------------------------- MODULE ClusterHostProofs -------------------------
(***************************************************************************)
(* The driver on its hardware, for every word size, any number of packs    *)
(* and any sequence of calls with up to three cores.  In this order: types *)
(* and bounds of the loops; that the host and the cluster stay in step     *)
(* (HostInv, on BusInv of ApbBusProofs); what the registers and the lanes  *)
(* hold as the handshake goes on (DataInv) and so what is delivered; with  *)
(* one core, that it is the product, and that the driver implements        *)
(* MatrixService.                                                          *)
(***************************************************************************)
EXTENDS ClusterHost, ApbBusProofs, FiniteSetTheorems, FunctionTheorems

(* Arrays and indices *)

LEMMA ElementIndex ==
    /\ Elements = 0 .. 3
    /\ Index = 0 .. 1
    /\ \A e \in Elements : row(e) \in Index /\ col(e) \in Index
    /\ \A r \in Index, c \in Index : r * MATRIX_SIZE + c \in Elements
  BY DEF Elements, Index, MATRIX_SIZE, row, col

LEMMA PackWords ==
    ASSUME NEW pair \in Pair, NEW e \in Elements, NEW w \in Elements
    PROVE  make_matrix_mult_pack(pair)[e][w] \in Word
<1>1. w < MATRIX_SIZE => w \in Index
  BY DEF Elements, Index, MATRIX_SIZE
<1>2. w >= MATRIX_SIZE => w - MATRIX_SIZE \in Index
  BY DEF Elements, Index, MATRIX_SIZE
<1>3. w < MATRIX_SIZE => pair.a[row(e)][w] \in Word
  BY <1>1, ElementIndex DEF Pair, Matrix
<1>4. w >= MATRIX_SIZE => pair.b[w - MATRIX_SIZE][col(e)] \in Word
  BY <1>2, ElementIndex DEF Pair, Matrix
<1>5. w < MATRIX_SIZE \/ w >= MATRIX_SIZE
  BY DEF Elements, MATRIX_SIZE
<1> QED
  BY <1>3, <1>4, <1>5 DEF make_matrix_mult_pack

LEMMA ClearIsMatrix == clear_matrix \in Matrix
  BY CodesAreWords DEF clear_matrix, Matrix

LEMMA PackagedIsMatrix ==
    ASSUME NEW output \in [Elements -> Word], NEW count \in 0 .. 4,
           NEW start \in Elements, NEW m \in Matrix
    PROVE  package_cluster_outputs_into_matrix(output, count, start, m) \in Matrix
<1>1. ASSUME NEW r \in Index, NEW c \in Index,
             start <= r * MATRIX_SIZE + c
      PROVE  (r * MATRIX_SIZE + c) - start \in Elements
  BY <1>1 DEF Elements, Index, MATRIX_SIZE
<1>2. ASSUME NEW r \in Index, NEW c \in Index
      PROVE  (IF start <= r * MATRIX_SIZE + c
                   /\ r * MATRIX_SIZE + c < start + count
              THEN output[(r * MATRIX_SIZE + c) - start] ELSE m[r][c]) \in Word
  BY <1>1 DEF Matrix
<1> DEFINE Row(r) == [c \in Index |->
               IF start <= r * MATRIX_SIZE + c
                    /\ r * MATRIX_SIZE + c < start + count
               THEN output[(r * MATRIX_SIZE + c) - start] ELSE m[r][c]]
<1>3. \A r \in Index : Row(r) \in [Index -> Word]
  BY <1>2
<1>4. package_cluster_outputs_into_matrix(output, count, start, m)
        = [r \in Index |-> Row(r)]
  BY DEF package_cluster_outputs_into_matrix
<1> HIDE DEF Row
<1> QED
  BY <1>3, <1>4 DEF Matrix

(* The cores of a chunk have lanes and elements. *)
LEMMA ChunkBounds ==
    ASSUME TypeOK
    PROVE  /\ num_cores \in 0 .. 3
           /\ chunk_core_count \in 0 .. 3
           /\ chunk_core_count <= num_cores
           /\ start_core_idx + chunk_core_count <= 4
<1>1. num_cores \in 0 .. 3
  BY HostAssumption DEF TypeOK, num_cores
<1>2. start_core_idx \in 0 .. 3
  BY ElementIndex DEF TypeOK
<1> QED
  BY <1>1, <1>2 DEF chunk_core_count, MATRIX_SIZE

LEMMA PointNames ==
    /\ DOMAIN Following = {"store_reset", "show_start", "show_reset",
           "store_signal_tx", "show_ready", "store_tx_complete", "show_done"}
    /\ DOMAIN Awaited = {"poll_reset", "poll_ready", "poll_done"}
    /\ AccessPoints = DOMAIN Following \cup DOMAIN Awaited
                          \cup {"store_operand", "load_result"}
  BY DEF AccessPoints, Following, Awaited

(* HostAccess as a table. *)
LEMMA AccessTable ==
    /\ pc = "store_reset" => HostAccess = WriteOf(INSTRUCTION, INST_RESET)
    /\ pc = "store_signal_tx"
         => HostAccess = WriteOf(INSTRUCTION, INST_SIGNAL_TX)
    /\ pc = "store_tx_complete"
         => HostAccess = WriteOf(INSTRUCTION, INST_TX_COMPLETE)
    /\ pc = "store_operand" => HostAccess =
         WriteOf(DATA + 4 * core_idx + word_idx,
                 OperandWord(start_core_idx + core_idx, word_idx))
    /\ pc = "load_result" => HostAccess = ReadOf(DATA + core_idx)
    /\ pc \in {"show_start", "poll_reset", "show_reset", "poll_ready",
               "show_ready", "poll_done", "show_done"}
         => HostAccess = ReadOf(STATUS)
  BY DEF HostAccess

LEMMA AccessesAreWellFormed ==
    /\ \A r \in Regs, v \in Word : WriteOf(r, v) \in Access
    /\ \A r \in Regs : ReadOf(r) \in Access
  BY CodesAreWords DEF WriteOf, ReadOf, Access

LEMMA HostAccessType ==
    ASSUME TypeOK, InBounds, pc \in AccessPoints
    PROVE  HostAccess \in Access
<1>1. 0 \in Word /\ INST_RESET \in Word /\ INST_SIGNAL_TX \in Word
        /\ INST_TX_COMPLETE \in Word
  BY CodesAreWords DEF INST_RESET, INST_SIGNAL_TX, INST_TX_COMPLETE
<1>2. INSTRUCTION \in Regs /\ STATUS \in Regs
  BY DEF Regs, INSTRUCTION, STATUS
<1>3. CASE pc = "store_operand"
  <2>1. core_idx \in 0 .. 2 /\ word_idx \in 0 .. 3 /\ start_core_idx \in 0 .. 3
    BY ElementIndex DEF TypeOK, Lanes
  <2>2. start_core_idx + core_idx \in Elements
    BY <2>1, ChunkBounds, ElementIndex DEF InBounds
  <2>3. pairs[pack_idx] \in Pair
    BY HostAssumption DEF InBounds, TypeOK
  <2>4. OperandWord(start_core_idx + core_idx, word_idx) \in Word
    BY <2>1, <2>2, <2>3, PackWords, ElementIndex DEF OperandWord
  <2>5. DATA + 4 * core_idx + word_idx \in Regs
    BY <2>1 DEF DATA, Regs
  <2> QED
    BY <1>3, <2>4, <2>5, AccessTable, AccessesAreWellFormed
<1>4. CASE pc = "load_result"
  <2>1. DATA + core_idx \in Regs
    BY DEF TypeOK, Lanes, DATA, Regs
  <2> QED
    BY <1>4, <2>1, AccessTable, AccessesAreWellFormed
<1>5. CASE pc \notin {"store_operand", "load_result"}
  BY <1>1, <1>2, <1>5, PointNames, AccessTable, AccessesAreWellFormed
<1> QED
  BY <1>3, <1>4, <1>5

-----------------------------------------------------------------------------
(* Types and bounds, one lemma per action *)

Typed == TypeOK /\ InBounds

LEMMA InitTyped == Init => Typed
<1> SUFFICES ASSUME Init PROVE Typed
  OBVIOUS
<1>1. BusTypeOK
  BY InitType DEF Init
<1>2. run \in DOMAIN CoreCounts
  BY HostAssumption DEF Init
<1>3. matrix_output_array \in [Packs -> Matrix]
  BY ClearIsMatrix DEF Init
<1>4. output_array \in [Elements -> Word]
  BY CodesAreWords DEF Init
<1>5. pack_idx \in 0 .. PackCount
  BY HostAssumption DEF Init
<1>6. pc = "dead" /\ pc \notin AccessPoints
  BY PointNames DEF Init
<1> QED
  BY <1>1, <1>2, <1>3, <1>4, <1>5, <1>6, ElementIndex
     DEF Init, Typed, TypeOK, InBounds, Points, Lanes

(* Steps that leave the program alone. *)
LEMMA HardwareTyped ==
    ASSUME Typed, BusTypeOK', UNCHANGED hostVars
    PROVE  Typed'
  BY DEF Typed, TypeOK, InBounds, hostVars, locals, chunk_core_count, num_cores

LEMMA IssueTyped ==
    ASSUME Typed, HostIssue
    PROVE  Typed'
<1>1. HostAccess \in Access /\ Request(HostAccess) /\ UNCHANGED hostVars
  BY HostAccessType DEF Typed, HostIssue
<1>2. BusTypeOK'
  BY <1>1, RequestType DEF Typed, TypeOK
<1> QED
  BY <1>1, <1>2, HardwareTyped

LEMMA ProceedTyped ==
    ASSUME Typed, BusTypeOK', Proceed
    PROVE  Typed'
<1>1. UNCHANGED <<pairs, locals>> /\ pc \in AccessPoints /\ pc' \in AccessPoints
  BY PointNames DEF Proceed, Following
<1>2. chunk_core_count' = chunk_core_count
  BY <1>1 DEF locals, chunk_core_count, num_cores
<1> QED
  BY <1>1, <1>2 DEF Typed, TypeOK, InBounds, Points, locals

LEMMA PollTyped ==
    ASSUME Typed, BusTypeOK', NEW data, Poll(data)
    PROVE  Typed'
<1>1. UNCHANGED <<pairs, locals>> /\ pc \in AccessPoints /\ pc' \in AccessPoints
  BY PointNames DEF Poll, Awaited
<1>2. chunk_core_count' = chunk_core_count
  BY <1>1 DEF locals, chunk_core_count, num_cores
<1> QED
  BY <1>1, <1>2 DEF Typed, TypeOK, InBounds, Points, locals

LEMMA StoredOperandTyped ==
    ASSUME Typed, BusTypeOK', StoredOperand
    PROVE  Typed'
<1>1. pc \in AccessPoints /\ pc' \in AccessPoints
  BY PointNames DEF StoredOperand
<1>2. chunk_core_count' = chunk_core_count
  BY DEF StoredOperand, chunk_core_count, num_cores
<1>3. chunk_core_count \in 0 .. 3 /\ 0 <= core_idx /\ core_idx < chunk_core_count
  BY <1>1, ChunkBounds DEF Typed, InBounds, TypeOK, Lanes
<1>4. /\ core_idx' \in Lanes /\ core_idx' < chunk_core_count
      /\ word_idx' \in Elements
  BY <1>3, ElementIndex DEF StoredOperand, Typed, TypeOK, Lanes
<1> QED
  BY <1>1, <1>2, <1>4 DEF StoredOperand, Typed, TypeOK, InBounds, Points

LEMMA LoadedResultTyped ==
    ASSUME Typed, BusTypeOK', NEW data \in Word, LoadedResult(data)
    PROVE  Typed'
<1>1. pc \in AccessPoints /\ pc' \in AccessPoints \cup {"package"}
  BY PointNames DEF LoadedResult
<1>2. chunk_core_count' = chunk_core_count
  BY DEF LoadedResult, chunk_core_count, num_cores
<1>3. chunk_core_count \in 0 .. 3 /\ 0 <= core_idx /\ core_idx < chunk_core_count
  BY <1>1, ChunkBounds DEF Typed, InBounds, TypeOK, Lanes
<1>4. core_idx' \in Lanes /\ core_idx' < chunk_core_count
  BY <1>3 DEF LoadedResult, Typed, TypeOK, Lanes
<1>5. output_array' \in [Elements -> Word]
  BY DEF LoadedResult, Typed, TypeOK
<1>6. pc' \in Points
  BY <1>1 DEF Points
<1> QED
  BY <1>1, <1>2, <1>4, <1>5, <1>6 DEF LoadedResult, Typed, TypeOK, InBounds

LEMMA HostRespondTyped ==
    ASSUME Typed, HostRespond
    PROVE  Typed'
<1>1. BusTypeOK'
  BY RespondType DEF HostRespond, Typed, TypeOK
<1>2. prdata_reg \in Word
  BY DEF Typed, TypeOK, BusTypeOK
<1>3. CASE Proceed
  BY <1>1, <1>3, ProceedTyped
<1>4. CASE Poll(prdata_reg)
  BY <1>1, <1>4, PollTyped
<1>5. CASE StoredOperand
  BY <1>1, <1>5, StoredOperandTyped
<1>6. CASE LoadedResult(prdata_reg)
  BY <1>1, <1>2, <1>6, LoadedResultTyped
<1>7. CASE UNCHANGED hostVars
  BY <1>1, <1>7, HardwareTyped
<1> QED
  BY <1>3, <1>4, <1>5, <1>6, <1>7 DEF HostRespond

LEMMA CallTyped ==
    ASSUME Typed, Call
    PROVE  Typed'
<1>1. BusTypeOK'
  BY StutterType DEF Call, Typed, TypeOK
<1>2. pc' = "transact" /\ pack_idx' = 0 /\ 0 \in Packs /\ 0 \in 0 .. PackCount
  BY HostAssumption DEF Call, Packs
<1>3. matrix_output_array' \in [Packs -> Matrix]
  BY ClearIsMatrix DEF Call, Typed, TypeOK
<1> QED
  BY <1>1, <1>2, <1>3, PointNames, ElementIndex
     DEF Call, Typed, TypeOK, InBounds, Points

LEMMA TransactTyped ==
    ASSUME Typed, Transact
    PROVE  Typed'
<1>1. BusTypeOK'
  BY StutterType DEF Transact, Typed, TypeOK
<1>2. chunk_core_count' = chunk_core_count
  BY DEF Transact, chunk_core_count, num_cores
<1>3. pack_idx \in Packs
  BY DEF Transact, Typed, InBounds
<1>4. pc' \in Points /\ pc' # "package" /\ pc' # "transact"
  BY PointNames DEF Transact, Points
<1>5. pc' \in AccessPoints => 0 < chunk_core_count
  BY PointNames, ChunkBounds DEF Transact, ArgumentsOK, Typed
<1>6. 0 \in Lanes /\ 0 \in Elements
  BY ElementIndex DEF Lanes
<1> QED
  BY <1>1, <1>2, <1>3, <1>4, <1>5, <1>6 DEF Transact, Typed, TypeOK, InBounds

LEMMA PackageTyped ==
    ASSUME Typed, Package
    PROVE  Typed'
<1>1. BusTypeOK'
  BY StutterType DEF Package, Typed, TypeOK
<1>2. pack_idx \in Packs /\ pack_idx \in 0 .. PackCount
  BY DEF Package, Typed, TypeOK, InBounds
<1> DEFINE m == package_cluster_outputs_into_matrix(
                    output_array, chunk_core_count, start_core_idx,
                    matrix_output_array[pack_idx])
           packaged == [matrix_output_array EXCEPT ![pack_idx] = m]
<1>3. m \in Matrix
  BY <1>2, ChunkBounds, PackagedIsMatrix DEF Typed, TypeOK
<1>4. packaged \in [Packs -> Matrix]
  BY <1>3 DEF Typed, TypeOK
<1>5. matrix_output_array' \in
          {packaged, [packaged EXCEPT ![pack_idx + 1] = clear_matrix]}
  BY DEF Package
<1> HIDE DEF m, packaged
<1>6. matrix_output_array' \in [Packs -> Matrix]
  BY <1>4, <1>5, ClearIsMatrix
<1>7. start_core_idx' \in Elements
  BY ElementIndex DEF Package, MoreChunks
<1>8. /\ pc' \in {"transact", "returned"}
      /\ pack_idx' \in 0 .. PackCount
      /\ pc' = "transact" => pack_idx' \in Packs
  BY <1>2, HostAssumption DEF Package, Packs
<1>9. pc' \in Points /\ pc' \notin AccessPoints \cup {"package"}
  BY <1>8, PointNames DEF Points
<1> QED
  BY <1>1, <1>6, <1>7, <1>8, <1>9 DEF Package, Typed, TypeOK, InBounds

LEMMA ReturnTyped ==
    ASSUME Typed, Return
    PROVE  Typed'
<1>1. BusTypeOK'
  BY StutterType DEF Return, Typed, TypeOK
<1>2. run' \in DOMAIN CoreCounts
  BY HostAssumption DEF Return, Typed, TypeOK
<1>3. pc' \in {"call", "exit"} /\ pack_idx' = 0 /\ start_core_idx' = 0
  BY DEF Return
<1>4. 0 \in 0 .. PackCount /\ 0 \in Elements
  BY HostAssumption, ElementIndex
<1> QED
  BY <1>1, <1>2, <1>3, <1>4, PointNames
     DEF Return, Typed, TypeOK, InBounds, Points

LEMMA FreshTyped ==
    ASSUME Typed, BusTypeOK', FreshLocals, UNCHANGED pairs,
           pc' \in {"dead", "call"}
    PROVE  Typed'
<1>1. run' \in DOMAIN CoreCounts
  BY HostAssumption DEF FreshLocals
<1>2. matrix_output_array' \in [Packs -> Matrix]
  BY ClearIsMatrix DEF FreshLocals
<1>3. output_array' \in [Elements -> Word]
  BY CodesAreWords DEF FreshLocals
<1>4. pack_idx' \in 0 .. PackCount
  BY HostAssumption DEF FreshLocals
<1> QED
  BY <1>1, <1>2, <1>3, <1>4, PointNames, ElementIndex
     DEF FreshLocals, Typed, TypeOK, InBounds, Points, Lanes

LEMMA NextTyped ==
    ASSUME Typed, [Next]_vars
    PROVE  Typed'
<1> USE DEF Typed, TypeOK
<1>1. CASE SilentEdge /\ UNCHANGED hostVars
  BY <1>1, SilentEdgeType, HardwareTyped
<1>2. CASE HostRespond
  BY <1>2, HostRespondTyped
<1>3. CASE HostStep
  BY <1>3, IssueTyped, CallTyped, TransactTyped, PackageTyped, ReturnTyped
     DEF HostStep
<1>4. CASE Kill
  BY <1>4, StutterType, FreshTyped DEF Kill
<1>5. CASE Restart
  BY <1>5, StutterType, FreshTyped DEF Restart
<1>6. CASE Reset
  BY <1>6, ResetType, FreshTyped DEF Reset
<1>7. CASE UNCHANGED vars
  BY <1>7, StutterType, HardwareTyped DEF vars
<1> QED
  BY <1>1, <1>2, <1>3, <1>4, <1>5, <1>6, <1>7 DEF Next

(* No access of the driver leaves the register file and no loop its arrays,
   for any number of packs and any calls with up to three cores.           *)
THEOREM TypeCorrect == Spec => []TypeOK
<1>1. Typed /\ [Next]_vars => Typed'
  BY NextTyped
<1>2. Typed => TypeOK
  BY DEF Typed
<1> QED
  BY InitTyped, <1>1, <1>2, PTL DEF Spec

-----------------------------------------------------------------------------
(* Host and cluster stay in step.  An access is Quiet if it cannot change the
   instruction: then nothing but the end of a computation moves the cluster. *)

Quiet == req = NoAccess \/ ~ req.write \/ req.reg # INSTRUCTION

LEMMA QuietEdge ==
    ASSUME BusInv, Edge, Quiet
    PROVE  /\ instruction' = instruction
           /\ state = ST_RESET /\ instruction = INST_RESET => state' = ST_RESET
           /\ state = ST_READY_RX /\ instruction = INST_SIGNAL_TX
                => state' = ST_READY_RX
           /\ state = ST_DONE /\ instruction = INST_TX_COMPLETE
                => state' = ST_DONE
<1>1. BusTypeOK /\ InFlight
  BY DEF BusInv
<1>2. ~ (psel /\ pwrite /\ cp_data_reg.reg = INSTRUCTION)
  BY <1>1, AccessAssumption DEF Quiet, InFlight, BusTypeOK, psel, pwrite
<1>3. INSTRUCTION \in Regs \ {STATUS}
  BY DEF INSTRUCTION, STATUS, Regs
<1>4. instruction' = instruction
  BY <1>1, <1>2, <1>3, EdgeEffect DEF instruction
<1>5. state' = next_state
  BY <1>1, EdgeEffect
<1> QED
  BY <1>4, <1>5, NextStateTable DEF ST_RESET, ST_READY_RX, ST_DONE, INST_RESET,
     INST_SIGNAL_TX, INST_TX_COMPLETE

(* The answer to a store of an instruction finds it in register 0. *)
LEMMA RespondInstruction ==
    ASSUME BusInv, BusRespond
    PROVE  /\ instruction' = instruction
           /\ \A v : req = WriteOf(INSTRUCTION, v) => instruction = v
<1>1. BusTypeOK /\ InFlight /\ Transferred /\ apb_state = "SEND_RESPONSE" /\ Edge
  BY DEF BusInv, BusRespond
<1>2. INSTRUCTION \in Regs \ {STATUS}
  BY DEF INSTRUCTION, STATUS, Regs
<1>3. instruction' = instruction
  BY <1>1, <1>2, EdgeEffect DEF instruction, psel
<1>4. req = cp_data_reg
  BY <1>1 DEF InFlight
<1> QED
  BY <1>1, <1>2, <1>3, <1>4 DEF Transferred, WriteOf, pwrite, instruction

(* The access in progress is Quiet wherever the host relies on the cluster. *)
LEMMA RelyingIsQuiet ==
    ASSUME HostInv,
           \/ pc \in AccessPoints
                \ {"store_reset", "store_signal_tx", "store_tx_complete"}
           \/ req = NoAccess
    PROVE  Quiet
<1>1. CASE req = NoAccess
  BY <1>1 DEF Quiet
<1>2. CASE pc = "store_operand" /\ req # NoAccess
  <2>1. req = HostAccess /\ core_idx \in 0 .. 2 /\ word_idx \in 0 .. 3
    BY <1>2, PointNames, ElementIndex DEF HostInv, Asked, TypeOK, Lanes
  <2>2. DATA + 4 * core_idx + word_idx # INSTRUCTION
    BY <2>1 DEF DATA, INSTRUCTION
  <2> QED
    BY <1>2, <2>1, <2>2, AccessTable DEF Quiet, WriteOf
<1>3. CASE /\ req # NoAccess
           /\ pc \in AccessPoints \ {"store_reset", "store_signal_tx",
                                    "store_tx_complete", "store_operand"}
  <2>1. req = HostAccess
    BY <1>3 DEF HostInv, Asked
  <2> QED
    BY <1>3, <2>1, PointNames, AccessTable DEF Quiet, ReadOf
<1> QED
  BY <1>1, <1>2, <1>3

LEMMA SilentInStep ==
    ASSUME HostInv, SilentEdge, UNCHANGED hostVars
    PROVE  (Asked /\ LastInstruction /\ HostInStep)'
<1>1. Edge /\ BusInv /\ UNCHANGED req
  BY DEF SilentEdge, BusIdle, BusAccept, BusSetUp, BusAccess, BusStall, HostInv
<1>2. UNCHANGED pc /\ HostAccess' = HostAccess
  BY DEF hostVars, locals, HostAccess, OperandWord
<1>3. Asked'
  BY <1>1, <1>2 DEF HostInv, Asked
<1>4. LastInstruction'
  BY <1>1, <1>2, RelyingIsQuiet, QuietEdge, PointNames
     DEF HostInv, LastInstruction, Between
<1>5. HostInStep'
  BY <1>1, <1>2, RelyingIsQuiet, QuietEdge, PointNames
     DEF HostInv, LastInstruction, HostInStep, Between
<1> QED
  BY <1>3, <1>4, <1>5

(* The host issues an access, or computes: the hardware is as it was. *)
LEMMA IssueInStep ==
    ASSUME HostInv, HostIssue
    PROVE  (Asked /\ LastInstruction /\ HostInStep)'
<1>1. /\ UNCHANGED <<state, data_out, pc>> /\ req = NoAccess
      /\ req' = HostAccess /\ pc \in AccessPoints
  BY DEF HostIssue, Request, ipVars, hostVars
<1>2. HostAccess' = HostAccess
  BY DEF HostIssue, hostVars, locals, HostAccess, OperandWord
<1>3. Asked'
  BY <1>1, <1>2 DEF Asked
<1>4. LastInstruction' /\ HostInStep'
  BY <1>1 DEF HostInv, LastInstruction, HostInStep, Between, instruction
<1> QED
  BY <1>3, <1>4

LEMMA ComputeInStep ==
    ASSUME HostInv, Call \/ Transact \/ Package \/ Return
    PROVE  (Asked /\ LastInstruction /\ HostInStep)'
<1>1. UNCHANGED req
  BY DEF Call, Transact, Package, Return, hwVars
<1>2. pc \in {"call", "transact", "package", "returned"}
  BY DEF Call, Transact, Package, Return
<1>3. pc' \in {"call", "transact", "returned", "exit", "store_reset"}
  BY DEF Call, Transact, Package, Return
<1>4. req = NoAccess
  BY <1>2, PointNames DEF HostInv, Asked
<1> QED
  BY <1>1, <1>3, <1>4 DEF Asked, LastInstruction, HostInStep, Between

LEMMA FreshInStep ==
    ASSUME pc' = "dead" \/ (pc' = "call" /\ req' = NoAccess)
    PROVE  (Asked /\ LastInstruction /\ HostInStep)'
  BY PointNames DEF Asked, LastInstruction, HostInStep, Between

(* An answer moves the host on.  The cases are those of the program points. *)
LEMMA RespondInStep ==
    ASSUME HostInv, HostRespond
    PROVE  (Asked /\ LastInstruction /\ HostInStep)'
<1>1. /\ BusInv /\ BusRespond /\ Edge /\ req' = NoAccess
      /\ apb_state = "SEND_RESPONSE" /\ InFlight /\ cp_data_reg \in Access
      /\ StatusIsCurrent
  BY DEF HostRespond, BusRespond, HostInv, BusInv, BusTypeOK
<1>2. req # NoAccess /\ req = cp_data_reg
  BY <1>1, AccessAssumption DEF InFlight
<1>3. instruction' = instruction
  BY <1>1, RespondInstruction
<1>4. CASE pc \notin AccessPoints
  <2>1. pc = "dead"
    BY <1>2, <1>4 DEF HostInv, Asked
  <2>2. pc' = "dead"
    BY <2>1, PointNames DEF HostRespond, Proceed, Poll, StoredOperand,
       LoadedResult, hostVars
  <2> QED
    BY <2>2, FreshInStep
<1>5. CASE pc \in AccessPoints
  <2>1. req = HostAccess
    BY <1>2, <1>5 DEF HostInv, Asked
  <2>2. \/ Proceed \/ Poll(prdata_reg) \/ StoredOperand
        \/ LoadedResult(prdata_reg)
    BY <1>5 DEF HostRespond
  <2>3. Asked'
    <3>1. pc' \in AccessPoints \cup {"package"}
      BY <2>2, PointNames
         DEF Proceed, Following, Poll, Awaited, StoredOperand, LoadedResult
    <3> QED
      BY <1>1 DEF Asked
  <2>4. CASE pc \in {"store_reset", "store_signal_tx", "store_tx_complete"}
    <3>1. /\ pc = "store_reset" => instruction = INST_RESET
          /\ pc = "store_signal_tx" => instruction = INST_SIGNAL_TX
          /\ pc = "store_tx_complete" => instruction = INST_TX_COMPLETE
      BY <1>1, <2>1, RespondInstruction, AccessTable
    <3>2. /\ pc = "store_reset" => pc' = "show_start"
          /\ pc = "store_signal_tx" => pc' = "poll_ready"
          /\ pc = "store_tx_complete" => pc' = "poll_done"
      BY <2>2, <2>4, PointNames
         DEF Proceed, Following, Poll, StoredOperand, LoadedResult
    <3> QED
      BY <1>3, <2>3, <2>4, <3>1, <3>2
         DEF LastInstruction, HostInStep, Between
  <2>5. CASE pc \notin {"store_reset", "store_signal_tx", "store_tx_complete"}
    <3>1. /\ state = ST_RESET /\ instruction = INST_RESET => state' = ST_RESET
          /\ state = ST_READY_RX /\ instruction = INST_SIGNAL_TX
               => state' = ST_READY_RX
          /\ state = ST_DONE /\ instruction = INST_TX_COMPLETE
               => state' = ST_DONE
      BY <1>1, <1>5, <2>5, RelyingIsQuiet, QuietEdge
    <3>2. CASE Proceed
      <4>1. \/ pc = "show_start" /\ pc' = "poll_reset"
            \/ pc = "show_reset" /\ pc' = "store_signal_tx"
            \/ pc = "show_ready" /\ pc' = "store_operand"
            \/ pc = "show_done" /\ pc' = "load_result"
        BY <2>5, <3>2, PointNames DEF Proceed, Following
      <4> QED
        BY <1>1, <1>3, <2>3, <3>1, <4>1
           DEF HostInv, LastInstruction, HostInStep, Between
    <3>3. CASE Poll(prdata_reg)
      <4>1. /\ pc \in {"poll_reset", "poll_ready", "poll_done"}
            /\ \/ pc' = pc
               \/ /\ pc = "poll_reset" /\ pc' = "show_reset"
                  /\ prdata_reg = STATUS_RESET
               \/ /\ pc = "poll_ready" /\ pc' = "show_ready"
                  /\ prdata_reg = STATUS_READY_RX
               \/ /\ pc = "poll_done" /\ pc' = "show_done"
                  /\ prdata_reg = STATUS_DONE_TX
        BY <3>3, PointNames DEF Poll, Awaited
      <4>2. ~ pwrite /\ cp_data_reg.reg = STATUS
        BY <1>2, <2>1, <4>1, AccessTable DEF ReadOf, pwrite
      <4>3. prdata_reg = status
              \/ (prdata_reg = STATUS_PROCESSING /\ state = ST_DONE)
        BY <1>1, <4>2 DEF StatusIsCurrent
      <4>4. /\ prdata_reg = STATUS_RESET => state = ST_RESET
            /\ prdata_reg = STATUS_READY_RX => state = ST_READY_RX
            /\ prdata_reg = STATUS_DONE_TX => state = ST_DONE
        BY <1>1, <4>3, StatusTable DEF BusInv, BusTypeOK, IpTypeOK, States,
           status, STATUS_RESET, STATUS_READY_RX, STATUS_ACK_RX,
           STATUS_PROCESSING, STATUS_DONE_TX
      <4> QED
        BY <1>1, <1>3, <2>3, <3>1, <4>1, <4>4
           DEF HostInv, LastInstruction, HostInStep, Between
    <3>4. CASE StoredOperand
      <4>1. pc = "store_operand" /\ pc' \in {"store_operand", "store_tx_complete"}
        BY <3>4 DEF StoredOperand
      <4> QED
        BY <1>1, <1>3, <2>3, <3>1, <4>1
           DEF HostInv, LastInstruction, HostInStep, Between
    <3>5. CASE LoadedResult(prdata_reg)
      <4>1. pc = "load_result" /\ pc' \in {"load_result", "package"}
        BY <3>5 DEF LoadedResult
      <4> QED
        BY <1>1, <1>3, <2>3, <3>1, <4>1
           DEF HostInv, LastInstruction, HostInStep, Between
    <3> QED
      BY <2>2, <3>2, <3>3, <3>4, <3>5
  <2> QED
    BY <2>4, <2>5
<1> QED
  BY <1>4, <1>5

(* The hardware's part: each step of Next is one of ApbBus. *)
LEMMA NextBusInv ==
    ASSUME HostInv, [Next]_vars
    PROVE  BusInv'
<1>1. BusInv
  BY DEF HostInv
<1>2. CASE SilentEdge /\ UNCHANGED hostVars
  BY <1>1, <1>2, SilentEdgeInv
<1>3. CASE HostRespond
  BY <1>1, <1>3, RespondInv DEF HostRespond
<1>4. CASE HostIssue
  <2>1. HostAccess \in Access /\ Request(HostAccess)
    BY <1>4, HostAccessType DEF HostInv, HostIssue
  <2> QED
    BY <1>1, <2>1, RequestInv
<1>5. CASE Reset
  BY <1>1, <1>5, ResetInv DEF Reset
<1>6. CASE UNCHANGED hwVars
  BY <1>1, <1>6, StutterInv
<1> QED
  BY <1>2, <1>3, <1>4, <1>5, <1>6
     DEF Next, HostStep, Call, Transact, Package, Return, Kill, Restart, vars

LEMMA NextHostInv ==
    ASSUME HostInv, [Next]_vars
    PROVE  HostInv'
<1>1. (TypeOK /\ InBounds)'
  BY NextTyped DEF HostInv, Typed
<1>2. (Asked /\ LastInstruction /\ HostInStep)'
  <2>1. CASE SilentEdge /\ UNCHANGED hostVars
    BY <2>1, SilentInStep
  <2>2. CASE HostRespond
    BY <2>2, RespondInStep
  <2>3. CASE HostStep
    BY <2>3, IssueInStep, ComputeInStep DEF HostStep
  <2>4. CASE Kill \/ Restart \/ Reset
    BY <2>4, FreshInStep DEF Kill, Restart, Reset, hwVars
  <2>5. CASE UNCHANGED vars
    BY <2>5 DEF vars, hwVars, hostVars, locals, HostInv, Asked, LastInstruction,
       HostInStep, Between, instruction, HostAccess, OperandWord
  <2> QED
    BY <2>1, <2>2, <2>3, <2>4, <2>5 DEF Next
<1> QED
  BY <1>1, <1>2, NextBusInv DEF HostInv

(* HostInv is inductive for the driver, its kills and restarts, and resets of
   the board, whatever the number of packs and cores and the word size.    *)
THEOREM HostInvCorrect == Spec => []HostInv
<1>1. Init => HostInv
  <2> SUFFICES ASSUME Init PROVE HostInv
    OBVIOUS
  <2>1. pc = "dead" /\ pc \notin AccessPoints
    BY PointNames DEF Init
  <2>2. Asked /\ LastInstruction /\ HostInStep
    BY <2>1 DEF Asked, LastInstruction, HostInStep, Between
  <2> QED
    BY <2>2, InitInv, InitTyped DEF Init, Typed, HostInv
<1>2. HostInv /\ [Next]_vars => HostInv'
  BY NextHostInv
<1> QED
  BY <1>1, <1>2, PTL DEF Spec

(* From the poll that saw it until its next instruction the host finds the
   cluster in the state it has polled for, even on registers that a killed
   process left anywhere in the handshake.                                 *)
THEOREM HostStaysInStep == Spec => []HostInStep
<1>1. HostInv => HostInStep
  BY DEF HostInv
<1> QED
  BY HostInvCorrect, <1>1, PTL

-----------------------------------------------------------------------------
(* The data of the handshake: what the lanes are given, what they publish,
   what the host packages.                                                 *)

(* The data of the current chunk.  What the registers and lanes hold depends
   on how far the cluster is: operands until they have been latched, then
   the lanes' results, then their words.                                   *)
Holds(c, w) == Operand(c, w) = OperandWord(start_core_idx + c, w)

Published ==
    \A c \in ChunkLanes :
        /\ data_out[DATA + 2 * c] = LoWord(ChunkResult(c))
        /\ data_out[DATA + 2 * c + 1] = HiWord(ChunkResult(c))

Chunk ==
    /\ state \in {ST_READY_RX, ST_ACK_RX, ST_PROCESSING, ST_DONE}
    /\ instruction \in {INST_SIGNAL_TX, INST_TX_COMPLETE}
    /\ state # ST_READY_RX => instruction = INST_TX_COMPLETE
    /\ state \in {ST_READY_RX, ST_ACK_RX} =>
           \A c \in ChunkLanes, w \in Elements : Holds(c, w)
    /\ state = ST_PROCESSING =>
           \A c \in ChunkLanes : mac_result[c] = ChunkResult(c)
    /\ state = ST_DONE => Published

InChunk == {"store_tx_complete", "poll_done", "show_done", "load_result"}

(* The word the host loads for core c. *)
LaneWord(c) ==
    IF c % 2 = 0 THEN LoWord(ChunkResult(c \div 2))
                 ELSE HiWord(ChunkResult(c \div 2))

LoopsStart ==
    pc \in AccessPoints \ {"store_operand", "load_result"} =>
        core_idx = 0 /\ word_idx = 0

StoredSoFar ==
    pc = "store_operand" =>
        \A c \in Lanes, w \in Elements :
            4 * c + w < 4 * core_idx + word_idx => Holds(c, w)

LoadedSoFar ==
    /\ pc = "load_result" =>
           \A c \in Elements : c < core_idx => output_array[c] = LaneWord(c)
    /\ pc = "package" => \A c \in ChunkLanes : output_array[c] = LaneWord(c)

(* Chunks begin at multiples of the number of cores; without cores there is
   nothing to deliver.                                                     *)
ChunkStarts ==
    IF num_cores = 0 THEN pack_idx = 0 /\ start_core_idx = 0
                     ELSE start_core_idx % num_cores = 0

DataInv ==
    /\ LoopsStart
    /\ StoredSoFar
    /\ pc \in InChunk => Chunk
    /\ LoadedSoFar
    /\ ChunkStarts
    /\ ElementsAreLaneWords

FullInv == HostInv /\ DataInv

(* What the invariant speaks of beside the hardware. *)
chunkVars == <<pairs, run, pack_idx, start_core_idx>>

LEMMA SameChunk ==
    ASSUME UNCHANGED chunkVars
    PROVE  /\ num_cores' = num_cores
           /\ chunk_core_count' = chunk_core_count
           /\ ChunkLanes' = ChunkLanes
           /\ \A e, w : OperandWord(e, w)' = OperandWord(e, w)
           /\ \A c : ChunkResult(c)' = ChunkResult(c)
           /\ \A c : LaneWord(c)' = LaneWord(c)
<1>1. num_cores' = num_cores /\ start_core_idx' = start_core_idx
  BY DEF chunkVars, num_cores
<1>2. chunk_core_count' = chunk_core_count
  BY <1>1 DEF chunk_core_count
<1>3. \A e, w : OperandWord(e, w)' = OperandWord(e, w)
  BY DEF chunkVars, OperandWord
<1>4. \A c : ChunkResult(c)' = ChunkResult(c)
  BY <1>1, <1>3 DEF ChunkResult
<1>5. \A c : LaneWord(c)' = LaneWord(c)
  BY <1>4 DEF LaneWord
<1> QED
  BY <1>1, <1>2, <1>3, <1>4, <1>5 DEF ChunkLanes

LEMMA LanesOfChunk ==
    ASSUME TypeOK
    PROVE  /\ ChunkLanes \subseteq Lanes
           /\ ChunkLanes = 0 .. chunk_core_count - 1
           /\ chunk_core_count \in 0 .. 3
  BY ChunkBounds DEF ChunkLanes, Lanes

(* The registers of operands and results are neither of the first two. *)
LEMMA DataRegs ==
    /\ \A c \in Lanes, w \in Elements :
          DATA + 4 * c + w \in Regs \ {INSTRUCTION, STATUS}
    /\ \A c \in Lanes : /\ DATA + 2 * c \in DATA .. DATA + 5
                        /\ DATA + 2 * c + 1 \in DATA .. DATA + 5
    /\ DATA .. DATA + 5 \subseteq Regs \ {INSTRUCTION, STATUS}
  BY ElementIndex DEF Lanes, DATA, Regs, INSTRUCTION, STATUS

(* An edge at which no data are stored, and no instruction but TX_COMPLETE. *)
Mild == psel /\ pwrite => /\ cp_data_reg.reg = INSTRUCTION
                          /\ cp_data_reg.data = INST_TX_COMPLETE

LEMMA MildEdge ==
    ASSUME BusInv, Edge, Mild
    PROVE  /\ instruction' \in {instruction, INST_TX_COMPLETE}
           /\ ~cluster_tx_state => \A i \in Regs \ {INSTRUCTION, STATUS} :
                                      data_out'[i] = data_out[i]
           /\ state' = next_state
<1>1. BusTypeOK /\ INSTRUCTION \in Regs \ {STATUS}
  BY DEF BusInv, INSTRUCTION, STATUS, Regs
<1>2. instruction' \in {instruction, INST_TX_COMPLETE}
  BY <1>1, EdgeEffect DEF Mild, instruction
<1> QED
  BY <1>1, <1>2, EdgeEffect DEF Mild

(* The results of a computation are copied by twos. *)
LEMMA CopyPublishes ==
    ASSUME Edge, cluster_tx_state, NEW c \in Lanes
    PROVE  /\ data_out'[DATA + 2 * c] = LoWord(mac_result[c])
           /\ data_out'[DATA + 2 * c + 1] = HiWord(mac_result[c])
<1>1. CopyResults
  BY DEF Edge, IpEdge
<1>2. /\ ResultWord(DATA + 2 * c) = LoWord(mac_result[c])
      /\ ResultWord(DATA + 2 * c + 1) = HiWord(mac_result[c])
  BY DEF ResultWord, Lanes, DATA
<1> QED
  BY <1>1, <1>2, DataRegs DEF CopyResults

LEMMA ChunkEdge ==
    ASSUME FullInv, Chunk, Edge, Mild, UNCHANGED chunkVars
    PROVE  Chunk'
<1> USE DEF ST_RESET, ST_READY_RX, ST_ACK_RX, ST_PROCESSING, ST_DONE,
            INST_RESET, INST_SIGNAL_TX, INST_TX_COMPLETE
<1>1. BusInv /\ TypeOK
  BY DEF FullInv, HostInv
<1>2. /\ instruction' \in {INST_SIGNAL_TX, INST_TX_COMPLETE}
      /\ instruction = INST_TX_COMPLETE => instruction' = INST_TX_COMPLETE
  BY <1>1, MildEdge DEF Chunk
<1>3. state' = next_state /\ instruction # INST_RESET
  BY <1>1, MildEdge DEF Chunk
<1>4. CASE state = ST_READY_RX
  <2>1. state' = IF instruction = INST_TX_COMPLETE THEN ST_ACK_RX ELSE ST_READY_RX
    BY <1>3, <1>4, NextStateTable
  <2>2. ~cluster_tx_state
    BY <1>4 DEF cluster_tx_state
  <2>3. \A c \in ChunkLanes, w \in Elements : Holds(c, w)'
    BY <1>1, <1>4, <2>2, MildEdge, DataRegs, LanesOfChunk, SameChunk
       DEF Chunk, Holds, Operand, chunkVars
  <2> QED
    BY <1>2, <2>1, <2>3, SameChunk DEF Chunk
<1>5. CASE state = ST_ACK_RX
  <2>1. state' = ST_PROCESSING /\ instruction' = INST_TX_COMPLETE
    BY <1>2, <1>3, <1>5, NextStateTable DEF Chunk
  <2>2. ASSUME NEW c \in ChunkLanes
        PROVE  mac_result'[c] = ChunkResult(c)'
    <3>1. c \in Lanes
      BY <1>1, LanesOfChunk
    <3>2. mac_start /\ ~MacReset(state', instruction')
      BY <1>3, <1>5, <2>1 DEF mac_start, MacReset
    <3>3. mac_result'[c] = LaneResult(c)
      BY <3>1, <3>2 DEF Edge, IpEdge, MacEdge
    <3>4. LaneResult(c) = ChunkResult(c)
      BY <1>5, ElementIndex DEF LaneResult, ChunkResult, Chunk, Holds
    <3> QED
      BY <3>3, <3>4, SameChunk
  <2> QED
    BY <2>1, <2>2, SameChunk DEF Chunk
<1>6. CASE state = ST_PROCESSING
  <2>1. AllDone
    BY <1>1, <1>6 DEF BusInv, Phases, Settled, Arriving, Turned, Computing, Finished
  <2>2. instruction' = INST_TX_COMPLETE /\ state' = ST_DONE /\ cluster_tx_state
    BY <1>2, <1>3, <1>6, <2>1, NextStateTable DEF Chunk, cluster_tx_state
  <2>3. \A c \in ChunkLanes : /\ data_out'[DATA + 2 * c] = LoWord(ChunkResult(c))
                              /\ data_out'[DATA + 2 * c + 1] = HiWord(ChunkResult(c))
    BY <1>1, <1>6, <2>2, CopyPublishes, LanesOfChunk DEF Chunk
  <2>4. Published'
    BY <2>3, SameChunk DEF Published
  <2> QED
    BY <2>2, <2>4 DEF Chunk
<1>7. CASE state = ST_DONE
  <2>1. instruction' = INST_TX_COMPLETE /\ state' = ST_DONE /\ ~cluster_tx_state
    BY <1>2, <1>3, <1>7, NextStateTable DEF Chunk, cluster_tx_state
  <2>2. Published'
    BY <1>1, <1>7, <2>1, MildEdge, DataRegs, LanesOfChunk, SameChunk
       DEF Chunk, Published
  <2> QED
    BY <2>1, <2>2 DEF Chunk
<1> QED
  BY <1>4, <1>5, <1>6, <1>7 DEF Chunk

(* The access in progress at each point is the driver's. *)
LEMMA InChunkIsMild ==
    ASSUME HostInv, pc \in InChunk
    PROVE  Mild
<1> SUFFICES ASSUME psel, pwrite
             PROVE  /\ cp_data_reg.reg = INSTRUCTION
                    /\ cp_data_reg.data = INST_TX_COMPLETE
  BY DEF Mild
<1>1. BusTypeOK /\ InFlight
  BY DEF HostInv, BusInv
<1>2. req = cp_data_reg /\ req # NoAccess
  BY <1>1, AccessAssumption DEF psel, InFlight, BusTypeOK
<1>3. req = HostAccess
  BY <1>2, PointNames DEF HostInv, Asked, InChunk
<1>4. pc # "store_tx_complete" => ~HostAccess.write
  BY AccessTable DEF InChunk, ReadOf
<1> QED
  BY <1>2, <1>3, <1>4, AccessTable DEF pwrite, WriteOf

(* While the operands are stored, those already stored stay, and the store
   in progress is in its register when it is answered.                     *)
LEMMA OperandEdge ==
    ASSUME FullInv, pc = "store_operand", Edge, UNCHANGED chunkVars
    PROVE  /\ \A c \in Lanes, w \in Elements :
                 \/ 4 * c + w < 4 * core_idx + word_idx
                 \/ /\ 4 * c + w = 4 * core_idx + word_idx
                    /\ apb_state = "SEND_RESPONSE"
                 => Holds(c, w)'
           /\ state' = ST_READY_RX /\ instruction' = INST_SIGNAL_TX
<1>1. BusInv /\ BusTypeOK /\ InFlight /\ Transferred /\ TypeOK
  BY DEF FullInv, HostInv, BusInv
<1>2. state = ST_READY_RX /\ instruction = INST_SIGNAL_TX
  BY DEF FullInv, HostInv, HostInStep, LastInstruction, Between
<1>3. state' = ST_READY_RX /\ instruction' = INST_SIGNAL_TX
  BY <1>1, <1>2, RelyingIsQuiet, QuietEdge, PointNames DEF FullInv
<1>4. ~cluster_tx_state
  BY <1>2 DEF cluster_tx_state, ST_READY_RX, ST_PROCESSING
<1>5. \A i \in Regs \ {STATUS} :
         data_out'[i] = IF psel /\ pwrite /\ i = cp_data_reg.reg
                        THEN cp_data_reg.data ELSE data_out[i]
  BY <1>1, <1>4, EdgeEffect
<1>6. core_idx \in 0 .. 2 /\ word_idx \in 0 .. 3
  BY <1>1, ElementIndex DEF TypeOK, Lanes
<1>7. ASSUME apb_state # "IDLE"
      PROVE  cp_data_reg = WriteOf(DATA + 4 * core_idx + word_idx,
                               OperandWord(start_core_idx + core_idx, word_idx))
  <2>1. req = cp_data_reg /\ req # NoAccess
    BY <1>1, <1>7, AccessAssumption DEF InFlight, BusTypeOK
  <2>2. req = HostAccess
    BY <2>1, PointNames DEF FullInv, HostInv, Asked
  <2> QED
    BY <2>1, <2>2, AccessTable
<1> SUFFICES ASSUME NEW c \in Lanes, NEW w \in Elements,
                    \/ 4 * c + w < 4 * core_idx + word_idx
                    \/ /\ 4 * c + w = 4 * core_idx + word_idx
                       /\ apb_state = "SEND_RESPONSE"
             PROVE  Holds(c, w)'
  BY <1>3
<1>8. c \in 0 .. 2 /\ w \in 0 .. 3
  BY ElementIndex DEF Lanes
<1>9. DATA + 4 * c + w \in Regs \ {INSTRUCTION, STATUS}
  BY DataRegs
<1>10. OperandWord(start_core_idx + c, w)' = OperandWord(start_core_idx + c, w)
  BY SameChunk DEF chunkVars
<1>11. CASE 4 * c + w < 4 * core_idx + word_idx
  <2>1. Holds(c, w)
    BY <1>11 DEF FullInv, DataInv, StoredSoFar
  <2>2. psel => cp_data_reg.reg = DATA + 4 * core_idx + word_idx
    BY <1>7 DEF psel, WriteOf
  <2>3. DATA + 4 * c + w # DATA + 4 * core_idx + word_idx
    BY <1>6, <1>8, <1>11 DEF DATA
  <2>4. data_out'[DATA + 4 * c + w] = data_out[DATA + 4 * c + w]
    BY <1>5, <1>9, <2>2, <2>3
  <2> QED
    BY <2>1, <2>4, <1>10 DEF Holds, Operand
<1>12. CASE /\ 4 * c + w = 4 * core_idx + word_idx
            /\ apb_state = "SEND_RESPONSE"
  <2>1. c = core_idx /\ w = word_idx
    BY <1>6, <1>8, <1>12
  <2>2. /\ cp_data_reg.write /\ cp_data_reg.reg = DATA + 4 * c + w
        /\ cp_data_reg.data = OperandWord(start_core_idx + c, w)
    BY <1>7, <1>12, <2>1 DEF WriteOf
  <2>3. data_out[DATA + 4 * c + w] = OperandWord(start_core_idx + c, w)
    BY <1>1, <1>9, <1>12, <2>2 DEF Transferred, pwrite
  <2>4. data_out'[DATA + 4 * c + w] = data_out[DATA + 4 * c + w]
    BY <1>5, <1>9, <1>12 DEF psel
  <2> QED
    BY <2>3, <2>4, <1>10 DEF Holds, Operand
<1> QED
  BY <1>11, <1>12

LEMMA SameElements ==
    ASSUME ElementsAreLaneWords, ChunkStarts,
           UNCHANGED <<chunkVars, matrix_output_array>>
    PROVE  ElementsAreLaneWords' /\ ChunkStarts'
  BY SameChunk DEF ElementsAreLaneWords, Delivered, Element, ChunkStarts,
     chunkVars

(* Steps that leave the program and the cluster alone. *)
LEMMA SameData ==
    ASSUME DataInv, UNCHANGED <<state, mac_result, data_out, hostVars>>
    PROVE  DataInv'
<1>1. UNCHANGED chunkVars /\ UNCHANGED <<pc, locals>>
  BY DEF hostVars, locals, chunkVars
<1>2. \A c, w : Holds(c, w)' = Holds(c, w)
  BY <1>1, SameChunk DEF Holds, Operand, chunkVars
<1>3. Chunk' = Chunk
  BY <1>1, <1>2, SameChunk DEF Chunk, Published, instruction
<1> QED
  BY <1>1, <1>2, <1>3, SameChunk, SameElements
     DEF DataInv, LoopsStart, StoredSoFar, LoadedSoFar, locals

LEMMA SilentData ==
    ASSUME FullInv, SilentEdge, UNCHANGED hostVars
    PROVE  DataInv'
<1>1. Edge
  BY DEF SilentEdge, BusIdle, BusAccept, BusSetUp, BusAccess, BusStall
<1>2. UNCHANGED chunkVars /\ UNCHANGED <<pc, locals>>
  BY DEF hostVars, locals, chunkVars
<1>3. StoredSoFar'
  BY <1>1, <1>2, OperandEdge DEF StoredSoFar, locals
<1>4. (pc \in InChunk => Chunk)'
  BY <1>1, <1>2, InChunkIsMild, ChunkEdge DEF FullInv, DataInv
<1> QED
  BY <1>2, <1>3, <1>4, SameChunk, SameElements
     DEF FullInv, DataInv, LoopsStart, LoadedSoFar, locals

(* What the host loads for a core is what its lane, or the one before, has
   published.                                                              *)
LEMMA LoadedWord ==
    ASSUME FullInv, BusRespond, pc = "load_result"
    PROVE  prdata_reg = LaneWord(core_idx)
<1>1. BusTypeOK /\ InFlight /\ LoadIsExact /\ TypeOK /\ apb_state = "SEND_RESPONSE"
  BY DEF FullInv, HostInv, BusInv, BusRespond
<1>2. req = cp_data_reg /\ req # NoAccess
  BY <1>1, AccessAssumption DEF InFlight, BusTypeOK
<1>3. cp_data_reg = ReadOf(DATA + core_idx)
  BY <1>2, PointNames, AccessTable DEF FullInv, HostInv, Asked
<1>4. core_idx \in 0 .. 2 /\ core_idx < chunk_core_count
  BY <1>1, PointNames DEF FullInv, HostInv, TypeOK, InBounds, Lanes
<1>5. prdata_reg = data_out[DATA + core_idx]
  BY <1>1, <1>3, <1>4 DEF LoadIsExact, pwrite, ReadOf, DATA, STATUS
<1>6. Published
  <2>1. state = ST_DONE
    BY DEF FullInv, HostInv, HostInStep, Between
  <2> QED
    BY <2>1 DEF FullInv, DataInv, InChunk, Chunk
<1>7. core_idx \div 2 \in ChunkLanes
  BY <1>1, <1>4, LanesOfChunk
<1>8. data_out[DATA + core_idx] = LaneWord(core_idx)
  <2>1. CASE core_idx = 0
    BY <2>1, <1>6, <1>7 DEF Published, LaneWord, DATA
  <2>2. CASE core_idx = 1
    BY <2>2, <1>6, <1>7 DEF Published, LaneWord, DATA
  <2>3. CASE core_idx = 2
    BY <2>3, <1>6, <1>7 DEF Published, LaneWord, DATA
  <2> QED
    BY <2>1, <2>2, <2>3, <1>4
<1> QED
  BY <1>5, <1>8

LEMMA RespondData ==
    ASSUME FullInv, HostRespond
    PROVE  DataInv'
<1>1. BusRespond /\ Edge /\ TypeOK /\ HostInv /\ DataInv
  BY DEF HostRespond, BusRespond, FullInv, HostInv
<1>2. UNCHANGED chunkVars /\ UNCHANGED matrix_output_array
  BY DEF HostRespond, Proceed, Poll, StoredOperand, LoadedResult, hostVars,
     locals, chunkVars
<1>3. ElementsAreLaneWords' /\ ChunkStarts'
  BY <1>1, <1>2, SameElements DEF DataInv
<1>4. pc \in InChunk => Chunk'
  BY <1>1, <1>2, InChunkIsMild, ChunkEdge DEF FullInv, DataInv
<1>5. CASE Proceed \/ Poll(prdata_reg)
  <2>1. /\ pc \in AccessPoints \ {"store_operand", "load_result"}
        /\ pc' \in AccessPoints /\ core_idx' = core_idx /\ word_idx' = word_idx
    BY <1>5, PointNames DEF Proceed, Following, Poll, Awaited, locals
  <2>2. core_idx' = 0 /\ word_idx' = 0
    BY <1>1, <2>1 DEF DataInv, LoopsStart
  <2>3. LoopsStart'
    BY <2>2 DEF LoopsStart
  <2>4. StoredSoFar'
    <3>1. \A c \in Lanes, w \in Elements : ~(4 * c + w < 4 * 0 + 0)
      BY ElementIndex DEF Lanes
    <3> QED
      BY <2>2, <3>1 DEF StoredSoFar
  <2>5. pc' \in InChunk => pc \in InChunk
    BY <1>5, PointNames DEF Proceed, Following, Poll, Awaited, InChunk
  <2>6. LoadedSoFar'
    <3>1. \A c \in Elements : ~(c < 0)
      BY ElementIndex
    <3> QED
      BY <2>1, <2>2, <3>1, PointNames DEF LoadedSoFar
  <2> QED
    BY <1>3, <1>4, <2>3, <2>4, <2>5, <2>6 DEF DataInv
<1>6. CASE StoredOperand
  <2>1. /\ pc = "store_operand" /\ pc' \in {"store_operand", "store_tx_complete"}
        /\ apb_state = "SEND_RESPONSE"
    BY <1>1, <1>6 DEF StoredOperand, BusRespond
  <2>2. core_idx \in 0 .. 2 /\ word_idx \in 0 .. 3 /\ core_idx < chunk_core_count
    BY <1>1, <2>1, PointNames, ElementIndex DEF HostInv, TypeOK, InBounds, Lanes
  <2>3. /\ \A c \in Lanes, w \in Elements :
              4 * c + w <= 4 * core_idx + word_idx => Holds(c, w)'
        /\ state' = ST_READY_RX /\ instruction' = INST_SIGNAL_TX
    <3>1. \A c \in Lanes, w \in Elements :
             4 * c + w <= 4 * core_idx + word_idx
               => \/ 4 * c + w < 4 * core_idx + word_idx
                  \/ 4 * c + w = 4 * core_idx + word_idx
      BY <2>2, ElementIndex DEF Lanes
    <3> QED
      BY <1>1, <1>2, <2>1, <3>1, OperandEdge
  <2>4. LoopsStart' /\ LoadedSoFar'
    BY <1>6, <2>1 DEF StoredOperand, LoopsStart, LoadedSoFar
  <2>5. StoredSoFar'
    <3>1. pc' = "store_operand"
            => 4 * core_idx' + word_idx' = 4 * core_idx + word_idx + 1
      BY <1>6, <2>2 DEF StoredOperand
    <3>2. \A c \in Lanes, w \in Elements :
             4 * c + w < 4 * core_idx + word_idx + 1
               => 4 * c + w <= 4 * core_idx + word_idx
      BY <2>2, ElementIndex DEF Lanes
    <3> QED
      BY <2>3, <3>1, <3>2 DEF StoredSoFar
  <2>6. pc' \in InChunk => Chunk'
    <3> SUFFICES ASSUME pc' = "store_tx_complete" PROVE Chunk'
      BY <2>1 DEF InChunk
    <3>1. word_idx = 3 /\ core_idx + 1 >= chunk_core_count
      BY <1>6, <2>1 DEF StoredOperand
    <3>2. \A c \in ChunkLanes, w \in Elements :
             c \in Lanes /\ 4 * c + w <= 4 * core_idx + word_idx
      BY <1>1, <2>2, <3>1, LanesOfChunk, ElementIndex
    <3>3. \A c \in ChunkLanes', w \in Elements : Holds(c, w)'
      BY <1>2, <2>3, <3>2, SameChunk
    <3> QED
      BY <2>3, <3>3 DEF Chunk, ST_RESET, ST_READY_RX, ST_ACK_RX, ST_PROCESSING,
         ST_DONE
  <2> QED
    BY <1>3, <2>4, <2>5, <2>6 DEF DataInv
<1>7. CASE LoadedResult(prdata_reg)
  <2>1. /\ pc = "load_result" /\ pc' \in {"load_result", "package"}
        /\ output_array' = [output_array EXCEPT ![core_idx] = prdata_reg]
    BY <1>7 DEF LoadedResult
  <2>2. /\ core_idx \in 0 .. 2 /\ core_idx < chunk_core_count
        /\ chunk_core_count \in 0 .. 3
    BY <1>1, <2>1, PointNames, ChunkBounds DEF HostInv, TypeOK, InBounds, Lanes
  <2>3. \A c \in Elements : c <= core_idx => output_array'[c] = LaneWord(c)
    <3> SUFFICES ASSUME NEW c \in Elements, c <= core_idx
                 PROVE  output_array'[c] = LaneWord(c)
      OBVIOUS
    <3>1. CASE c = core_idx
      BY <1>1, <2>1, <3>1, LoadedWord DEF TypeOK
    <3>2. CASE c # core_idx
      <4>1. c < core_idx
        BY <2>2, <3>2, ElementIndex
      <4> QED
        BY <1>1, <2>1, <3>2, <4>1 DEF TypeOK, DataInv, LoadedSoFar
    <3> QED
      BY <3>1, <3>2
  <2>4. LoadedSoFar'
    <3>1. pc' = "load_result" => core_idx' = core_idx + 1
      BY <1>7, <2>1 DEF LoadedResult
    <3>2. pc' = "package" => core_idx + 1 >= chunk_core_count
      BY <1>7, <2>1, <2>2 DEF LoadedResult
    <3>3. \A c \in Elements : c < core_idx + 1 => c <= core_idx
      BY <2>2, ElementIndex
    <3>4. core_idx + 1 >= chunk_core_count
            => \A c \in ChunkLanes : c \in Elements /\ c <= core_idx
      BY <1>1, <2>2, LanesOfChunk, ElementIndex
    <3> QED
      BY <1>2, <2>1, <2>3, <3>1, <3>2, <3>3, <3>4, SameChunk DEF LoadedSoFar
  <2>5. LoopsStart' /\ StoredSoFar'
    BY <2>1, PointNames DEF LoopsStart, StoredSoFar
  <2>6. pc' \in InChunk => Chunk'
    BY <1>4, <2>1 DEF InChunk
  <2> QED
    BY <1>3, <2>4, <2>5, <2>6 DEF DataInv
<1>8. CASE pc \notin AccessPoints /\ UNCHANGED hostVars
  <2>1. pc' = "dead"
    <3>1. req # NoAccess
      BY <1>1, AccessAssumption DEF HostInv, BusInv, BusTypeOK, InFlight, BusRespond
    <3> QED
      BY <1>1, <1>8, <3>1 DEF HostInv, Asked, hostVars
  <2> QED
    BY <1>3, <2>1, PointNames
       DEF DataInv, LoopsStart, StoredSoFar, LoadedSoFar, InChunk
<1> QED
  BY <1>5, <1>6, <1>7, <1>8 DEF HostRespond

(* Steps to a point between chunks. *)
LEMMA BetweenChunks ==
    ASSUME \/ pc' \in {"call", "transact", "returned", "exit", "dead"}
           \/ pc' = "store_reset" /\ core_idx' = 0 /\ word_idx' = 0,
           ElementsAreLaneWords', ChunkStarts'
    PROVE  DataInv'
  BY PointNames DEF DataInv, LoopsStart, StoredSoFar, LoadedSoFar, InChunk

LEMMA NextMultiple ==
    ASSUME NEW n \in {1, 2, 3}, NEW s \in Int, s % n = 0
    PROVE  0 % n = 0 /\ (s + n) % n = 0
<1>1. CASE n = 1
  <2>1. 0 % 1 = 0 /\ (s + 1) % 1 = 0
    OBVIOUS
  <2> QED
    BY <1>1, <2>1
<1>2. CASE n = 2
  <2>1. s % 2 = 0
    BY <1>2
  <2>2. 0 % 2 = 0 /\ (s + 2) % 2 = 0
    BY <2>1
  <2> QED
    BY <1>2, <2>2
<1>3. CASE n = 3
  <2>1. s % 3 = 0
    BY <1>3
  <2>2. 0 % 3 = 0 /\ (s + 3) % 3 = 0
    BY <2>1
  <2> QED
    BY <1>3, <2>2
<1> QED
  BY <1>1, <1>2, <1>3

LEMMA NothingDelivered ==
    ASSUME pack_idx' = 0, start_core_idx' = 0, TypeOK'
    PROVE  ElementsAreLaneWords' /\ ChunkStarts'
<1>1. Delivered' = {}
  BY ElementIndex DEF Delivered, Packs
<1>2. num_cores' \in 0 .. 3
  BY HostAssumption DEF TypeOK, num_cores
<1>3. num_cores' # 0 => 0 % num_cores' = 0
  <2>1. num_cores' \in {0, 1, 2, 3}
    BY <1>2
  <2>2. 0 % 1 = 0 /\ 0 % 2 = 0 /\ 0 % 3 = 0
    OBVIOUS
  <2> QED
    BY <2>1, <2>2
<1> QED
  BY <1>1, <1>3 DEF ElementsAreLaneWords, ChunkStarts

(* Packaging adds the words of a chunk to the elements delivered. *)
LEMMA PackageData ==
    ASSUME FullInv, Package, TypeOK'
    PROVE  DataInv'
<1>1. /\ TypeOK /\ pack_idx \in Packs /\ pack_idx \in 0 .. PackCount
      /\ core_idx \in 0 .. 2 /\ core_idx < chunk_core_count
      /\ \A c \in ChunkLanes : output_array[c] = LaneWord(c)
      /\ DataInv
  BY DEF FullInv, HostInv, Package, TypeOK, InBounds, DataInv, LoadedSoFar, Lanes
<1>2. /\ num_cores \in 1 .. 3 /\ start_core_idx \in 0 .. 3
      /\ chunk_core_count \in 1 .. 3 /\ chunk_core_count <= num_cores
      /\ start_core_idx % num_cores = 0
      /\ start_core_idx + num_cores <= 3 => chunk_core_count = num_cores
      /\ start_core_idx + num_cores > 3 => start_core_idx + chunk_core_count = 4
  BY <1>1, ChunkBounds, ElementIndex
     DEF TypeOK, DataInv, ChunkStarts, chunk_core_count, MATRIX_SIZE
<1> DEFINE m == package_cluster_outputs_into_matrix(
                    output_array, chunk_core_count, start_core_idx,
                    matrix_output_array[pack_idx])
           packaged == [matrix_output_array EXCEPT ![pack_idx] = m]
           Right(p, e, w) ==
               LET c == e % num_cores
                   lane == make_matrix_mult_pack(pairs[p])[e - c + c \div 2]
                   r == MacResult(lane[0], lane[1], lane[2], lane[3])
               IN  w = IF c % 2 = 0 THEN LoWord(r) ELSE HiWord(r)
<1>3. \A e \in Elements : m[row(e)][col(e)] =
         IF start_core_idx <= e /\ e < start_core_idx + chunk_core_count
         THEN output_array[e - start_core_idx]
         ELSE Element(pack_idx, e)
  <2>1. \A e \in Elements : row(e) * MATRIX_SIZE + col(e) = e
    BY DEF Elements, MATRIX_SIZE, row, col
  <2> QED
    BY <2>1, ElementIndex DEF package_cluster_outputs_into_matrix, Element
<1>4. \A p \in Packs : packaged[p] =
         IF p = pack_idx THEN m ELSE matrix_output_array[p]
  BY <1>1 DEF TypeOK
<1>4a. DOMAIN packaged = Packs
  BY <1>1 DEF TypeOK
<1> HIDE DEF m, packaged
<1>5. \A p \in Packs, e \in Elements :
         p < pack_idx \/ (p = pack_idx /\ e < start_core_idx)
           => Right(p, e, Element(p, e))
  <2> SUFFICES ASSUME NEW p \in Packs, NEW e \in Elements,
                      p < pack_idx \/ (p = pack_idx /\ e < start_core_idx)
               PROVE  Right(p, e, Element(p, e))
    OBVIOUS
  <2>1. <<p, e>> \in Delivered
    BY DEF Delivered
  <2>2. ElementsAreLaneWords
    BY <1>1 DEF DataInv
  <2>3. Right(<<p, e>>[1], <<p, e>>[2], Element(<<p, e>>[1], <<p, e>>[2]))
    BY <2>1, <2>2 DEF ElementsAreLaneWords
  <2> QED
    BY <2>3
<1>6. ASSUME NEW e \in Elements,
             start_core_idx <= e, e < start_core_idx + chunk_core_count
      PROVE  Right(pack_idx, e, output_array[e - start_core_idx])
  <2>1. e - start_core_idx \in ChunkLanes
    BY <1>2, <1>6, ElementIndex DEF ChunkLanes
  <2>2. e % num_cores = e - start_core_idx
    BY <1>2, <1>6, ElementIndex
  <2>3. output_array[e - start_core_idx] = LaneWord(e - start_core_idx)
    BY <1>1, <2>1
  <2>4. e - (e - start_core_idx) = start_core_idx
    BY <1>2, ElementIndex
  <2> QED
    BY <2>2, <2>3, <2>4 DEF LaneWord, ChunkResult, OperandWord
<1>7. \A p \in Packs, e \in Elements :
         p < pack_idx \/ (p = pack_idx /\ e < start_core_idx + chunk_core_count)
           => Right(p, e, packaged[p][row(e)][col(e)])
  <2> SUFFICES ASSUME NEW p \in Packs, NEW e \in Elements,
                      \/ p < pack_idx
                      \/ p = pack_idx /\ e < start_core_idx + chunk_core_count
               PROVE  Right(p, e, packaged[p][row(e)][col(e)])
    OBVIOUS
  <2>1. CASE p # pack_idx
    <3>1. p < pack_idx
      BY <2>1
    <3>2. packaged[p][row(e)][col(e)] = Element(p, e)
      BY <1>4, <2>1 DEF Element
    <3> QED
      BY <1>5, <3>1, <3>2
  <2>2. CASE p = pack_idx /\ start_core_idx <= e
    <3>1. e < start_core_idx + chunk_core_count
      BY <1>1, <2>2 DEF Packs
    <3> QED
      BY <1>3, <1>4, <1>6, <2>2, <3>1
  <2>3. CASE p = pack_idx /\ ~(start_core_idx <= e)
    <3>1. e < start_core_idx
      BY <1>2, <2>3, ElementIndex
    <3>2. packaged[p][row(e)][col(e)] = Element(p, e)
      BY <1>3, <1>4, <2>3
    <3> QED
      BY <1>5, <2>3, <3>1, <3>2
  <2> QED
    BY <2>1, <2>2, <2>3
<1>8. /\ UNCHANGED <<pairs, run, num_cores>>
      /\ pc' \in {"transact", "returned"}
  BY DEF Package, num_cores
<1>9. ASSUME NEW p \in Packs, NEW e \in Elements,
             p < pack_idx' \/ (p = pack_idx' /\ e < start_core_idx')
      PROVE  /\ matrix_output_array'[p] = packaged[p]
             /\ \/ p < pack_idx
                \/ p = pack_idx /\ e < start_core_idx + chunk_core_count
  <2>1. CASE start_core_idx + num_cores \in Elements
    <3>1. /\ matrix_output_array' = packaged /\ pack_idx' = pack_idx
          /\ start_core_idx' = start_core_idx + num_cores
      BY <2>1 DEF Package, MoreChunks, packaged, m
    <3> QED
      BY <1>2, <1>9, <2>1, <3>1, ElementIndex
  <2>2. CASE start_core_idx + num_cores \notin Elements
    <3>1. /\ matrix_output_array' \in
               {packaged, [packaged EXCEPT ![pack_idx + 1] = clear_matrix]}
          /\ pack_idx' = pack_idx + 1 /\ start_core_idx' = 0
      BY <2>2 DEF Package, MoreChunks, packaged, m
    <3>2. p < pack_idx \/ p = pack_idx
      BY <1>1, <1>9, <3>1, ElementIndex DEF Packs
    <3>3. p # pack_idx + 1
      BY <1>1, <3>2 DEF Packs
    <3>4. matrix_output_array'[p] = packaged[p]
      BY <1>4a, <3>1, <3>3
    <3>5. e < start_core_idx + chunk_core_count
      BY <1>2, <2>2, ElementIndex
    <3> QED
      BY <3>2, <3>4, <3>5
  <2> QED
    BY <2>1, <2>2
<1>10. ElementsAreLaneWords'
  <2> SUFFICES ASSUME NEW pe \in Delivered'
               PROVE  Right(pe[1], pe[2], Element(pe[1], pe[2])')
    BY <1>8 DEF ElementsAreLaneWords
  <2>1. /\ pe[1] \in Packs /\ pe[2] \in Elements
        /\ pe[1] < pack_idx' \/ (pe[1] = pack_idx' /\ pe[2] < start_core_idx')
    BY DEF Delivered
  <2>2. Element(pe[1], pe[2])' = packaged[pe[1]][row(pe[2])][col(pe[2])]
    BY <1>9, <2>1 DEF Element
  <2> QED
    BY <1>7, <1>9, <2>1, <2>2
<1>11. ChunkStarts'
  <2>1. start_core_idx' \in {0, start_core_idx + num_cores}
    BY DEF Package
  <2>2. start_core_idx' % num_cores = 0
    <3>1. start_core_idx \in Int /\ start_core_idx % num_cores = 0
            /\ num_cores \in {1, 2, 3}
      BY <1>2
    <3>2. 0 % num_cores = 0 /\ (start_core_idx + num_cores) % num_cores = 0
      BY <3>1, NextMultiple
    <3> QED
      BY <2>1, <3>2
  <2> QED
    BY <1>2, <1>8, <2>2 DEF ChunkStarts
<1> QED
  BY <1>8, <1>10, <1>11, BetweenChunks

LEMMA NextDataInv ==
    ASSUME FullInv, [Next]_vars
    PROVE  DataInv'
<1>1. TypeOK' /\ HostInv /\ DataInv
  BY NextTyped DEF FullInv, HostInv, Typed
<1>2. CASE SilentEdge /\ UNCHANGED hostVars
  BY <1>2, SilentData
<1>3. CASE HostRespond
  BY <1>3, RespondData
<1>4. CASE HostIssue
  <2>1. UNCHANGED <<state, mac_result, data_out, hostVars>>
    BY <1>4 DEF HostIssue, Request, ipVars
  <2> QED
    BY <1>1, <2>1, SameData
<1>5. CASE Call \/ Return
  <2>1. /\ pc' \in {"call", "transact", "exit"}
        /\ pack_idx' = 0 /\ start_core_idx' = 0
    BY <1>5 DEF Call, Return
  <2> QED
    BY <1>1, <2>1, NothingDelivered, BetweenChunks
<1>6. CASE Transact
  <2>1. UNCHANGED <<chunkVars, matrix_output_array>>
    BY <1>6 DEF Transact, chunkVars
  <2>2. /\ pc' \in {"store_reset", "returned"}
        /\ core_idx' = 0 /\ word_idx' = 0
    BY <1>6 DEF Transact
  <2> QED
    BY <1>1, <2>1, <2>2, SameElements, BetweenChunks DEF DataInv
<1>7. CASE Package
  BY <1>1, <1>7, PackageData
<1>8. CASE Kill \/ Restart \/ Reset
  <2>1. /\ pc' \in {"dead", "call"}
        /\ pack_idx' = 0 /\ start_core_idx' = 0
    BY <1>8 DEF Kill, Restart, Reset, FreshLocals
  <2> QED
    BY <1>1, <2>1, NothingDelivered, BetweenChunks
<1>9. CASE UNCHANGED vars
  BY <1>1, <1>9, SameData DEF vars, hwVars
<1> QED
  BY <1>2, <1>3, <1>4, <1>5, <1>6, <1>7, <1>8, <1>9 DEF Next, HostStep

LEMMA InitDataInv == Init => DataInv
<1> SUFFICES ASSUME Init PROVE DataInv
  OBVIOUS
<1>1. Delivered = {}
  BY ElementIndex DEF Init, Delivered, Packs
<1>2. ChunkStarts
  <2>1. num_cores \in {0, 1, 2, 3}
    BY HostAssumption DEF Init, num_cores
  <2>2. 0 % 1 = 0 /\ 0 % 2 = 0 /\ 0 % 3 = 0
    OBVIOUS
  <2> QED
    BY <2>1, <2>2 DEF Init, ChunkStarts
<1> QED
  BY <1>1, <1>2, PointNames DEF Init, DataInv, LoopsStart, StoredSoFar, InChunk,
     LoadedSoFar, ElementsAreLaneWords

(* Operands, results and elements follow the handshake: the data part of the
   driver's inductive invariant.                                           *)
THEOREM DataInvCorrect == Spec => []FullInv
<1>1. Init => DataInv
  BY InitDataInv
<1>2. FullInv /\ [Next]_vars => DataInv'
  BY NextDataInv
<1> QED
  BY <1>1, <1>2, HostInvCorrect, PTL DEF Spec, FullInv

(* The lanes start only on the driver's word, with all operands of the chunk
   in their registers, for every number of cores up to three.              *)
THEOREM OperandsAreComplete == Spec => []OperandsComplete
<1>1. FullInv => OperandsComplete
  <2> SUFFICES ASSUME FullInv, mac_start, pc # "dead"
               PROVE  /\ pc = "store_tx_complete"
                      /\ \A c \in ChunkLanes, w \in Elements : Holds(c, w)
    BY DEF OperandsComplete, Holds
  <2> USE DEF ST_RESET, ST_READY_RX, ST_ACK_RX, ST_PROCESSING, ST_DONE
  <2>1. state = ST_ACK_RX /\ HostInv /\ BusInv
    BY DEF mac_start, FullInv, HostInv
  <2>2. Turned /\ instruction = INST_TX_COMPLETE
    BY <2>1 DEF BusInv, Phases, Settled, Arriving, Turned, Computing, Finished
  <2>3. /\ apb_state = "SEND_RESPONSE"
        /\ cp_data_reg = WriteOf(INSTRUCTION, INST_TX_COMPLETE)
    BY <2>2 DEF Turned, Storing
  <2>4. req = cp_data_reg /\ req # NoAccess
    BY <2>1, <2>3, AccessAssumption DEF BusInv, InFlight, BusTypeOK
  <2>5. pc \in AccessPoints /\ req = HostAccess
    BY <2>1, <2>4 DEF HostInv, Asked
  <2>6. pc = "store_tx_complete"
    <3>1. pc # "store_operand"
      <4>1. core_idx \in 0 .. 2 /\ word_idx \in 0 .. 3
        BY <2>1, ElementIndex DEF HostInv, TypeOK, Lanes
      <4>2. DATA + 4 * core_idx + word_idx # INSTRUCTION
        BY <4>1 DEF DATA, INSTRUCTION
      <4> QED
        BY <2>3, <2>4, <2>5, <4>2, AccessTable DEF WriteOf
    <3>2. pc \notin {"store_reset", "store_signal_tx"}
      BY <2>3, <2>4, <2>5, AccessTable
         DEF WriteOf, INST_RESET, INST_SIGNAL_TX, INST_TX_COMPLETE
    <3>3. HostAccess.write
      BY <2>3, <2>4, <2>5 DEF WriteOf
    <3>4. pc \in {"store_reset", "store_signal_tx", "store_tx_complete",
                  "store_operand"}
      BY <2>5, <3>3, PointNames, AccessTable DEF ReadOf
    <3> QED
      BY <3>1, <3>2, <3>4
  <2> QED
    BY <2>1, <2>6 DEF FullInv, DataInv, InChunk, Chunk
<1> QED
  BY DataInvCorrect, <1>1, PTL

(* When the driver has seen DONE_TX, the registers hold both words of every
   lane of the chunk, and keep them until the last one is loaded.          *)
THEOREM ResultsArePublished == Spec => []ResultsPublished
<1>1. FullInv => ResultsPublished
  <2> SUFFICES ASSUME FullInv, pc \in {"show_done", "load_result"}
               PROVE  Published
    BY DEF ResultsPublished, Published
  <2>1. state = ST_DONE
    BY DEF FullInv, HostInv, HostInStep, Between
  <2> QED
    BY <2>1 DEF FullInv, DataInv, InChunk, Chunk
<1> QED
  BY DataInvCorrect, <1>1, PTL

(* What the driver delivers, for any sequence of calls with up to three
   cores: the low word of a lane for an even core, a high one for an odd.  *)
THEOREM DeliversLaneWords == Spec => []ElementsAreLaneWords
<1>1. FullInv => ElementsAreLaneWords
  BY DEF FullInv, DataInv
<1> QED
  BY DataInvCorrect, <1>1, PTL

-----------------------------------------------------------------------------
(* With one core the driver delivers matrix products. *)

OneCoreCalls == \A r \in DOMAIN CoreCounts : CoreCounts[r] <= 1

LEMMA PackProduct ==
    ASSUME NEW pair \in Pair, NEW e \in Elements
    PROVE  LET lane == make_matrix_mult_pack(pair)[e]
           IN  LoWord(MacResult(lane[0], lane[1], lane[2], lane[3]))
                 = Product(pair)[row(e)][col(e)]
<1> DEFINE lane == make_matrix_mult_pack(pair)[e]
<1>1. 0 \in Elements /\ 1 \in Elements /\ 2 \in Elements /\ 3 \in Elements
  BY ElementIndex
<1>2. \A w \in Elements : lane[w] \in Word
  BY PackWords
<1>3. LoWord(MacResult(lane[0], lane[1], lane[2], lane[3]))
        = DotProduct(lane[0], lane[1], lane[2], lane[3])
  BY <1>1, <1>2, LowWordIsDotProduct
<1>4. /\ lane[0] = pair.a[row(e)][0] /\ lane[1] = pair.a[row(e)][1]
      /\ lane[2] = pair.b[0][col(e)] /\ lane[3] = pair.b[1][col(e)]
  BY <1>1 DEF make_matrix_mult_pack, MATRIX_SIZE
<1>5. row(e) \in Index /\ col(e) \in Index
  BY ElementIndex
<1>6. Product(pair)[row(e)][col(e)] =
        (pair.a[row(e)][0] * pair.b[0][col(e)]
           + pair.a[row(e)][1] * pair.b[1][col(e)]) % Base
  BY <1>5 DEF Product
<1> QED
  BY <1>3, <1>4, <1>6 DEF DotProduct

LEMMA OneCoreElements ==
    ASSUME OneCoreCalls, FullInv
    PROVE  ElementsCorrect
<1>1. TypeOK /\ ElementsAreLaneWords /\ ChunkStarts
  BY DEF FullInv, HostInv, DataInv
<1>2. num_cores \in {0, 1}
  BY <1>1, ChunkBounds DEF OneCoreCalls, num_cores, TypeOK
<1> SUFFICES ASSUME NEW pe \in Delivered
             PROVE  Element(pe[1], pe[2])
                      = Product(pairs[pe[1]])[row(pe[2])][col(pe[2])]
  BY DEF ElementsCorrect
<1>3. /\ pe[1] \in Packs /\ pe[2] \in Elements
      /\ pe[1] < pack_idx \/ (pe[1] = pack_idx /\ pe[2] < start_core_idx)
  BY DEF Delivered
<1>4. num_cores = 1
  <2>1. ~(pack_idx = 0 /\ start_core_idx = 0)
    BY <1>3, ElementIndex DEF Packs
  <2> QED
    BY <1>1, <1>2, <2>1 DEF ChunkStarts
<1>5. pairs[pe[1]] \in Pair
  BY <1>1, <1>3, HostAssumption DEF TypeOK
<1>6. pe[2] % num_cores = 0 /\ pe[2] - 0 + 0 \div 2 = pe[2] /\ 0 % 2 = 0
  <2>1. pe[2] \in Int /\ pe[2] % 1 = 0
    BY <1>3, ElementIndex
  <2> QED
    BY <1>4, <2>1
<1> DEFINE lane == make_matrix_mult_pack(pairs[pe[1]])[pe[2]]
<1>7. Element(pe[1], pe[2])
        = LoWord(MacResult(lane[0], lane[1], lane[2], lane[3]))
  BY <1>1, <1>6 DEF ElementsAreLaneWords
<1> QED
  BY <1>3, <1>5, <1>7, PackProduct

(* Every element delivered on one core is the element of the matrix product,
   for every word size, any number of packs and any matrices, through kills,
   restarts and resets.                                                    *)
THEOREM OneCoreIsCorrect ==
    ASSUME OneCoreCalls
    PROVE  Spec => []ElementsCorrect
<1>1. FullInv => ElementsCorrect
  BY OneCoreElements
<1> QED
  BY DataInvCorrect, <1>1, PTL

-----------------------------------------------------------------------------
(* On one core the driver implements MatrixService, liveness apart. *)

(* The service counts elements over all packs; so many are before element e
   of pack p.                                                              *)
Place(p, e) == 4 * p + e
Delivering == Place(pack_idx, start_core_idx)

LEMMA ServiceCardinality == \A S : Service!Cardinality(S) = Cardinality(S)
  BY DEF Service!Cardinality, Cardinality

LEMMA ServiceNames ==
    /\ Service!Packs = Packs /\ Service!Elements = Elements
    /\ \A e : Service!row(e) = row(e) /\ Service!col(e) = col(e)
    /\ \A pair : Service!Product(pair) = Product(pair)
    /\ Cardinality(Elements) = 4
<1>1. Cardinality(0 .. 3) = 4
  <2>1. Cardinality(0 .. 3) = IF 0 > 3 THEN 0 ELSE 3 - 0 + 1
    BY FS_Interval, 0 \in Int, 3 \in Int, Zenon
  <2> QED
    BY <2>1
<1> QED
  BY <1>1, ElementIndex
     DEF Packs, Service!Packs, Elements, Service!Elements, MATRIX_SIZE,
         Service!MATRIX_SIZE, row, Service!row, col, Service!col, Product,
         Service!Product, Index, Service!Index

(* The first n elements are n. *)
LEMMA FirstElements ==
    ASSUME NEW n \in 0 .. 4 * PackCount
    PROVE  /\ Service!First(n) =
                {pe \in Packs \X Elements : Place(pe[1], pe[2]) < n}
           /\ Service!Cardinality(Service!First(n)) = n
<1>1. PackCount \in Nat /\ n \in Nat
  BY HostAssumption
<1>2. Service!First(n) = {pe \in Packs \X Elements : Place(pe[1], pe[2]) < n}
  <2>1. Service!Wanted = Packs \X Elements
    BY ServiceNames DEF Service!Wanted
  <2>2. \A pe \in Packs \X Elements :
           pe[1] * Cardinality(Service!Elements) + pe[2] = Place(pe[1], pe[2])
    BY ServiceNames, ElementIndex DEF Place, Packs
  <2>3. Service!First(n) =
          {pe \in Packs \X Elements :
              pe[1] * Cardinality(Service!Elements) + pe[2] < n}
    BY <2>1, ServiceCardinality DEF Service!First
  <2> QED
    BY <2>2, <2>3, Zenon
<1> DEFINE S == 0 .. n - 1
           T == {pe \in Packs \X Elements : Place(pe[1], pe[2]) < n}
           f == [k \in S |-> <<k \div 4, k % 4>>]
<1>3. \A k \in S : /\ k \div 4 \in Packs /\ k % 4 \in Elements
                   /\ Place(k \div 4, k % 4) = k
  BY <1>1, ElementIndex DEF Place, Packs
<1>4. f \in [S -> T]
  <2>1. \A k \in S : k < n
    BY <1>1
  <2>2. \A k \in S : <<k \div 4, k % 4>> \in T
    BY <1>3, <2>1
  <2> QED
    BY <2>2
<1>5. ASSUME NEW a \in S, NEW b \in S, f[a] = f[b]
      PROVE  a = b
  BY <1>3, <1>5
<1>6. ASSUME NEW t \in T
      PROVE  \E k \in S : f[k] = t
  <2>1. PICK p \in Packs, e \in Elements : t = <<p, e>>
    OBVIOUS
  <2>2. p \in Nat /\ e \in 0 .. 3 /\ Place(p, e) < n
    BY <2>1, ElementIndex DEF Packs
  <2>3. /\ Place(p, e) \in S
        /\ Place(p, e) \div 4 = p /\ Place(p, e) % 4 = e
    BY <1>1, <2>2 DEF Place
  <2>4. f[Place(p, e)] = t
    BY <2>1, <2>3
  <2> QED
    BY <2>3, <2>4
<1> HIDE DEF f, S, T
<1>7. f \in Bijection(S, T)
  BY <1>4, <1>5, <1>6, Fun_IsBij
<1>8. IsFiniteSet(S) /\ Cardinality(S) = n
  BY <1>1, FS_Interval DEF S
<1>9. Cardinality(T) = n
  <2>1. ExistsBijection(S, T)
    BY <1>7, Fun_ExistsBij
  <2> QED
    BY <1>8, <2>1, FS_Bijection
<1> QED
  BY <1>2, <1>9, ServiceCardinality DEF T

(* What has been delivered are the first elements, all of them at the end. *)
LEMMA DeliveredFirst ==
    ASSUME NEW p \in 0 .. PackCount, NEW e \in Elements,
           p = PackCount => e = 0
    PROVE  /\ Place(p, e) \in 0 .. 4 * PackCount
           /\ {pe \in Packs \X Elements :
                 pe[1] < p \/ (pe[1] = p /\ pe[2] < e)}
                = Service!First(Place(p, e))
<1>1. p \in 0 .. PackCount /\ e \in 0 .. 3 /\ PackCount \in Nat
  BY HostAssumption, ElementIndex
<1>2. Place(p, e) \in 0 .. 4 * PackCount
  BY <1>1 DEF Place
<1>3. \A q \in Packs, f \in Elements :
         Place(q, f) < Place(p, e) <=> q < p \/ (q = p /\ f < e)
  BY <1>1, ElementIndex DEF Place, Packs
<1> QED
  BY <1>2, <1>3, FirstElements

LEMMA AllWanted ==
    /\ Service!Wanted = Service!First(4 * PackCount)
    /\ Service!Cardinality(Service!Wanted) = 4 * PackCount
<1>1. 4 * PackCount \in 0 .. 4 * PackCount
  BY HostAssumption
<1>2. Service!Wanted = Packs \X Elements
  BY ServiceNames DEF Service!Wanted
<1>3. \A p \in Packs, e \in Elements : Place(p, e) < 4 * PackCount
  BY HostAssumption, ElementIndex DEF Place, Packs
<1>4. Service!Wanted = Service!First(4 * PackCount)
  BY <1>1, <1>2, <1>3, FirstElements
<1> QED
  BY <1>1, <1>4, FirstElements

(* The state of the service, as Service maps it. *)
Calling == pc \in AccessPoints \cup {"transact", "package"}
Answer == [pe \in Delivered |-> Element(pe[1], pe[2])]

LEMMA ServiceState ==
    /\ Service!serviceVars = <<pairs, Calling, Answer>>
    /\ (Service!serviceVars)' = <<pairs', Calling', Answer'>>
  BY DEF Service!serviceVars, Calling, Answer

LEMMA SameService ==
    ASSUME UNCHANGED <<pairs, pack_idx, start_core_idx, matrix_output_array>>,
           Calling' <=> Calling
    PROVE  UNCHANGED Service!serviceVars
<1>1. Delivered' = Delivered
  BY DEF Delivered
<1>2. Answer' = Answer
  BY <1>1 DEF Answer, Element
<1>3. Calling' = Calling
  BY DEF Calling
<1> QED
  BY <1>2, <1>3, ServiceState

LEMMA NothingAnswered ==
    /\ pack_idx = 0 /\ start_core_idx = 0 => Answer = Service!None
    /\ pack_idx' = 0 /\ start_core_idx' = 0 => Answer' = Service!None
<1>1. pack_idx = 0 /\ start_core_idx = 0 => Delivered = {}
  BY ElementIndex DEF Delivered, Packs
<1>2. pack_idx' = 0 /\ start_core_idx' = 0 => Delivered' = {}
  BY ElementIndex DEF Delivered, Packs
<1> QED
  BY <1>1, <1>2 DEF Answer, Service!None

LEMMA ServiceForgets ==
    ASSUME ~Calling', Answer' = Service!None, UNCHANGED pairs
    PROVE  Service!Forget
<1>1. Calling' = FALSE
  BY DEF Calling
<1> QED
  BY <1>1 DEF Service!Forget, Calling, Answer

LEMMA PackageDelivers ==
    ASSUME OneCoreCalls, FullInv, Package, TypeOK', ElementsCorrect'
    PROVE  Service!Deliver
<1>1. /\ TypeOK /\ pack_idx \in Packs /\ pack_idx \in 0 .. PackCount
      /\ start_core_idx \in 0 .. 3 /\ core_idx \in 0 .. 2
      /\ core_idx < chunk_core_count
  BY ElementIndex DEF FullInv, HostInv, Package, TypeOK, InBounds, Lanes
<1>2. num_cores = 1 /\ PackCount \in Nat /\ pack_idx < PackCount
  BY <1>1, HostAssumption, ChunkBounds, ElementIndex
     DEF OneCoreCalls, num_cores, TypeOK, chunk_core_count, MATRIX_SIZE, Packs
<1>3. ElementsCorrect
  BY OneCoreElements
<1> DEFINE n == Delivering + 1
<1>4. /\ Delivering \in 0 .. 4 * PackCount
      /\ Delivered = Service!First(Delivering)
  BY <1>1, <1>2, ElementIndex, DeliveredFirst DEF Delivering, Delivered
<1>5. /\ n \in Delivering + 1 .. 4 * PackCount
      /\ Delivering' = n /\ Delivered' = Service!First(n)
      /\ Calling' <=> n # 4 * PackCount
  <2>1. CASE start_core_idx + 1 \in Elements
    <3>1. /\ start_core_idx' = start_core_idx + 1 /\ pack_idx' = pack_idx
          /\ pc' = "transact"
      BY <1>2, <2>1 DEF Package, MoreChunks
    <3>2. start_core_idx + 1 \in 0 .. 3
      BY <2>1, ElementIndex
    <3>3. /\ n \in Delivering + 1 .. 4 * PackCount /\ Delivering' = n
          /\ n # 4 * PackCount
      BY <1>1, <1>2, <3>1, <3>2 DEF Delivering, Place
    <3>4. Delivered' = Service!First(n)
      BY <1>1, <1>2, <2>1, <3>1, <3>3, DeliveredFirst DEF Delivered, Delivering
    <3> QED
      BY <3>1, <3>3, <3>4 DEF Calling
  <2>2. CASE start_core_idx + 1 \notin Elements
    <3>1. /\ start_core_idx' = 0 /\ pack_idx' = pack_idx + 1
          /\ pc' = IF pack_idx + 1 \in Packs THEN "transact" ELSE "returned"
      BY <1>2, <2>2 DEF Package, MoreChunks
    <3>2. start_core_idx = 3
      BY <1>1, <2>2, ElementIndex
    <3>3. /\ n \in Delivering + 1 .. 4 * PackCount /\ Delivering' = n
          /\ pack_idx + 1 \in Packs <=> n # 4 * PackCount
      BY <1>1, <1>2, <3>1, <3>2 DEF Delivering, Place, Packs
    <3>4. Delivered' = Service!First(n)
      <4>1. pack_idx' \in 0 .. PackCount /\ 0 \in Elements
        BY <1>1, <1>2, <3>1, ElementIndex
      <4> QED
        BY <3>1, <3>3, <4>1, DeliveredFirst DEF Delivered, Delivering
    <3> QED
      BY <3>1, <3>3, <3>4, PointNames DEF Calling
  <2> QED
    BY <2>1, <2>2
<1> HIDE DEF n
<1>6. pairs' = pairs /\ Calling
  BY DEF Package, Calling
<1>7. Answer' = [pe \in Service!First(n) |->
          IF pe \in DOMAIN Answer THEN Answer[pe]
          ELSE Service!Product(pairs[pe[1]])[Service!row(pe[2])]
                                            [Service!col(pe[2])]]
  <2>1. ASSUME NEW pe \in Service!First(n)
        PROVE  Element(pe[1], pe[2])' =
                 IF pe \in DOMAIN Answer THEN Answer[pe]
                 ELSE Service!Product(pairs[pe[1]])[Service!row(pe[2])]
                                                   [Service!col(pe[2])]
    <3>1. Element(pe[1], pe[2])'
            = Product(pairs[pe[1]])[row(pe[2])][col(pe[2])]
      BY <1>5, <1>6 DEF ElementsCorrect
    <3>2. CASE pe \in Delivered
      <4>1. Element(pe[1], pe[2])
              = Product(pairs[pe[1]])[row(pe[2])][col(pe[2])]
        BY <1>3, <3>2 DEF ElementsCorrect
      <4> QED
        BY <3>1, <3>2, <4>1 DEF Answer
    <3>3. CASE pe \notin Delivered
      BY <3>1, <3>3, ServiceNames DEF Answer
    <3> QED
      BY <3>2, <3>3
  <2>2. Answer' = [pe \in Service!First(n) |-> Element(pe[1], pe[2])']
    BY <1>5 DEF Answer
  <2> QED
    BY <2>1, <2>2
<1>8. Calling' = (DOMAIN Answer' # Service!Wanted)
  <2>1. DOMAIN Answer' = Service!First(n)
    BY <1>7
  <2>2. n # 4 * PackCount => Service!First(n) # Service!Wanted
    <3>1. n \in 0 .. 4 * PackCount
      BY <1>4, <1>5
    <3> QED
      BY <3>1, FirstElements, AllWanted
  <2>3. n = 4 * PackCount => Service!First(n) = Service!Wanted
    BY AllWanted
  <2>4. Calling' <=> DOMAIN Answer' # Service!Wanted
    BY <1>5, <2>1, <2>2, <2>3
  <2> QED
    BY <2>4 DEF Calling
<1>9. n \in Service!Cardinality(DOMAIN Answer) + 1
              .. Service!Cardinality(Service!Wanted)
  <2>1. Service!Cardinality(DOMAIN Answer) = Delivering
    BY <1>4, FirstElements DEF Answer
  <2> QED
    BY <1>5, <2>1, AllWanted
<1> QED
  BY <1>6, <1>7, <1>8, <1>9 DEF Service!Deliver, Calling, Answer

LEMMA ServiceStep ==
    ASSUME OneCoreCalls, FullInv, FullInv', ElementsCorrect', [Next]_vars
    PROVE  [Service!Next]_(Service!serviceVars)
<1>1. TypeOK /\ TypeOK' /\ InBounds /\ ChunkStarts /\ ElementsCorrect'
  BY DEF FullInv, HostInv, DataInv
<1>2. CASE (SilentEdge /\ UNCHANGED hostVars) \/ HostIssue \/ UNCHANGED vars
  <2>1. UNCHANGED hostVars
    BY <1>2 DEF HostIssue, vars
  <2> QED
    BY <2>1, SameService DEF hostVars, locals, Calling
<1>3. CASE HostRespond
  <2>1. /\ UNCHANGED <<pairs, pack_idx, start_core_idx, matrix_output_array>>
        /\ \/ pc \in AccessPoints /\ pc' \in AccessPoints \cup {"package"}
           \/ pc' = pc
    BY <1>3, PointNames
       DEF HostRespond, Proceed, Poll, StoredOperand, LoadedResult, hostVars,
           locals, Following, Awaited
  <2> QED
    BY <2>1, SameService DEF Calling
<1>4. CASE Call
  <2>1. /\ ~Calling /\ Calling' /\ UNCHANGED pairs
        /\ pack_idx' = 0 /\ start_core_idx' = 0
    BY <1>4, PointNames DEF Call, Calling
  <2>2. Calling' = TRUE
    BY <2>1 DEF Calling
  <2>3. Answer' = Service!None
    BY <2>1, NothingAnswered
  <2> QED
    BY <2>1, <2>2, <2>3 DEF Service!Next, Service!Call, Calling, Answer
<1>5. CASE Transact
  <2>1. UNCHANGED <<pairs, run, pack_idx, start_core_idx, matrix_output_array>>
    BY <1>5 DEF Transact
  <2>2. CASE num_cores = 0
    <3>1. pack_idx' = 0 /\ start_core_idx' = 0
      BY <1>1, <2>1, <2>2 DEF ChunkStarts
    <3>2. ~ArgumentsOK
      BY <1>1, <2>2, ElementIndex
         DEF TypeOK, ArgumentsOK, chunk_core_count, MATRIX_SIZE
    <3>3. ~Calling'
      BY <1>5, <3>2, PointNames DEF Transact, Calling
    <3>4. Answer' = Service!None
      BY <3>1, NothingAnswered
    <3> QED
      BY <2>1, <3>3, <3>4, ServiceForgets DEF Service!Next
  <2>3. CASE num_cores = 1
    <3>1. chunk_core_count = 1 /\ start_core_idx \in 0 .. 3
      BY <1>1, <2>3, ElementIndex DEF TypeOK, chunk_core_count, MATRIX_SIZE
    <3>2. ArgumentsOK
      BY <1>1, <1>5, <3>1, ElementIndex
         DEF ArgumentsOK, InBounds, Transact, MATRIX_SIZE
    <3>3. Calling /\ Calling'
      BY <1>5, <3>2, PointNames DEF Transact, Calling
    <3> QED
      BY <2>1, <3>3, SameService
  <2> QED
    BY <1>1, <2>2, <2>3, ChunkBounds DEF OneCoreCalls, num_cores, TypeOK
<1>6. CASE Package
  BY <1>1, <1>6, PackageDelivers DEF Service!Next
<1>7. CASE Return \/ Kill \/ Restart \/ Reset
  <2>1. /\ pc' \in {"call", "exit", "dead"} /\ UNCHANGED pairs
        /\ pack_idx' = 0 /\ start_core_idx' = 0
    BY <1>7 DEF Return, Kill, Restart, Reset, FreshLocals
  <2>2. ~Calling'
    BY <2>1, PointNames DEF Calling
  <2>3. Answer' = Service!None
    BY <2>1, NothingAnswered
  <2> QED
    BY <2>1, <2>2, <2>3, ServiceForgets DEF Service!Next
<1> QED
  BY <1>2, <1>3, <1>4, <1>5, <1>6, <1>7 DEF Next, HostStep

(* On one core, the driver and the hardware under it do what the service
   says: every step of theirs, through handshakes, kills and resets, is a
   step of MatrixService or changes nothing its caller sees.  (That a call
   that is not abandoned completes is left to the run.)                    *)
THEOREM ServiceSafety ==
    ASSUME OneCoreCalls
    PROVE  Spec => Service!Init /\ [][Service!Next]_(Service!serviceVars)
<1>1. Init => Service!Init
  <2> SUFFICES ASSUME Init PROVE Service!Init
    OBVIOUS
  <2>1. pairs \in [Service!Packs -> Pairs]
    BY ServiceNames DEF Init
  <2>2. Calling = FALSE /\ Answer = Service!None
    BY PointNames, NothingAnswered DEF Init, Calling
  <2> QED
    BY <2>1, <2>2 DEF Service!Init, Calling, Answer
<1>2. FullInv /\ FullInv' /\ ElementsCorrect' /\ [Next]_vars
        => [Service!Next]_(Service!serviceVars)
  BY ServiceStep
<1> QED
  BY <1>1, <1>2, DataInvCorrect, OneCoreIsCorrect, PTL DEF Spec
=============================================================================
