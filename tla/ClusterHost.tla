----------------------------- MODULE ClusterHost ----------------------------
(***************************************************************************)
(* The driver main.c on the peripheral of ApbBus: main calls               *)
(* full_cluster_transaction once for each number of cores in CoreCounts,   *)
(* which calls cluster_transaction for each chunk of output elements of    *)
(* each pack, which does the handshake, one load or store at a time.       *)
(*                                                                         *)
(* pc names the access that is next or in progress.  The processor does    *)
(* what follows an access in the step that delivers its answer; it is slow *)
(* only in issuing the next access, which is as general.                   *)
(*                                                                         *)
(* The process may be killed at any time, even between the store that      *)
(* starts a computation and the poll for its end: the hardware keeps its   *)
(* state, the access in flight completes, and the next process starts over *)
(* from main.  A reset of the processor also resets the fabric.            *)
(***************************************************************************)
EXTENDS ApbBus, MatrixPacks, Sequences

CONSTANTS
    CoreCounts,  \* num_cores of main's calls, in order
    PackCount,   \* SEQ_VALUE_COUNT
    Pairs        \* the matrix pairs main may have generated

VARIABLES
    pc,
    pairs,           \* the generated data, one pair per pack
    run,             \* which of main's calls
    pack_idx,        \* full_cluster_transaction's loops
    start_core_idx,
    core_idx,        \* cluster_transaction's loops
    word_idx,
    output_array,        \* the row of the current pack
    matrix_output_array

(* main calls with up to three cores, as many as there are lanes. *)
ASSUME HostAssumption ==
    /\ CoreCounts \in Seq(0 .. 3) \ {<<>>}
    /\ PackCount \in Nat \ {0}
    /\ Pairs \subseteq Pair

locals == <<run, pack_idx, start_core_idx, core_idx, word_idx,
            output_array, matrix_output_array>>
hostVars == <<pc, pairs, locals>>
vars == <<hwVars, hostVars>>

Packs == 0 .. PackCount - 1
num_cores == CoreCounts[run]

(* The last chunk may be smaller than num_cores. *)
chunk_core_count ==
    IF start_core_idx + num_cores > MATRIX_SIZE * MATRIX_SIZE
    THEN MATRIX_SIZE * MATRIX_SIZE - start_core_idx
    ELSE num_cores

(* Operand word w of element e of the current pack. *)
OperandWord(e, w) == make_matrix_mult_pack(pairs[pack_idx])[e][w]

-----------------------------------------------------------------------------
(* cluster_transaction: the access at each program point *)

(* Fault: the end of the computation is not awaited. *)
Following_unpolled ==
    [store_reset       |-> "show_start",
     show_start        |-> "poll_reset",
     show_reset        |-> "store_signal_tx",
     store_signal_tx   |-> "poll_ready",
     show_ready        |-> "store_operand",
     store_tx_complete |-> "show_done",
     show_done         |-> "load_result"]

(* Points whose access is followed by another whatever it returned. *)
Following ==
    [store_reset       |-> "show_start",
     show_start        |-> "poll_reset",
     show_reset        |-> "store_signal_tx",
     store_signal_tx   |-> "poll_ready",
     show_ready        |-> "store_operand",
     store_tx_complete |-> "poll_done",
     show_done         |-> "load_result"]

(* Fault: a transient status is awaited. *)
Awaited_transient ==
    [poll_reset |-> [code |-> STATUS_RESET,      then |-> "show_reset"],
     poll_ready |-> [code |-> STATUS_READY_RX,   then |-> "show_ready"],
     poll_done  |-> [code |-> STATUS_PROCESSING, then |-> "show_done"]]

(* The status a poll waits for and the point after it. *)
Awaited ==
    [poll_reset |-> [code |-> STATUS_RESET,    then |-> "show_reset"],
     poll_ready |-> [code |-> STATUS_READY_RX, then |-> "show_ready"],
     poll_done  |-> [code |-> STATUS_DONE_TX,  then |-> "show_done"]]

AccessPoints ==
    DOMAIN Following \cup DOMAIN Awaited \cup {"store_operand", "load_result"}

HostAccess ==
    CASE pc = "store_reset"       -> WriteOf(INSTRUCTION, INST_RESET)
      [] pc = "store_signal_tx"   -> WriteOf(INSTRUCTION, INST_SIGNAL_TX)
      [] pc = "store_tx_complete" -> WriteOf(INSTRUCTION, INST_TX_COMPLETE)
      [] pc = "store_operand"     ->
           WriteOf(DATA + 4 * core_idx + word_idx,
                   OperandWord(start_core_idx + core_idx, word_idx))
      [] pc = "load_result"       -> ReadOf(DATA + core_idx)
      [] OTHER                    -> ReadOf(STATUS)

HostIssue ==
    /\ pc \in AccessPoints
    /\ Request(HostAccess)
    /\ UNCHANGED hostVars

Proceed ==
    /\ pc \in DOMAIN Following
    /\ pc' = Following[pc]
    /\ UNCHANGED <<pairs, locals>>

(* while (read_cluster_status(virtual_base) != ...); *)
Poll(data) ==
    /\ pc \in DOMAIN Awaited
    /\ pc' = IF data = Awaited[pc].code THEN Awaited[pc].then ELSE pc
    /\ UNCHANGED <<pairs, locals>>

(* Fault: the loop over the cores runs once too often. *)
StoredOperand_oneMore ==
    /\ pc = "store_operand"
    /\ IF word_idx < 3
       THEN word_idx' = word_idx + 1 /\ UNCHANGED <<pc, core_idx>>
       ELSE /\ word_idx' = 0
            /\ IF core_idx + 1 <= chunk_core_count
               THEN core_idx' = core_idx + 1 /\ UNCHANGED pc
               ELSE core_idx' = 0 /\ pc' = "store_tx_complete"
    /\ UNCHANGED <<pairs, run, pack_idx, start_core_idx, output_array,
                   matrix_output_array>>

StoredOperand ==
    /\ pc = "store_operand"
    /\ \/ /\ word_idx < 3
          /\ word_idx' = word_idx + 1
          /\ UNCHANGED <<pc, core_idx>>
       \/ /\ word_idx = 3
          /\ core_idx + 1 < chunk_core_count
          /\ word_idx' = 0
          /\ core_idx' = core_idx + 1
          /\ UNCHANGED pc
       \/ /\ word_idx = 3
          /\ core_idx + 1 >= chunk_core_count
          /\ word_idx' = 0
          /\ core_idx' = 0
          /\ pc' = "store_tx_complete"
    /\ UNCHANGED <<pairs, run, pack_idx, start_core_idx, output_array,
                   matrix_output_array>>

(* Fault: the word goes where its element goes in the matrix. *)
LoadedResult_byElement(data) ==
    /\ pc = "load_result"
    /\ output_array' = [output_array EXCEPT ![start_core_idx + core_idx] = data]
    /\ IF core_idx + 1 < chunk_core_count
       THEN core_idx' = core_idx + 1 /\ UNCHANGED pc
       ELSE core_idx' = 0 /\ pc' = "package"
    /\ UNCHANGED <<pairs, run, pack_idx, start_core_idx, word_idx,
                   matrix_output_array>>

LoadedResult(data) ==
    /\ pc = "load_result"
    /\ output_array' = [output_array EXCEPT ![core_idx] = data]
    /\ IF core_idx + 1 < chunk_core_count
       THEN core_idx' = core_idx + 1 /\ UNCHANGED pc
       ELSE core_idx' = 0 /\ pc' = "package"
    /\ UNCHANGED <<pairs, run, pack_idx, start_core_idx, word_idx,
                   matrix_output_array>>

(* The answer reaches the processor; a dead process ignores it. *)
HostRespond ==
    /\ BusRespond
    /\ \/ Proceed
       \/ Poll(prdata_reg)
       \/ StoredOperand
       \/ LoadedResult(prdata_reg)
       \/ pc \notin AccessPoints /\ UNCHANGED hostVars

-----------------------------------------------------------------------------
(* full_cluster_transaction and main *)

Call ==
    /\ pc = "call"
    /\ pc' = "transact"
    /\ pack_idx' = 0
    /\ start_core_idx' = 0
    /\ matrix_output_array' = [matrix_output_array EXCEPT ![0] = clear_matrix]
    /\ UNCHANGED <<hwVars, pairs, run, core_idx, word_idx, output_array>>

(* cluster_transaction checks its arguments before it touches a register. *)
ArgumentsOK ==
    /\ chunk_core_count > 0
    /\ chunk_core_count <= MATRIX_SIZE * MATRIX_SIZE
    /\ pack_idx \in Packs
    /\ start_core_idx \in Elements
    /\ start_core_idx + chunk_core_count <= MATRIX_SIZE * MATRIX_SIZE

Transact ==
    /\ pc = "transact"
    /\ pc' = IF ArgumentsOK THEN "store_reset" ELSE "returned"
    /\ core_idx' = 0
    /\ word_idx' = 0
    /\ UNCHANGED <<hwVars, pairs, run, pack_idx, start_core_idx, output_array,
                   matrix_output_array>>

(* Fault: the loop's bound is included. *)
MoreChunks_included == start_core_idx + num_cores \in 0 .. MATRIX_SIZE * MATRIX_SIZE

(* The condition of the loop over the chunks, after its increment. *)
MoreChunks == start_core_idx + num_cores \in Elements

(* The chunk's words go into the matrix; then the next chunk, the next pack
   with its matrix cleared, or the end of the call.                        *)
Package ==
    LET packaged == [matrix_output_array EXCEPT ![pack_idx] =
            package_cluster_outputs_into_matrix(
                output_array, chunk_core_count, start_core_idx, @)]
    IN
    /\ pc = "package"
    /\ \/ /\ MoreChunks
          /\ start_core_idx' = start_core_idx + num_cores
          /\ matrix_output_array' = packaged
          /\ pc' = "transact"
          /\ UNCHANGED pack_idx
       \/ /\ ~MoreChunks
          /\ start_core_idx' = 0
          /\ pack_idx' = pack_idx + 1
          /\ \/ /\ pack_idx + 1 \in Packs
                /\ matrix_output_array' =
                     [packaged EXCEPT ![pack_idx + 1] = clear_matrix]
                /\ pc' = "transact"
             \/ /\ pack_idx + 1 \notin Packs
                /\ matrix_output_array' = packaged
                /\ pc' = "returned"
    /\ UNCHANGED <<hwVars, pairs, run, core_idx, word_idx, output_array>>

(* main prints the matrices and goes on even if the call failed; the call's
   loop variables are gone.                                                *)
Return ==
    /\ pc = "returned"
    /\ \/ run < Len(CoreCounts) /\ pc' = "call" /\ run' = run + 1
       \/ run = Len(CoreCounts) /\ pc' = "exit" /\ UNCHANGED run
    /\ pack_idx' = 0
    /\ start_core_idx' = 0
    /\ UNCHANGED <<hwVars, pairs, core_idx, word_idx, output_array,
                   matrix_output_array>>

-----------------------------------------------------------------------------
(* Processes come and go *)

(* The arrays live on main's stack: no element is read before it has been
   written, so their first content does not matter.                        *)
FreshLocals ==
    /\ run' = 1
    /\ pack_idx' = 0
    /\ start_core_idx' = 0
    /\ core_idx' = 0
    /\ word_idx' = 0
    /\ output_array' = [e \in Elements |-> 0]
    /\ matrix_output_array' = [p \in Packs |-> clear_matrix]

Kill ==
    /\ pc \notin {"dead", "exit"}
    /\ pc' = "dead"
    /\ FreshLocals
    /\ UNCHANGED <<hwVars, pairs>>

(* The program is started again, on whatever the last process left behind.
   The processor first completes the access of the last one.               *)
Restart ==
    /\ pc \in {"dead", "exit"}
    /\ req = NoAccess
    /\ pc' = "call"
    /\ FreshLocals
    /\ UNCHANGED <<hwVars, pairs>>

Reset ==
    /\ BusReset
    /\ pc' = "dead"
    /\ FreshLocals
    /\ UNCHANGED pairs

Init ==
    /\ BusInit
    /\ pc = "dead"
    /\ pairs \in [Packs -> Pairs]
    /\ run = 1
    /\ pack_idx = 0
    /\ start_core_idx = 0
    /\ core_idx = 0
    /\ word_idx = 0
    /\ output_array = [e \in Elements |-> 0]
    /\ matrix_output_array = [p \in Packs |-> clear_matrix]

HostStep == HostIssue \/ Call \/ Transact \/ Package \/ Return

Next ==
    \/ SilentEdge /\ UNCHANGED hostVars
    \/ HostRespond
    \/ HostStep
    \/ Kill
    \/ Restart
    \/ Reset

(* As in ApbBus, and a process that is alive is scheduled.  Nobody has to
   kill, restart or reset anything.                                        *)
Fairness ==
    /\ WF_vars((SilentEdge /\ UNCHANGED hostVars) \/ HostRespond)
    /\ WF_vars(BusAccept /\ UNCHANGED hostVars)
    /\ WF_vars(HostRespond)
    /\ WF_vars(HostStep)

Spec == Init /\ [][Next]_vars /\ Fairness

-----------------------------------------------------------------------------
(* Properties *)

Points == AccessPoints \cup
    {"call", "transact", "package", "returned", "dead", "exit"}

TypeOK ==
    /\ BusTypeOK
    /\ pc \in Points
    /\ pairs \in [Packs -> Pairs]
    /\ run \in DOMAIN CoreCounts
    /\ pack_idx \in 0 .. PackCount
    /\ start_core_idx \in Elements
    /\ core_idx \in Lanes
    /\ word_idx \in Elements
    /\ output_array \in [Elements -> Word]
    /\ matrix_output_array \in [Packs -> Matrix]

(* The host is at one of points, or about to start its access last. *)
Between(points, last) == pc \in points \/ (pc = last /\ req = NoAccess)

(* Handshake: the host never outruns the cluster.  From the poll that saw it
   until the host's next instruction, the cluster is in the state the host
   takes it to be in, whatever an earlier process left in the registers and
   however late the answers come.                                          *)
HostInStep ==
    /\ Between({"show_reset"}, "store_signal_tx") => state = ST_RESET
    /\ Between({"show_ready", "store_operand"}, "store_tx_complete")
           => state = ST_READY_RX
    /\ Between({"show_done", "load_result"}, "load_result") => state = ST_DONE

(* Why it holds.  The access in progress is the one pc names, and only a
   dead process leaves one behind; *)
Asked ==
    /\ pc \in AccessPoints /\ req # NoAccess => req = HostAccess
    /\ pc \notin AccessPoints \cup {"dead"} => req = NoAccess

(* register 0 keeps the instruction the host has last stored, which decides,
   through the phases of BusInv, what the status it polls can mean; *)
LastInstruction ==
    /\ Between({"show_start", "poll_reset", "show_reset"}, "store_signal_tx")
           => instruction = INST_RESET
    /\ Between({"poll_ready", "show_ready", "store_operand"}, "store_tx_complete")
           => instruction = INST_SIGNAL_TX
    /\ pc \in {"poll_done", "show_done", "load_result"}
           => instruction = INST_TX_COMPLETE

(* and the loops stay within the arrays, whatever the number of cores. *)
InBounds ==
    /\ pc \in AccessPoints \cup {"transact", "package"} => pack_idx \in Packs
    /\ pc \in AccessPoints \cup {"package"} => core_idx < chunk_core_count

HostInv ==
    /\ BusInv
    /\ TypeOK
    /\ InBounds
    /\ Asked
    /\ LastInstruction
    /\ HostInStep

(* What the lanes of the current chunk are given and what they make of it. *)
ChunkLanes == 0 .. chunk_core_count - 1
ChunkResult(c) ==
    LET operand(w) == OperandWord(start_core_idx + c, w)
    IN  MacResult(operand(0), operand(1), operand(2), operand(3))

(* The lanes start only on the word of the host, and on all operands of this
   chunk: none is missing, and none is left from an earlier chunk, an earlier
   process or the results of the last computation, which share registers
   with the operands.  (A killed process may have said the word before it
   died.)                                                                  *)
OperandsComplete ==
    mac_start /\ pc # "dead" =>
        /\ pc = "store_tx_complete"
        /\ \A c \in ChunkLanes, w \in Elements :
               Operand(c, w) = OperandWord(start_core_idx + c, w)

(* When the host has seen DONE_TX the result registers hold both words of
   the results of this chunk, and keep them while it loads them.           *)
ResultsPublished ==
    pc \in {"show_done", "load_result"} =>
        \A c \in ChunkLanes :
            /\ data_out[DATA + 2 * c] = LoWord(ChunkResult(c))
            /\ data_out[DATA + 2 * c + 1] = HiWord(ChunkResult(c))

(* The elements of matrix_output_array the running call has delivered. *)
Delivered == { pe \in Packs \X Elements :
    \/ pe[1] < pack_idx
    \/ pe[1] = pack_idx /\ pe[2] < start_core_idx }

Element(p, e) == matrix_output_array[p][row(e)][col(e)]

(* Every element the driver delivers is that element of the product of the
   two matrices, modulo the word: "to show that the cluster is correctly
   performing matrix multiplication" (main.c:627).                         *)
ElementsCorrect ==
    \A pe \in Delivered :
        Element(pe[1], pe[2]) = Product(pairs[pe[1]])[row(pe[2])][col(pe[2])]

(* What the driver delivers for any number of cores.  It loads one word per
   core from consecutive registers, where the cluster puts two words per
   lane: core c of a chunk gets the low word of lane c / 2 for an even c and
   its high word for an odd one.                                           *)
ElementsAreLaneWords ==
    \A pe \in Delivered :
        LET c == pe[2] % num_cores
            lane == make_matrix_mult_pack(pairs[pe[1]])[pe[2] - c + c \div 2]
            r == MacResult(lane[0], lane[1], lane[2], lane[3])
        IN  Element(pe[1], pe[2]) = IF c % 2 = 0 THEN LoWord(r) ELSE HiWord(r)

(* On one core the driver does what full_cluster_transaction promises: its
   calls, with the hardware under them, are calls of MatrixService.        *)
Service == INSTANCE MatrixService WITH
    data    <- pairs,
    calling <- pc \in AccessPoints \cup {"transact", "package"},
    answer  <- [pe \in Delivered |-> Element(pe[1], pe[2])]

ImplementsService == Service!Spec

(* The driver polls without a timeout.  It is never caught in a poll: every
   transaction that touches the cluster comes to its end, unless the process
   is killed or the board reset, from whatever state the cluster is in.    *)
TransactionReturns ==
    (pc = "store_reset") ~> (pc \in {"package", "dead"})
=============================================================================
