---------------------------- MODULE ApbBusProofs ----------------------------
(***************************************************************************)
(* The invariants of ApbBus, for every word size and every program that    *)
(* uses the registers: type correctness, and through the inductive         *)
(* invariant BusInv that no store is dropped or overtaken and no load is   *)
(* answered with a stale word.  Before them the arithmetic of MacWords: a  *)
(* lane's results are words, and the low word of its signed arithmetic is  *)
(* the dot product that the host's unsigned arithmetic defines.            *)
(***************************************************************************)
EXTENDS ApbBus, TLAPS

(* Euclidean division by a positive number, as the provers know it. *)
LEMMA DivMod ==
    ASSUME NEW b \in Nat, b > 0, NEW x \in Int
    PROVE  /\ x \div b \in Int
           /\ x % b \in 0 .. b - 1
           /\ x = b * (x \div b) + (x % b)
  OBVIOUS

LEMMA DivModUnique ==
    ASSUME NEW b \in Nat, b > 0, NEW x \in Int,
           NEW q \in Int, NEW r \in 0 .. b - 1, x = b * q + r
    PROVE  x \div b = q /\ x % b = r
  OBVIOUS

LEMMA ProductInt ==
    ASSUME NEW x \in Int, NEW y \in Int
    PROVE  x * y \in Int
  OBVIOUS

(* Adding a multiple of b does not change the remainder. *)
LEMMA ModAddMultiple ==
    ASSUME NEW b \in Nat, b > 0, NEW x \in Int, NEW k \in Int
    PROVE  (x + b * k) % b = x % b
<1> DEFINE q == x \div b
           r == x % b
<1>1. q \in Int /\ r \in 0 .. b - 1 /\ x = b * q + r
  BY DivMod
<1>2. b * q + b * k = b * (q + k)
  BY <1>1
<1>3. x + b * k \in Int /\ x + b * k = b * (q + k) + r
  BY <1>1, <1>2, ProductInt
<1> HIDE DEF q, r
<1>4. (x + b * k) % b = r
  BY <1>1, <1>3, DivModUnique, q + k \in Int
<1> QED
  BY <1>4 DEF r

(* The remainder by b * b determines the remainder by b. *)
LEMMA ModSquareMod ==
    ASSUME NEW b \in Nat, b > 0, NEW x \in Int
    PROVE  (x % (b * b)) % b = x % b
<1> DEFINE q == x \div (b * b)
           r == x % (b * b)
<1>1. b * b \in Nat /\ b * b > 0
  OBVIOUS
<1>2. q \in Int /\ r \in Int /\ x = (b * b) * q + r
  BY <1>1, DivMod
<1> HIDE DEF q, r
<1>3. (b * b) * q = b * (b * q) /\ b * q \in Int
  BY <1>2
<1>4. x = r + b * (b * q)
  BY <1>2, <1>3, <1>1, ProductInt
<1>5. (r + b * (b * q)) % b = r % b
  BY <1>2, <1>3, ModAddMultiple
<1> QED
  BY <1>4, <1>5 DEF r

LEMMA BasePositive == Base \in Nat /\ Base > 0 /\ Base * Base \in Nat /\ Base * Base > 0
  BY BaseAssumption

(* A word and the number it is read as differ by a multiple of Base. *)
LEMMA SignedWord ==
    ASSUME NEW w \in Word
    PROVE  \E k \in Int : Signed(w) = w + Base * k
<1>1. CASE 2 * w >= Base
  <2>1. Signed(w) = w + Base * (-1)
    BY <1>1, BasePositive DEF Word, Signed
  <2> QED
    BY <2>1
<1>2. CASE ~ (2 * w >= Base)
  <2>1. Signed(w) = w + Base * 0
    BY <1>2, BasePositive DEF Word, Signed
  <2> QED
    BY <2>1
<1> QED
  BY <1>1, <1>2

(* So do a product of words and the signed product. *)
LEMMA SignedProduct ==
    ASSUME NEW v \in Word, NEW w \in Word
    PROVE  /\ Signed(v) * Signed(w) \in Int
           /\ \E k \in Int : Signed(v) * Signed(w) = v * w + Base * k
<1>1. PICK i \in Int : Signed(v) = v + Base * i
  BY SignedWord
<1>2. PICK j \in Int : Signed(w) = w + Base * j
  BY SignedWord
<1>3. v \in Int /\ w \in Int /\ Base \in Int
  BY BasePositive DEF Word
<1>4. (v + Base * i) * (w + Base * j)
        = v * w + Base * (v * j + i * w + Base * (i * j))
  BY <1>3
<1>5. v * j + i * w + Base * (i * j) \in Int
  BY <1>3, ProductInt
<1>6. Signed(v) * Signed(w) \in Int
  BY <1>1, <1>2, <1>3, ProductInt
<1> QED
  BY <1>1, <1>2, <1>4, <1>5, <1>6

(* The result of a lane is two words long, and each half is a word: what
   eric_ip2 copies into its registers fits them.                           *)
THEOREM ResultsAreWords ==
    ASSUME NEW a0 \in Word, NEW a1 \in Word, NEW b0 \in Word, NEW b1 \in Word
    PROVE  MacResult(a0, a1, b0, b1) \in DoubleWord
<1>1. Signed(a0) * Signed(b0) + Signed(a1) * Signed(b1) \in Int
  BY SignedProduct
<1> QED
  BY <1>1, BasePositive, DivMod DEF MacResult, DoubleWord

(* Both halves of a lane result are words, as the result registers need. *)
THEOREM HalvesAreWords ==
    ASSUME NEW r \in DoubleWord
    PROVE  LoWord(r) \in Word /\ HiWord(r) \in Word /\ r = Base * HiWord(r) + LoWord(r)
<1>1. r \in Int /\ 0 <= r /\ r < Base * Base
  BY BasePositive DEF DoubleWord
<1> DEFINE q == r \div Base
           m == r % Base
<1>2. q \in Int /\ m \in 0 .. Base - 1 /\ r = Base * q + m
  BY <1>1, BasePositive, DivMod
<1> HIDE DEF q, m
<1>3. q >= 0
  <2> SUFFICES ASSUME q <= -1 PROVE FALSE
    BY <1>2
  <2>1. Base * q <= Base * (-1)
    BY <1>2, BasePositive
  <2> QED
    BY <1>1, <1>2, <2>1, BasePositive
<1>4. q < Base
  <2> SUFFICES ASSUME q >= Base PROVE FALSE
    BY <1>2, BasePositive
  <2>1. Base * q >= Base * Base
    BY <1>2, BasePositive
  <2> QED
    BY <1>1, <1>2, <2>1, BasePositive
<1> QED
  BY <1>2, <1>3, <1>4, BasePositive DEF q, m, LoWord, HiWord, Word

(* mac_2x2 multiplies signed 32-bit words into a 64-bit register, which wraps
   when all operands are the least word; the host works with uint32_t.  The
   low word is the unsigned dot product modulo 2^32 all the same.          *)
THEOREM LowWordIsDotProduct ==
    ASSUME NEW a0 \in Word, NEW a1 \in Word, NEW b0 \in Word, NEW b1 \in Word
    PROVE  LoWord(MacResult(a0, a1, b0, b1)) = DotProduct(a0, a1, b0, b1)
<1> DEFINE p == Signed(a0) * Signed(b0)
           q == Signed(a1) * Signed(b1)
<1>1. PICK i \in Int : p = a0 * b0 + Base * i
  BY SignedProduct
<1>2. PICK j \in Int : q = a1 * b1 + Base * j
  BY SignedProduct
<1>3. p \in Int /\ q \in Int
  BY SignedProduct
<1> HIDE DEF p, q
<1>4. /\ a0 * b0 + a1 * b1 \in Int
      /\ a0 * b0 \in Int /\ a1 * b1 \in Int
      /\ Base \in Int
  BY BasePositive, ProductInt DEF Word
<1>5. p + q = (a0 * b0 + a1 * b1) + Base * (i + j)
  <2>1. Base * (i + j) = Base * i + Base * j /\ Base * i \in Int /\ Base * j \in Int
    BY <1>4, ProductInt
  <2> QED
    BY <1>1, <1>2, <1>4, <2>1
<1>6. LoWord(MacResult(a0, a1, b0, b1)) = (p + q) % Base
  <2>1. p + q \in Int
    BY <1>3
  <2>2. ((p + q) % (Base * Base)) % Base = (p + q) % Base
    BY <2>1, BasePositive, ModSquareMod
  <2>3. MacResult(a0, a1, b0, b1) = (p + q) % (Base * Base)
    BY DEF MacResult, p, q
  <2> QED
    BY <2>2, <2>3 DEF LoWord
<1>7. i + j \in Int
  OBVIOUS
<1>8. ((a0 * b0 + a1 * b1) + Base * (i + j)) % Base = (a0 * b0 + a1 * b1) % Base
  BY <1>4, <1>7, BasePositive, ModAddMultiple
<1> QED
  BY <1>5, <1>6, <1>8 DEF DotProduct

-----------------------------------------------------------------------------
LEMMA CodesAreWords ==
    \A c \in 0 .. 15 : c \in Word
  BY BaseAssumption DEF Word

(* The edge of any cycle keeps the peripheral's registers well typed. *)
LEMMA EdgeType ==
    ASSUME BusTypeOK, Edge
    PROVE  IpTypeOK' /\ prdata_reg' \in Word
<1> USE DEF BusTypeOK, IpTypeOK
<1>1. state' \in States
  BY DEF Edge, IpEdge, next_state, States, ST_RESET, ST_READY_RX, ST_ACK_RX,
         ST_PROCESSING, ST_DONE
<1>2. mac_done' \in [Lanes -> BOOLEAN]
  BY DEF Edge, IpEdge, MacEdge, mac_start
<1>3. mac_result' \in [Lanes -> DoubleWord]
  <2>1. \A l \in Lanes : LaneResult(l) \in DoubleWord
    <3>1. \A l \in Lanes, k \in 0 .. 3 : Operand(l, k) \in Word
      BY DEF Operand, Lanes, Regs, DATA
    <3> QED
      BY <3>1, ResultsAreWords DEF LaneResult
  <2>2. 0 \in DoubleWord
    BY BasePositive DEF DoubleWord
  <2> QED
    BY <2>1, <2>2 DEF Edge, IpEdge, MacEdge
<1>4. data_out' \in [Regs -> Word]
  <2>1. status \in Word
    BY CodesAreWords DEF status, StatusOf, States, ST_RESET, ST_READY_RX, ST_ACK_RX,
       ST_PROCESSING, ST_DONE, STATUS_RESET, STATUS_READY_RX, STATUS_ACK_RX,
       STATUS_PROCESSING, STATUS_DONE_TX
  <2>2. CASE cluster_tx_state
    <3>1. CopyResults
      BY <2>2 DEF Edge, IpEdge
    <3>2. \A i \in DATA .. DATA + 5 : ResultWord(i) \in Word
      <4> SUFFICES ASSUME NEW i \in DATA .. DATA + 5
                   PROVE  ResultWord(i) \in Word
        OBVIOUS
      <4>1. (i - DATA) \div 2 \in Lanes
        BY DEF Lanes, DATA
      <4>2. mac_result[(i - DATA) \div 2] \in DoubleWord
        BY <4>1
      <4> QED
        BY <4>2, HalvesAreWords DEF ResultWord
    <3>3. instruction \in Word /\ 0 \in Word
      BY CodesAreWords DEF instruction, INSTRUCTION, Regs
    <3>4. \A i \in Regs : i = INSTRUCTION \/ i = STATUS \/ i \in DATA .. DATA + 5
                             \/ i \in DATA + 6 .. 15
      BY DEF Regs, INSTRUCTION, STATUS, DATA
    <3> QED
      BY <3>1, <3>2, <3>3, <3>4, <2>1 DEF CopyResults
  <2>3. CASE ~cluster_tx_state
    BY <2>1, <2>3 DEF Edge, IpEdge, HostWrite, Access
  <2> QED
    BY <2>2, <2>3
<1>5. data_temp' \in Word
  BY DEF Edge, IpEdge, Access
<1>6. prdata_reg' \in Word
  BY DEF Edge
<1> QED
  BY <1>1, <1>2, <1>3, <1>4, <1>5, <1>6

LEMMA InitType == BusInit => BusTypeOK
<1>1. 0 \in Word /\ 0 \in DoubleWord
  BY CodesAreWords, BasePositive DEF DoubleWord
<1> QED
  BY <1>1 DEF BusInit, IpInit, BusTypeOK, IpTypeOK, States, Access, ReadOf, Regs

(* Any well-formed access may be requested, not only those of Accesses. *)
LEMMA RequestType ==
    ASSUME BusTypeOK, NEW a \in Access, Request(a)
    PROVE  BusTypeOK'
  BY DEF BusTypeOK, IpTypeOK, Request, ipVars

LEMMA ResetType ==
    ASSUME BusTypeOK, BusReset
    PROVE  BusTypeOK'
<1>1. 0 \in Word /\ 0 \in DoubleWord
  BY CodesAreWords, BasePositive DEF DoubleWord
<1> QED
  BY <1>1 DEF BusReset, IpReset, BusTypeOK, IpTypeOK, States, Access, ReadOf, Regs

LEMMA SilentEdgeType ==
    ASSUME BusTypeOK, SilentEdge
    PROVE  BusTypeOK'
<1>1. Edge
  BY DEF SilentEdge, BusIdle, BusAccept, BusSetUp, BusAccess, BusStall
<1>2. IpTypeOK' /\ prdata_reg' \in Word
  BY <1>1, EdgeType
<1>3. CASE BusIdle
  BY <1>2, <1>3 DEF BusIdle, BusTypeOK
<1>4. CASE BusAccept
  BY <1>2, <1>4 DEF BusAccept, BusTypeOK
<1>5. CASE BusSetUp
  BY <1>2, <1>5 DEF BusSetUp, BusTypeOK
<1>6. CASE BusAccess
  BY <1>2, <1>6 DEF BusAccess, BusTypeOK
<1>7. CASE BusStall
  BY <1>2, <1>7 DEF BusStall, BusTypeOK
<1> QED
  BY <1>3, <1>4, <1>5, <1>6, <1>7 DEF SilentEdge

LEMMA RespondType ==
    ASSUME BusTypeOK, BusRespond
    PROVE  BusTypeOK'
<1>1. IpTypeOK' /\ prdata_reg' \in Word
  BY EdgeType DEF BusRespond
<1> QED
  BY <1>1 DEF BusRespond, BusTypeOK

LEMMA StutterType ==
    ASSUME BusTypeOK, UNCHANGED hwVars
    PROVE  BusTypeOK'
  BY DEF BusTypeOK, IpTypeOK, hwVars

(* Every register and the bus keep to their types, in particular the status
   codes, the results and the read data are words of the bus.              *)
THEOREM BusTypeCorrect == BusSpec => []BusTypeOK
<1>1. BusTypeOK /\ [BusNext]_hwVars => BusTypeOK'
  <2> SUFFICES ASSUME BusTypeOK, [BusNext]_hwVars
               PROVE  BusTypeOK'
    OBVIOUS
  <2>1. CASE SilentEdge
    BY <2>1, SilentEdgeType
  <2>2. CASE BusRespond
    BY <2>2, RespondType
  <2>3. CASE \E a \in Accesses : Request(a)
    BY <2>3, RequestType, AccessAssumption
  <2>4. CASE BusReset
    BY <2>4, ResetType
  <2>5. CASE UNCHANGED hwVars
    BY <2>5, StutterType
  <2> QED
    BY <2>1, <2>2, <2>3, <2>4, <2>5 DEF BusNext
<1> QED
  BY InitType, <1>1, PTL DEF BusSpec

-----------------------------------------------------------------------------
(* cluster_ctrl as a table. *)
LEMMA StatusTable ==
    /\ StatusOf(ST_RESET)      = STATUS_RESET
    /\ StatusOf(ST_READY_RX)   = STATUS_READY_RX
    /\ StatusOf(ST_ACK_RX)     = STATUS_ACK_RX
    /\ StatusOf(ST_PROCESSING) = STATUS_PROCESSING
    /\ StatusOf(ST_DONE)       = STATUS_DONE_TX
  BY DEF StatusOf, ST_RESET, ST_READY_RX, ST_ACK_RX, ST_PROCESSING, ST_DONE

LEMMA NextStateTable ==
    /\ state = ST_RESET => next_state =
         IF instruction = INST_SIGNAL_TX THEN ST_READY_RX ELSE ST_RESET
    /\ state # ST_RESET /\ instruction = INST_RESET => next_state = ST_RESET
    /\ state = ST_READY_RX /\ instruction # INST_RESET => next_state =
         IF instruction = INST_TX_COMPLETE THEN ST_ACK_RX ELSE ST_READY_RX
    /\ state = ST_ACK_RX /\ instruction # INST_RESET
         => next_state = ST_PROCESSING
    /\ state = ST_PROCESSING /\ instruction # INST_RESET /\ AllDone
         => next_state = ST_DONE
    /\ state = ST_DONE /\ instruction # INST_RESET => next_state = ST_DONE
  BY DEF next_state, ST_RESET, ST_READY_RX, ST_ACK_RX, ST_PROCESSING, ST_DONE

(* What an edge does to the cluster, without the data. *)

LEMMA EdgeEffect ==
    ASSUME BusTypeOK, Edge
    PROVE  /\ state' = next_state
           /\ status_reg' = status
           /\ cluster_tx_state => instruction' = instruction
           /\ ~cluster_tx_state =>
                \A i \in Regs \ {STATUS} :
                   data_out'[i] = IF psel /\ pwrite /\ i = cp_data_reg.reg
                                  THEN cp_data_reg.data ELSE data_out[i]
           /\ state = ST_ACK_RX /\ instruction # INST_RESET
                /\ instruction' # INST_RESET => AllDone'
           /\ data_temp' = IF psel /\ ~pwrite THEN data_out[cp_data_reg.reg]
                                              ELSE data_temp
           /\ prdata_reg' = data_temp
<1>1. STATUS \in Regs /\ INSTRUCTION \in Regs /\ STATUS # INSTRUCTION
  BY DEF Regs, STATUS, INSTRUCTION
<1>2. state' = next_state /\ prdata_reg' = data_temp
      /\ data_temp' = IF psel /\ ~pwrite THEN data_out[cp_data_reg.reg]
                                         ELSE data_temp
  BY DEF Edge, IpEdge
<1>3. status_reg' = status
  BY <1>1 DEF Edge, IpEdge, CopyResults, HostWrite, status_reg
<1>4. cluster_tx_state => instruction' = instruction
  BY <1>1 DEF Edge, IpEdge, CopyResults, instruction
<1>5. ~cluster_tx_state =>
        \A i \in Regs \ {STATUS} :
           data_out'[i] = IF psel /\ pwrite /\ i = cp_data_reg.reg
                          THEN cp_data_reg.data ELSE data_out[i]
  BY DEF Edge, IpEdge, HostWrite
<1>6. ASSUME state = ST_ACK_RX, instruction # INST_RESET,
             instruction' # INST_RESET
      PROVE  AllDone'
  <2>1. mac_start
    BY <1>6 DEF mac_start
  <2>2. state' = ST_PROCESSING
    BY <1>6, <1>2, NextStateTable
  <2>3. ~MacReset(state', instruction')
    BY <2>2, <1>6 DEF MacReset
  <2>4. mac_done' = [l \in Lanes |-> mac_start \/ mac_done[l]]
    BY <2>3 DEF Edge, IpEdge, MacEdge
  <2> QED
    BY <2>1, <2>4 DEF AllDone
<1> QED
  BY <1>2, <1>3, <1>4, <1>5, <1>6

(* The edge moves the cluster as EdgeEffect says; what the agent does at the
   same edge is one of four cases.                                         *)
AgentMoves ==
    \/ apb_state = "IDLE" /\ apb_state' \in {"IDLE", "SET_UP"}
    \/ /\ apb_state = "SET_UP" /\ apb_state' = "ACCESS"
       /\ cp_data_reg' = cp_data_reg
    \/ /\ apb_state = "ACCESS" /\ apb_state' = "SEND_RESPONSE"
       /\ cp_data_reg' = cp_data_reg
    \/ /\ apb_state = "SEND_RESPONSE"
       /\ apb_state' \in {"SEND_RESPONSE", "IDLE"}
       /\ cp_data_reg' = cp_data_reg

LEMMA EdgeInv ==
    ASSUME BusInv, Edge, AgentMoves
    PROVE  Phases' /\ Transferred' /\ LoadIsExact' /\ StatusIsCurrent'
<1>1. BusTypeOK /\ Phases /\ Transferred /\ LoadIsExact /\ StatusIsCurrent
  BY DEF BusInv
<1>2. /\ instruction \in Int
      /\ cp_data_reg \in Access
      /\ INSTRUCTION \in Regs \ {STATUS}
  BY <1>1, BaseAssumption DEF BusTypeOK, IpTypeOK, instruction, INSTRUCTION,
     STATUS, Regs, Word
<1>3. /\ state' = next_state
      /\ status_reg' = status
      /\ prdata_reg' = data_temp
      /\ data_temp' = IF psel /\ ~pwrite THEN data_out[cp_data_reg.reg]
                                         ELSE data_temp
      /\ cluster_tx_state => instruction' = instruction
      /\ ~cluster_tx_state =>
            \A i \in Regs \ {STATUS} :
               data_out'[i] = IF psel /\ pwrite /\ i = cp_data_reg.reg
                              THEN cp_data_reg.data ELSE data_out[i]
      /\ state = ST_ACK_RX /\ instruction # INST_RESET
           /\ instruction' # INST_RESET => AllDone'
  BY <1>1, EdgeEffect
<1>4. ~cluster_tx_state => instruction' =
          IF psel /\ pwrite /\ INSTRUCTION = cp_data_reg.reg
          THEN cp_data_reg.data ELSE instruction
  BY <1>2, <1>3 DEF instruction
<1>5. state # ST_PROCESSING => ~cluster_tx_state
  BY DEF cluster_tx_state
<1>6. psel <=> apb_state \in {"SET_UP", "ACCESS"}
  BY DEF psel
<1>7. apb_state = "ACCESS" /\ pwrite /\ cp_data_reg.reg = INSTRUCTION
          => cp_data_reg.data = instruction
  BY <1>1, <1>2 DEF Transferred, instruction
<1>8. cp_data_reg = [write |-> cp_data_reg.write, reg |-> cp_data_reg.reg,
                     data |-> cp_data_reg.data]
  BY <1>2 DEF Access
<1> USE DEF ST_RESET, ST_READY_RX, ST_ACK_RX, ST_PROCESSING, ST_DONE,
            INST_RESET, INST_SIGNAL_TX, INST_TX_COMPLETE, STATUS_RESET,
            STATUS_READY_RX, STATUS_ACK_RX, STATUS_PROCESSING, STATUS_DONE_TX
<1>A. Phases'
  <2>1. CASE Settled
    <3>1. state' = state /\ status_reg' = status_reg /\ ~cluster_tx_state
      BY <2>1, <1>3, <1>5, NextStateTable, StatusTable DEF Settled, status
    <3>2. CASE instruction' = instruction
      <4>1. Settled'
        BY <2>1, <3>1, <3>2 DEF Settled
      <4> QED
        BY <4>1 DEF Phases
    <3>3. CASE instruction' # instruction
      <4>1. /\ apb_state = "SET_UP" /\ apb_state' = "ACCESS"
            /\ pwrite /\ cp_data_reg.reg = INSTRUCTION
            /\ cp_data_reg' = cp_data_reg
            /\ instruction' = cp_data_reg.data
        BY <3>1, <3>3, <1>4, <1>6, <1>7 DEF AgentMoves
      <4>2. Storing("ACCESS")'
        BY <4>1, <1>8 DEF Storing, WriteOf, pwrite
      <4>3. Settled' \/ Arriving'
        BY <2>1, <3>1, <4>2 DEF Settled, Arriving
      <4> QED
        BY <4>3 DEF Phases
    <3> QED
      BY <3>2, <3>3
  <2>2. CASE Arriving
    <3>1. /\ apb_state = "ACCESS" /\ apb_state' = "SEND_RESPONSE"
          /\ cp_data_reg' = cp_data_reg
          /\ cp_data_reg = WriteOf(INSTRUCTION, instruction)
      BY <2>2 DEF Arriving, Storing, AgentMoves
    <3>2. ~cluster_tx_state /\ instruction' = instruction
      BY <2>2, <3>1, <1>4, <1>5, <1>7 DEF Arriving
    <3>3. Storing("SEND_RESPONSE")'
      BY <3>1, <3>2 DEF Storing
    <3>4. Turned'
      BY <2>2, <3>2, <3>3, <1>3, NextStateTable DEF Arriving, Turned
    <3> QED
      BY <3>4 DEF Phases
  <2>3. CASE Turned
    <3>1. /\ apb_state = "SEND_RESPONSE"
          /\ apb_state' \in {"SEND_RESPONSE", "IDLE"}
          /\ cp_data_reg' = cp_data_reg
          /\ cp_data_reg = WriteOf(INSTRUCTION, instruction)
      BY <2>3 DEF Turned, Storing, AgentMoves
    <3>2. ~cluster_tx_state /\ instruction' = instruction
      BY <2>3, <3>1, <1>4, <1>5, <1>6 DEF Turned
    <3>3. apb_state' = "IDLE" \/ Storing("SEND_RESPONSE")'
      BY <3>1, <3>2 DEF Storing
    <3>4. Settled' \/ Computing'
      BY <2>3, <3>2, <3>3, <1>3, NextStateTable, StatusTable
         DEF Turned, Settled, Computing, status
    <3> QED
      BY <3>4 DEF Phases
  <2>4. CASE Computing
    <3>1. cluster_tx_state
      BY <2>4 DEF Computing, cluster_tx_state
    <3>2. instruction' = instruction
      BY <3>1, <1>3
    <3>3. apb_state' \in {"IDLE", "SET_UP"} \/ Storing("SEND_RESPONSE")'
      BY <2>4, <3>2 DEF Computing, Storing, AgentMoves
    <3>4. Finished'
      BY <2>4, <3>2, <3>3, <1>3, NextStateTable, StatusTable
         DEF Computing, Finished, status
    <3> QED
      BY <3>4 DEF Phases
  <2>5. CASE Finished
    <3>1. /\ state' = ST_DONE /\ status_reg' = STATUS_DONE_TX
          /\ ~cluster_tx_state
      BY <2>5, <1>3, <1>5, NextStateTable, StatusTable DEF Finished, status
    <3>2. CASE instruction' = instruction
      <4>1. Settled'
        BY <2>5, <3>1, <3>2 DEF Finished, Settled
      <4> QED
        BY <4>1 DEF Phases
    <3>3. CASE instruction' # instruction
      <4>1. /\ apb_state = "SET_UP" /\ apb_state' = "ACCESS"
            /\ pwrite /\ cp_data_reg.reg = INSTRUCTION
            /\ cp_data_reg' = cp_data_reg
            /\ instruction' = cp_data_reg.data
        BY <3>1, <3>3, <1>4, <1>6, <1>7 DEF AgentMoves
      <4>2. Storing("ACCESS")'
        BY <4>1, <1>8 DEF Storing, WriteOf, pwrite
      <4>3. Settled' \/ Arriving'
        BY <3>1, <4>2 DEF Settled, Arriving
      <4> QED
        BY <4>3 DEF Phases
    <3> QED
      BY <3>2, <3>3
  <2> QED
    BY <1>1, <2>1, <2>2, <2>3, <2>4, <2>5 DEF Phases
<1>B. Transferred' /\ LoadIsExact' /\ StatusIsCurrent'
  <2>1. CASE apb_state = "IDLE"
    BY <2>1 DEF AgentMoves, Transferred, LoadIsExact, StatusIsCurrent
  <2>2. CASE apb_state = "SET_UP"
    <3>1. apb_state' = "ACCESS" /\ cp_data_reg' = cp_data_reg
      BY <2>2 DEF AgentMoves
    <3>2. Settled \/ Finished
      BY <2>2, <1>1 DEF Phases, Arriving, Turned, Computing, Storing
    <3>3. /\ state' = state /\ ~cluster_tx_state
          /\ \/ status_reg = status
             \/ status_reg = STATUS_PROCESSING /\ state = ST_DONE
      BY <3>2, <1>3, <1>5, NextStateTable, StatusTable
         DEF Settled, Finished, status
    <3>4. LoadIsExact' /\ StatusIsCurrent'
      BY <3>1 DEF LoadIsExact, StatusIsCurrent
    <3>5. status' = status
      BY <3>3 DEF status
    <3>6. Transferred'
      BY <2>2, <3>1, <3>3, <3>5, <1>2, <1>3, <1>6
         DEF Transferred, status_reg, pwrite, Access
    <3> QED
      BY <3>4, <3>6
  <2>3. CASE apb_state = "ACCESS"
    <3>1. apb_state' = "SEND_RESPONSE" /\ cp_data_reg' = cp_data_reg
      BY <2>3 DEF AgentMoves
    <3>2. Settled \/ Arriving
      BY <2>3, <1>1 DEF Phases, Turned, Computing, Finished, Storing
    <3>3. ~cluster_tx_state
      BY <3>2, <1>5 DEF Settled, Arriving
    <3>4. ~pwrite => state' = state /\ status_reg = status
      BY <3>2, <1>3, NextStateTable, StatusTable
         DEF Settled, Arriving, Storing, WriteOf, pwrite, status
    <3>5. ~pwrite => status' = status
      BY <3>4 DEF status
    <3> QED
      BY <2>3, <3>1, <3>3, <3>4, <3>5, <1>1, <1>2, <1>3, <1>6
         DEF Transferred, LoadIsExact, StatusIsCurrent, status_reg, pwrite,
             Access
  <2>4. CASE apb_state = "SEND_RESPONSE"
    <3>1. cp_data_reg' = cp_data_reg
      BY <2>4 DEF AgentMoves
    <3>2. ~psel
      BY <2>4, <1>6
    <3>3. pwrite \/ Settled
      BY <2>4, <1>1 DEF Phases, Arriving, Turned, Computing, Finished, Storing,
         WriteOf, pwrite
    <3>4. Settled => /\ state' = state /\ status_reg = status
                     /\ ~cluster_tx_state
      BY <1>3, <1>5, NextStateTable, StatusTable DEF Settled, status
    <3>5. Settled => status' = status
      BY <3>4 DEF status
    <3>6. cluster_tx_state => pwrite /\ cp_data_reg.reg = INSTRUCTION
      BY <2>4, <1>1, <1>5 DEF Phases, Settled, Arriving, Turned, Computing,
         Finished, Storing, WriteOf, pwrite
    <3>7. pwrite /\ cp_data_reg.reg # STATUS
            => data_out'[cp_data_reg.reg] = cp_data_reg.data
      BY <2>4, <3>2, <3>6, <1>1, <1>2, <1>3
         DEF Transferred, instruction, Access, pwrite
    <3>8. ~pwrite => /\ data_temp' = data_temp /\ prdata_reg' = data_temp
                     /\ cp_data_reg.reg # STATUS =>
                          data_out'[cp_data_reg.reg] = data_out[cp_data_reg.reg]
      BY <3>2, <3>3, <3>4, <1>2, <1>3 DEF Access
    <3> QED
      BY <2>4, <3>1, <3>3, <3>4, <3>5, <3>7, <3>8, <1>1
         DEF Transferred, LoadIsExact, StatusIsCurrent, pwrite
  <2> QED
    BY <2>1, <2>2, <2>3, <2>4, <1>1 DEF BusTypeOK
<1> QED
  BY <1>A, <1>B

-----------------------------------------------------------------------------
(* The invariant, step by step.  The lemmas speak of the bus actions and not
   of BusNext, so that they also serve the driver in ClusterHost.          *)

LEMMA InitInv == BusInit => BusInv
<1> SUFFICES ASSUME BusInit PROVE BusInv
  OBVIOUS
<1>1. BusTypeOK
  BY InitType
<1>2. Settled
  BY DEF BusInit, IpInit, Settled, instruction, status_reg, INSTRUCTION, STATUS,
         Regs, INST_SIGNAL_TX, STATUS_RESET
<1>3. Phases /\ InFlight /\ Transferred /\ LoadIsExact /\ StatusIsCurrent
  BY <1>2 DEF BusInit, Phases, InFlight, Transferred, LoadIsExact,
              StatusIsCurrent
<1> QED
  BY <1>1, <1>3 DEF BusInv

LEMMA SilentEdgeInv ==
    ASSUME BusInv, SilentEdge
    PROVE  BusInv'
<1>1. BusTypeOK'
  BY SilentEdgeType DEF BusInv
<1>2. Edge /\ AgentMoves
  BY DEF SilentEdge, BusIdle, BusAccept, BusSetUp, BusAccess, BusStall,
         AgentMoves
<1>3. InFlight'
  BY DEF BusInv, InFlight, SilentEdge, BusIdle, BusAccept, BusSetUp, BusAccess,
         BusStall
<1> QED
  BY <1>1, <1>2, <1>3, EdgeInv DEF BusInv

LEMMA RespondInv ==
    ASSUME BusInv, BusRespond
    PROVE  BusInv'
<1>1. BusTypeOK'
  BY RespondType DEF BusInv
<1>2. Edge /\ AgentMoves
  BY DEF BusRespond, AgentMoves
<1>3. InFlight'
  BY DEF InFlight, BusRespond
<1> QED
  BY <1>1, <1>2, <1>3, EdgeInv DEF BusInv

(* A request leaves the hardware alone, and finds the agent idle. *)
LEMMA RequestInv ==
    ASSUME BusInv, NEW a \in Access, Request(a)
    PROVE  BusInv'
<1>1. BusTypeOK'
  BY RequestType DEF BusInv
<1>2. apb_state = "IDLE"
  BY AccessAssumption DEF BusInv, InFlight, BusTypeOK, Request
<1>3. UNCHANGED <<state, mac_done, mac_result, data_out, data_temp, apb_state,
                  cp_data_reg, prdata_reg>>
  BY DEF Request, ipVars
<1>4. Phases'
  BY <1>3 DEF BusInv, Phases, Settled, Arriving, Turned, Computing, Finished,
     Storing, instruction, status_reg, AllDone
<1>5. (InFlight /\ Transferred /\ LoadIsExact /\ StatusIsCurrent)'
  BY <1>2, <1>3 DEF InFlight, Transferred, LoadIsExact, StatusIsCurrent
<1> QED
  BY <1>1, <1>4, <1>5 DEF BusInv

LEMMA ResetInv ==
    ASSUME BusInv, BusReset
    PROVE  BusInv'
<1>1. BusTypeOK'
  BY ResetType DEF BusInv
<1>2. Settled'
  BY DEF BusReset, IpReset, Settled, instruction, status_reg, INSTRUCTION,
         STATUS, Regs, INST_SIGNAL_TX, STATUS_RESET
<1>3. (Phases /\ InFlight /\ Transferred /\ LoadIsExact /\ StatusIsCurrent)'
  BY <1>2 DEF BusReset, Phases, InFlight, Transferred, LoadIsExact,
              StatusIsCurrent
<1> QED
  BY <1>1, <1>3 DEF BusInv

LEMMA StutterInv ==
    ASSUME BusInv, UNCHANGED hwVars
    PROVE  BusInv'
<1>1. BusTypeOK'
  BY StutterType DEF BusInv
<1> QED
  BY <1>1 DEF BusInv, hwVars, Phases, Settled, Arriving, Turned, Computing,
     Finished, Storing, instruction, status_reg, status, AllDone, InFlight,
     Transferred, LoadIsExact, StatusIsCurrent, pwrite

(* BusInv is inductive: the phases account for every interleaving of the
   sequencer's cycles with the transfers.                                  *)
THEOREM BusInvCorrect == BusSpec => []BusInv
<1>1. BusInv /\ [BusNext]_hwVars => BusInv'
  <2> SUFFICES ASSUME BusInv, [BusNext]_hwVars
               PROVE  BusInv'
    OBVIOUS
  <2>1. CASE SilentEdge
    BY <2>1, SilentEdgeInv
  <2>2. CASE BusRespond
    BY <2>2, RespondInv
  <2>3. CASE \E a \in Accesses : Request(a)
    BY <2>3, RequestInv, AccessAssumption
  <2>4. CASE BusReset
    BY <2>4, ResetInv
  <2>5. CASE UNCHANGED hwVars
    BY <2>5, StutterInv
  <2> QED
    BY <2>1, <2>2, <2>3, <2>4, <2>5 DEF BusNext
<1> QED
  BY InitInv, <1>1, PTL DEF BusSpec

-----------------------------------------------------------------------------
(* What it implies *)

LEMMA InvNoWriteDropped == BusInv => NoWriteDropped
<1> SUFFICES ASSUME BusInv, cluster_tx_state
             PROVE  ~ psel
  BY DEF NoWriteDropped
<1>1. Computing
  BY DEF BusInv, Phases, Settled, Arriving, Turned, Finished, cluster_tx_state,
         ST_RESET, ST_READY_RX, ST_ACK_RX, ST_PROCESSING, ST_DONE
<1> QED
  BY <1>1 DEF Computing, Storing, psel

LEMMA InvStoreTookEffect == BusInv => StoreTookEffect
  BY DEF BusInv, Transferred, StoreTookEffect

(* Whatever program uses the registers, with one access at a time, no store
   falls in the cycle in which eric_ip2 gives precedence to the results.   *)
THEOREM NoWriteIsDropped == BusSpec => []NoWriteDropped
  BY BusInvCorrect, InvNoWriteDropped, PTL

(* An answered store has taken effect. *)
THEOREM StoresTakeEffect == BusSpec => []StoreTookEffect
  BY BusInvCorrect, InvStoreTookEffect, PTL

(* A load is answered with the present content of the register, however long
   the interconnect holds the answer back.                                 *)
THEOREM LoadsAreExact == BusSpec => []LoadIsExact
<1>1. BusInv => LoadIsExact
  BY DEF BusInv
<1> QED
  BY BusInvCorrect, <1>1, PTL

(* A poll of the status sees the present state of the sequencer. *)
THEOREM StatusIsNeverStale == BusSpec => []StatusIsCurrent
<1>1. BusInv => StatusIsCurrent
  BY DEF BusInv
<1> QED
  BY BusInvCorrect, <1>1, PTL
=============================================================================
