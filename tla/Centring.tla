------------------------------ MODULE Centring ------------------------------
(***************************************************************************)
(* What the centring of a DQS group promises, whatever its search does:    *)
(* from the delays it starts with, it either ends with delays at which     *)
(* every lane of the group can be transferred, or it says that it did not, *)
(* and if it blames a lane, that lane was not open at the start.  A group  *)
(* whose lanes all are open at the start is centred.                       *)
(***************************************************************************)
EXTENDS Integers

CONSTANTS
    Lanes,      \* the bits of the group and, for writes, its data mask
    NoLane      \* nobody is blamed

VARIABLES
    open,       \* the lanes surely transferred at the delays of the start
    result,     \* "none", then "ok" or "bad"
    clear,      \* the lanes that may be transferred at the present delays
    blamed      \* the lane the failure names

centringVars == <<open, result, clear, blamed>>

CentringInit ==
    /\ open \in SUBSET Lanes
    /\ clear \in SUBSET Lanes
    /\ result = "none"
    /\ blamed = NoLane

Search ==
    /\ result = "none"
    /\ clear' \in SUBSET Lanes
    /\ UNCHANGED <<open, result, blamed>>

Succeed ==
    /\ result = "none"
    /\ clear' = Lanes
    /\ result' = "ok"
    /\ UNCHANGED <<open, blamed>>

GiveUp ==
    /\ result = "none"
    /\ open /= Lanes
    /\ result' = "bad"
    /\ clear' \in SUBSET Lanes
    /\ blamed' \in (Lanes \ open) \cup {NoLane}
    /\ UNCHANGED open

CentringNext == Search \/ Succeed \/ GiveUp
CentringSpec == CentringInit /\ [][CentringNext]_centringVars
=============================================================================
