---------------------------- MODULE MatrixService ---------------------------
(***************************************************************************)
(* What full_cluster_transaction promises its caller on one core: during a *)
(* call the elements of the products appear, in order and some at a time,  *)
(* each one final when it appears; a call that is not abandoned completes. *)
(* There is no hardware here, and no handshake.                            *)
(***************************************************************************)
EXTENDS MatrixPacks, FiniteSets

CONSTANTS PackCount, Pairs

VARIABLES
    data,     \* the matrix pairs, one per pack
    calling,  \* a call is under way
    answer    \* the elements delivered by the call, as a function

serviceVars == <<data, calling, answer>>

Packs == 0 .. PackCount - 1
Wanted == Packs \X Elements

(* The first n elements, pack by pack and row by row. *)
First(n) == { pe \in Wanted : pe[1] * Cardinality(Elements) + pe[2] < n }

None == [pe \in {} |-> 0]

Init ==
    /\ data \in [Packs -> Pairs]
    /\ calling = FALSE
    /\ answer = None

Call ==
    /\ ~calling
    /\ calling' = TRUE
    /\ answer' = None
    /\ UNCHANGED data

(* The next missing elements are delivered; the call ends with the last. *)
Deliver ==
    /\ calling
    /\ \E n \in Cardinality(DOMAIN answer) + 1 .. Cardinality(Wanted) :
          answer' = [pe \in First(n) |->
              IF pe \in DOMAIN answer
              THEN answer[pe]
              ELSE Product(data[pe[1]])[row(pe[2])][col(pe[2])]]
    /\ calling' = (DOMAIN answer' # Wanted)
    /\ UNCHANGED data

(* The call is rejected or its process gone, or its results dropped. *)
Forget ==
    /\ calling' = FALSE
    /\ answer' = None
    /\ UNCHANGED data

Next == Call \/ Deliver \/ Forget

Spec == Init /\ [][Next]_serviceVars /\ WF_serviceVars(Deliver)
=============================================================================
