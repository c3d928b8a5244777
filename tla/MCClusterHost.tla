---------------------------- MODULE MCClusterHost ---------------------------
(* Instances of ClusterHost: which calls main makes, and on which data. *)
EXTENDS ClusterHost, TLC

Mat(m00, m01, m10, m11) ==
    (0 :> (0 :> m00 @@ 1 :> m01)) @@ (1 :> (0 :> m10 @@ 1 :> m11))

(* Words have 4 bits: -8 .. 7.  The eight operands of the first pair differ,
   and its lane results are positive, negative, and larger than a word; all
   elements of the second pair are -8, whose dot product wraps.            *)
MixedPair == [a |-> Mat(3, 5, 9, 14), b |-> Mat(7, 2, 6, 13)]
MinPair == [a |-> Mat(8, 8, 8, 8), b |-> Mat(8, 8, 8, 8)]

BothPairs == {MixedPair, MinPair}
OneCore == <<1>>
MoreCores == <<0, 2, 3>>

(* Pair 1 of main's identity test (generate_sequential_data_with_identity),
   of which main.c:632 expects [1 1] [1 1].                                *)
SequentialPairs == {[a |-> Mat(1, 1, 1, 1), b |-> Mat(1, 0, 0, 1)]}
TwoCores == <<2>>
=============================================================================
