-------------------------- MODULE MCBallotProtocol --------------------------
(* Instances of BallotProtocol for TLC. *)
EXTENDS BallotProtocol, TLC

CONSTANTS n1, n2, n3

Nodes == {n1, n2, n3}
\* Every node is content with any two nodes.
TwoOfThree == [n \in Nodes |-> {{n1, n2}, {n1, n3}, {n2, n3}}]
AllFullyValid == [n \in Nodes |-> [v \in Value |-> "fully"]]
\* n1 and n3 vote for one value, n2 for another.
Mixed == (n1 :> {1}) @@ (n2 :> {2}) @@ (n3 :> {1})
First == {n1}
Pair == {n1, n2}
Both == [n \in Pair |-> {{n1, n2}}]
PairAny == [n \in Pair |-> {1, 2}]
All == [n \in Node |-> Node]
\* n1 cannot fully validate value 2, which nomination may still hand to it.
PairValid == [n \in Pair |-> [v \in Value |-> IF n = n1 /\ v = 2 THEN "maybe" ELSE "fully"]]
\* n3 is in every quorum: {n1, n3} and {n2, n3}.
Star == (n1 :> {{n1, n3}}) @@ (n2 :> {{n2, n3}}) @@ (n3 :> {{n1, n3}, {n2, n3}})
Spokes == (n1 :> {n3}) @@ (n2 :> {n3}) @@ (n3 :> {n1, n2})
\* n1 and n2 insist on different values; nomination may hand either to n3.
Torn == (n1 :> {1}) @@ (n2 :> {2}) @@ (n3 :> {1, 2})
=============================================================================
