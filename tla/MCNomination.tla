---------------------------- MODULE MCNomination ----------------------------
(* Instances of NominationProtocol for TLC. *)
EXTENDS NominationProtocol, TLC

CONSTANTS n1, n2, n3

Nodes == {n1, n2, n3}
Order == <<n1, n2, n3>>
\* Two nodes that need each other.
Pair == {n1, n2}
PairOrder == <<n1, n2>>
Both == [n \in Pair |-> {{n1, n2}}]
\* n1 refuses the value n2 proposes and knows 3 as its valid variant.
PairStrict == (n1 :> {1, 3}) @@ (n2 :> {1, 2, 3})
PairVariant == [n \in Pair |-> [v \in Value |-> IF v = 2 THEN 3 ELSE NoValue]]
PairMixed == (n1 :> 1) @@ (n2 :> 2)
Values == {1, 2}
TwoOfThree == [n \in Nodes |-> {{n1, n2}, {n1, n3}, {n2, n3}}]
\* n1 and n3 propose one value, n2 another.
Mixed == (n1 :> 1) @@ (n2 :> 2) @@ (n3 :> 1)
AllValid == [n \in Node |-> Value]
NoVariant == [n \in Node |-> [v \in Value |-> NoValue]]
\* 3 is proposed by nobody.
ThreeValues == {1, 2, 3}
\* The value of highest hash changes from round to round.
Hashes == [r \in 1..MaxRound |-> [v \in Value |-> (v + r) % 4]]
Highest == [S \in SUBSET Value |-> IF S = {} THEN NoValue ELSE CHOOSE v \in S : \A w \in S : w <= v]
Priorities(p1, p2, p3) == [m \in Node |-> CASE m = n1 -> p1 [] m = n2 -> p2 [] m = n3 -> p3]
\* n1 and n2 tie in the first round; n3 leads the third.
Tie == [n \in Node |-> <<Priorities(2, 2, 0), Priorities(1, 0, 0), Priorities(1, 1, 2)>>]
\* n1 leads alone; a round without a new leader later n2 and n3 join it.
Late == [n \in Node |-> <<Priorities(2, 0, 0), Priorities(1, 0, 0), Priorities(1, 2, 2)>>]
=============================================================================
