------------------------------ MODULE Quorums ------------------------------
(***************************************************************************)
(* Quorum sets as scp/Slot.cpp and scp/LocalNode.cpp use them: a node is   *)
(* given by its quorum slices.  LocalNode.tla derives the slices from      *)
(* nested quorum sets and shows that the recursive procedures of           *)
(* LocalNode.cpp decide what the definitions below say.                    *)
(***************************************************************************)
EXTENDS FiniteSets

CONSTANTS
    Node,    \* the nodes
    Slices   \* [Node -> set of quorum slices]

ASSUME QuorumsAssumption ==
    /\ IsFiniteSet(Node)
    /\ Slices \in [Node -> SUBSET SUBSET Node]

isQuorumSlice(n, S) == \E slice \in Slices[n] : slice \subseteq S

isVBlocking(n, S) == \A slice \in Slices[n] : slice \cap S # {}

\* Q is a quorum among nodes of which those in ext sent EXTERNALIZE: such a
\* node counts with the quorum set that holds only itself
\* (Slot::getQuorumSetFromStatement).
IsQuorumWith(Q, ext) == \A m \in Q \ ext : isQuorumSlice(m, Q)

\* The sets S that pass LocalNode::isQuorum for n when the nodes of ext sent
\* EXTERNALIZE.  The code removes from S the nodes whose slices are not met
\* until nothing changes; what remains is the union of the quorums within S.
QuorumSets ==
    [n \in Node |-> [ext \in SUBSET Node |->
        {S \in SUBSET Node :
            \E Q \in SUBSET S : IsQuorumWith(Q, ext) /\ isQuorumSlice(n, Q)}]]

isQuorum(n, S, ext) == S \in QuorumSets[n][ext]
=============================================================================
