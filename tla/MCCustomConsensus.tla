------------------------- MODULE MCCustomConsensus -------------------------
(* Instances of CustomConsensus for TLC. *)
EXTENDS CustomConsensus

CONSTANTS n1, n2, n3, n4
Nodes == {n1, n2, n3, n4}

Blocks(k) == [n \in Nodes |-> k]

\* f = 1: every process other than the proposer is needed to commit.
Four == [nodes |-> Nodes, proposers |-> {n1}, collects |-> {}, calm |-> FALSE,
         maxTxn |-> Blocks(1), maxView |-> 1, maxDrop |-> 0]
\* Two views, and a proposal that may be repeated within a view.
Three == [nodes |-> {n1, n2, n3}, proposers |-> {n1}, collects |-> {}, calm |-> FALSE,
          maxTxn |-> Blocks(2), maxView |-> 2, maxDrop |-> 0]
\* A client collects while the connection may be lost and votes are in flight.
Two == [nodes |-> {n1, n2}, proposers |-> {n1}, collects |-> {n2}, calm |-> FALSE,
        maxTxn |-> Blocks(2), maxView |-> 2, maxDrop |-> 1]
\* Two processes that prepared the same block are both asked for it: their
\* SENDs of one value are echoed with either as the origin.
Origins == [nodes |-> {n1, n2, n3}, proposers |-> {n1}, collects |-> {n2, n3}, calm |-> TRUE,
            maxTxn |-> [Blocks(2) EXCEPT ![n1] = 1], maxView |-> 1, maxDrop |-> 0]
Networks == {Two, Three, Four, Origins}
=============================================================================
