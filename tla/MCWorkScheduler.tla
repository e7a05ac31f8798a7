-------------------------- MODULE MCWorkScheduler --------------------------
(* Instances of WorkScheduler for TLC: trees of work as catchup builds them. *)
EXTENDS WorkScheduler

\* DownloadApplyTxsWork: a batch of sequences that download; the second one
\* applies only after the first has succeeded.
CatchupKind ==
    [ws |-> "scheduler", batch |-> "batch", seq1 |-> "sequence", get1 |-> "command",
     seq2 |-> "sequence", get2 |-> "command", cond2 |-> "conditional", apply2 |-> "command",
     seq3 |-> "sequence", get3 |-> "command",
     put3 |-> "command"]
CatchupParts ==
    [ws |-> <<"batch">>, batch |-> <<"seq1", "seq2", "seq3">>, seq1 |-> <<"get1">>, get1 |-> <<>>,
     seq2 |-> <<"get2", "cond2">>, get2 |-> <<>>, cond2 |-> <<"apply2">>, apply2 |-> <<>>,
     seq3 |-> <<"get3", "put3">>, get3 |-> <<>>, put3 |-> <<>>]
CatchupGate == [w \in Work |-> "seq1"]
\* The sequence that goes on after a failure is retried as a whole.
CatchupRetries == [w \in Work |-> IF w = "seq3" THEN 1 ELSE 0]
CatchupStop == [w \in Work |-> w # "seq3"]

Stop == [w \in Work |-> TRUE]

\* WriteVerifiedCheckpointHashesWork: a sequence with retries that ends with a
\* conditional work.
VerifyKind ==
    [ws |-> "scheduler", seq |-> "sequence", get |-> "command", cond |-> "conditional",
     verify |-> "command"]
VerifyParts ==
    [ws |-> <<"seq">>, seq |-> <<"get", "cond">>, get |-> <<>>, cond |-> <<"verify">>,
     verify |-> <<>>]
VerifyGate == [w \in Work |-> "get"]
VerifyRetries == [w \in Work |-> IF w = "seq" THEN 1 ELSE 0]
=============================================================================
