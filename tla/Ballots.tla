------------------------------ MODULE Ballots ------------------------------
(***************************************************************************)
(* Ballots and ballot statements of scp/BallotProtocol.cpp.                *)
(*                                                                         *)
(* A ballot is a pair <<counter, value>>; values are positive integers, so *)
(* that they are totally ordered as xdr values are, and <<0, 0>> stands    *)
(* both for an unset ballot pointer and for the default SCPBallot.         *)
(***************************************************************************)
EXTENDS Integers, FiniteSets

CONSTANTS
    MaxValue,    \* the highest value put to a vote
    UINT32_MAX   \* the counter of EXTERNALIZE, larger than any other

ASSUME BallotsAssumption ==
    /\ MaxValue \in Nat
    /\ UINT32_MAX \in Nat \ {0}

Value == 1..MaxValue
Counter == 0..UINT32_MAX
NullBallot == <<0, 0>>
Ballot == Counter \X (Value \cup {0})

\* compareBallots: by counter, then by value.
Less(b1, b2) == b1[1] < b2[1] \/ (b1[1] = b2[1] /\ b1[2] < b2[2])
LessEq(b1, b2) == b1 = b2 \/ Less(b1, b2)
Compatible(b1, b2) == b1[2] = b2[2]
LessAndCompatible(b1, b2) == LessEq(b1, b2) /\ Compatible(b1, b2)
LessAndIncompatible(b1, b2) == LessEq(b1, b2) /\ ~Compatible(b1, b2)

HighestOf(ballots) == CHOOSE b \in ballots : \A o \in ballots : LessEq(o, b)
LowestOf(ballots) == CHOOSE b \in ballots : \A o \in ballots : LessEq(b, o)

-----------------------------------------------------------------------------
(* Statements.                                                             *)

PrepareStatement ==
    [type : {"PREPARE"}, b : Ballot, p : Ballot, pPrime : Ballot,
     nC : Counter, nH : Counter]
ConfirmStatement ==
    [type : {"CONFIRM"}, b : Ballot, nPrepared : Counter, nC : Counter, nH : Counter]
ExternalizeStatement == [type : {"EXTERNALIZE"}, commit : Ballot, nH : Counter]
Statement == PrepareStatement \cup ConfirmStatement \cup ExternalizeStatement

NoStatement == [type |-> "NONE"]

\* isStatementSane: self tells whether the statement is the node's own.
IsStatementSane(st, self) ==
    \/ /\ st.type = "PREPARE"
       /\ self \/ st.b[1] > 0
       /\ \/ st.pPrime = NullBallot \/ st.p = NullBallot
          \/ LessAndIncompatible(st.pPrime, st.p)
       /\ st.nH = 0 \/ (st.p # NullBallot /\ st.nH <= st.p[1])
       /\ st.nC = 0 \/ (st.nH # 0 /\ st.nH <= st.b[1] /\ st.nC <= st.nH)
    \/ /\ st.type = "CONFIRM"
       /\ st.b[1] > 0
       /\ st.nH <= st.b[1]
       /\ st.nC <= st.nH
    \/ /\ st.type = "EXTERNALIZE"
       /\ st.commit[1] > 0
       /\ st.nH >= st.commit[1]

\* isNewerStatement: PREPARE < CONFIRM < EXTERNALIZE; then (b, p, p', h).
IsNewerStatement(old, st) ==
    \/ old.type = "NONE"
    \/ old.type = "PREPARE" /\ st.type \in {"CONFIRM", "EXTERNALIZE"}
    \/ old.type = "CONFIRM" /\ st.type = "EXTERNALIZE"
    \/ /\ old.type = "CONFIRM" /\ st.type = "CONFIRM"
       /\ \/ Less(old.b, st.b)
          \/ old.b = st.b /\ old.nPrepared < st.nPrepared
          \/ old.b = st.b /\ old.nPrepared = st.nPrepared /\ old.nH < st.nH
    \/ /\ old.type = "PREPARE" /\ st.type = "PREPARE"
       /\ \/ Less(old.b, st.b)
          \/ old.b = st.b /\ Less(old.p, st.p)
          \/ old.b = st.b /\ old.p = st.p /\ Less(old.pPrime, st.pPrime)
          \/ /\ old.b = st.b /\ old.p = st.p /\ old.pPrime = st.pPrime
             /\ old.nH < st.nH

\* The ballot whose value and counter a statement works on.
WorkingBallot(st) ==
    CASE st.type = "PREPARE" -> st.b
      [] st.type = "CONFIRM" -> <<st.nC, st.b[2]>>
      [] st.type = "EXTERNALIZE" -> st.commit

StatementBallotCounter(st) ==
    IF st.type = "EXTERNALIZE" THEN UINT32_MAX ELSE st.b[1]

\* The values validateValues submits to the driver.
StatementValues(st) ==
    CASE st.type = "PREPARE" -> {x[2] : x \in {st.b, st.p, st.pPrime} \ {NullBallot}}
      [] st.type = "CONFIRM" -> {st.b[2]}
      [] st.type = "EXTERNALIZE" -> {st.commit[2]}

-----------------------------------------------------------------------------
(* What a statement votes for and accepts.                                 *)

\* A vote for prepare(ballot): the first predicate of attemptAcceptPrepared.
VotesPrepare(ballot, st) ==
    CASE st.type = "PREPARE" -> LessAndCompatible(ballot, st.b)
      [] st.type = "CONFIRM" -> Compatible(ballot, st.b)
      [] st.type = "EXTERNALIZE" -> Compatible(ballot, st.commit)

HasPreparedBallot(ballot, st) ==
    CASE st.type = "PREPARE" -> \/ st.p # NullBallot /\ LessAndCompatible(ballot, st.p)
                                \/ st.pPrime # NullBallot /\ LessAndCompatible(ballot, st.pPrime)
      [] st.type = "CONFIRM" -> LessAndCompatible(ballot, <<st.nPrepared, st.b[2]>>)
      [] st.type = "EXTERNALIZE" -> Compatible(ballot, st.commit)

\* A vote to commit value at the counters lo..hi: the first predicate of
\* attemptAcceptCommit.
VotesCommit(value, lo, hi, st) ==
    CASE st.type = "PREPARE" -> /\ st.b[2] = value
                                /\ st.nC # 0 /\ st.nC <= lo /\ hi <= st.nH
      [] st.type = "CONFIRM" -> st.b[2] = value /\ st.nC <= lo
      [] st.type = "EXTERNALIZE" -> st.commit[2] = value /\ st.commit[1] <= lo

\* commitPredicate
AcceptsCommit(value, lo, hi, st) ==
    CASE st.type = "PREPARE" -> FALSE
      [] st.type = "CONFIRM" -> st.b[2] = value /\ st.nC <= lo /\ hi <= st.nH
      [] st.type = "EXTERNALIZE" -> st.commit[2] = value /\ st.commit[1] <= lo

-----------------------------------------------------------------------------
(* What a set of statements suggests to try.                               *)

HintBallotsWithoutTop(hint) ==
    CASE hint.type = "PREPARE" -> {hint.b} \cup ({hint.p, hint.pPrime} \ {NullBallot})
      [] hint.type = "CONFIRM" -> {<<hint.nPrepared, hint.b[2]>>}
      [] hint.type = "EXTERNALIZE" -> {hint.commit}

\* The ballots of hint from which getPrepareCandidates starts.
HintBallots(hint) ==
    CASE hint.type = "PREPARE" -> {hint.b} \cup ({hint.p, hint.pPrime} \ {NullBallot})
      [] hint.type = "CONFIRM" -> {<<hint.nPrepared, hint.b[2]>>, <<UINT32_MAX, hint.b[2]>>}
      [] hint.type = "EXTERNALIZE" -> {<<UINT32_MAX, hint.commit[2]>>}

\* The candidates one statement contributes below topVote.
CandidatesOf(topVote, st) ==
    CASE st.type = "PREPARE" ->
            {x \in {st.b} \cup ({st.p, st.pPrime} \ {NullBallot}) :
                LessAndCompatible(x, topVote)}
      [] st.type = "CONFIRM" ->
            IF Compatible(topVote, st.b)
            THEN {topVote} \cup (IF st.nPrepared < topVote[1]
                                 THEN {<<st.nPrepared, topVote[2]>>} ELSE {})
            ELSE {}
      [] st.type = "EXTERNALIZE" ->
            IF Compatible(topVote, st.commit) THEN {topVote} ELSE {}

PrepareCandidates(hint, statements) ==
    UNION {CandidatesOf(top, st) : top \in HintBallots(hint), st \in statements}

\* getCommitBoundariesFromStatements
CommitBoundariesOf(value, st) ==
    CASE st.type = "PREPARE" ->
            IF st.b[2] = value /\ st.nC # 0 THEN {st.nC, st.nH} ELSE {}
      [] st.type = "CONFIRM" -> IF st.b[2] = value THEN {st.nC, st.nH} ELSE {}
      [] st.type = "EXTERNALIZE" ->
            IF st.commit[2] = value THEN {st.commit[1], st.nH, UINT32_MAX} ELSE {}

CommitBoundaries(value, statements) ==
    UNION {CommitBoundariesOf(value, st) : st \in statements}
=============================================================================
