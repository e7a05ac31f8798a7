--------------------------- MODULE BallotProtocol ---------------------------
(***************************************************************************)
(* The ballot protocol of one slot (scp/BallotProtocol.cpp) run by a set   *)
(* of nodes that exchange statements over a network that may lose,         *)
(* duplicate, delay and reorder them.                                      *)
(*                                                                         *)
(* A handler of the code (an envelope, the ballot timer, a new composite   *)
(* candidate) runs to completion on the main thread, but it calls itself:  *)
(* advanceSlot -> attempt... -> emitCurrentStateStatement ->               *)
(* processEnvelope(self) -> advanceSlot.  The call stack is therefore part *)
(* of the state, and every step of a handler is a step of the model; no    *)
(* other handler starts while a stack is not empty.                        *)
(***************************************************************************)
EXTENDS Ballots, Quorums, Sequences

CONSTANTS
    MAX_ADVANCE_SLOT_RECURSION,  \* depth at which advanceSlot throws
    Reaching,      \* [Node -> nodes whose statements the network brings to it]
    Delayed,       \* whether statements overtaken by newer ones still arrive
    MayTimeout,    \* the nodes whose ballot timer may expire
    MaxTimeout,    \* bound: timer expirations in a behaviour
    MayRestart,    \* the nodes whose process may stop and start again
    MaxRestart,    \* bound: restarts in a behaviour
    Candidates,    \* [Node -> values nomination may hand to the node]
    validateValue  \* [Node -> [Value -> the driver's verdict]]

ValidationLevel == {"invalid", "maybe", "fully"}

ASSUME BallotProtocolAssumption ==
    /\ MAX_ADVANCE_SLOT_RECURSION \in Nat
    /\ Reaching \in [Node -> SUBSET Node]
    /\ Delayed \in BOOLEAN
    /\ MayTimeout \cup MayRestart \subseteq Node
    /\ MaxTimeout \in Nat
    /\ MaxRestart \in Nat
    /\ Candidates \in [Node -> SUBSET Value]
    /\ validateValue \in [Node -> [Value -> ValidationLevel]]

VARIABLES
    bp,            \* [Node -> protocol state: phase, b, p, p', h, c, z, timer]
    latest,        \* [Node -> [Node -> latest statement]], mLatestEnvelopes
    lastEnvelope,  \* [Node -> latest statement made], mLastEnvelope
    lastEmit,      \* [Node -> latest statement emitted], mLastEnvelopeEmit
    fullyValidated,\* [Node -> BOOLEAN], Slot::mFullyValidated
    candidate,     \* [Node -> latest composite candidate or 0]
    stack,         \* [Node -> call stack of the running handler]
    sent,          \* [Node -> emitted statements the network may deliver]
    externalized,  \* [Node -> values passed to valueExternalized]
    thrown,        \* nodes whose handler threw
    timeouts,      \* timer expirations so far
    restarts       \* restarts so far

vars == <<bp, latest, lastEnvelope, lastEmit, fullyValidated, candidate,
          stack, sent, externalized, thrown, timeouts, restarts>>

InitialState ==
    [phase |-> "PREPARE", b |-> NullBallot, p |-> NullBallot, pPrime |-> NullBallot,
     h |-> NullBallot, c |-> NullBallot, z |-> 0, heard |-> FALSE, timer |-> FALSE]

Init ==
    /\ bp = [n \in Node |-> InitialState]
    /\ latest = [n \in Node |-> [m \in Node |-> NoStatement]]
    /\ lastEnvelope = [n \in Node |-> NoStatement]
    /\ lastEmit = [n \in Node |-> NoStatement]
    /\ fullyValidated = [n \in Node |-> TRUE]
    /\ candidate = [n \in Node |-> 0]
    /\ stack = [n \in Node |-> <<>>]
    /\ sent = [n \in Node |-> {}]
    /\ externalized = [n \in Node |-> {}]
    /\ thrown = {}
    /\ timeouts = 0
    /\ restarts = 0

-----------------------------------------------------------------------------
(* Federated voting over the latest statements (Slot.cpp).                 *)

Heard(n) == {m \in Node : latest[n][m] # NoStatement}
Externalizing(n) == {m \in Node : latest[n][m].type = "EXTERNALIZE"}
Statements(n) == {latest[n][m] : m \in Heard(n)}

FederatedAccept(n, voters, accepters) ==
    \/ isVBlocking(n, accepters)
    \/ isQuorum(n, voters \cup accepters, Externalizing(n))
FederatedRatify(n, voters) == isQuorum(n, voters, Externalizing(n))

AcceptPrepared(n, ballot) ==
    FederatedAccept(n, {m \in Heard(n) : VotesPrepare(ballot, latest[n][m])},
                       {m \in Heard(n) : HasPreparedBallot(ballot, latest[n][m])})
ConfirmPrepared(n, ballot) ==
    FederatedRatify(n, {m \in Heard(n) : HasPreparedBallot(ballot, latest[n][m])})
AcceptCommit(n, value, lo, hi) ==
    FederatedAccept(n, {m \in Heard(n) : VotesCommit(value, lo, hi, latest[n][m])},
                       {m \in Heard(n) : AcceptsCommit(value, lo, hi, latest[n][m])})
ConfirmCommit(n, value, lo, hi) ==
    FederatedRatify(n, {m \in Heard(n) : AcceptsCommit(value, lo, hi, latest[n][m])})

-----------------------------------------------------------------------------
(* The protocol state of one node: what the setters make of s.             *)

\* bumpToBallot
BumpToBallot(s, ballot) ==
    LET keep == s.h = NullBallot \/ Compatible(ballot, s.h)
    IN  [s EXCEPT !.b = ballot,
                  !.h = IF keep THEN @ ELSE NullBallot,
                  !.c = IF keep THEN @ ELSE NullBallot,
                  !.heard = @ /\ s.b[1] = ballot[1]]

UpdateCurrentIfNeeded(s, ballot) ==
    IF s.b = NullBallot \/ Less(s.b, ballot) THEN BumpToBallot(s, ballot) ELSE s

\* setPrepared: p and p' are the two highest accepted prepared, incompatible
\* ballots.
SetPrepared(s, ballot) ==
    IF s.p = NullBallot \/ Less(s.p, ballot)
    THEN [s EXCEPT !.p = ballot,
                   !.pPrime = IF s.p # NullBallot /\ ~Compatible(s.p, ballot)
                              THEN s.p ELSE @]
    ELSE IF /\ Less(ballot, s.p)
            /\ \/ s.pPrime = NullBallot
               \/ Less(s.pPrime, ballot) /\ ~Compatible(s.p, ballot)
         THEN [s EXCEPT !.pPrime = ballot]
         ELSE s

\* setAcceptPrepared, which also gives up a vote to commit that the prepared
\* ballots abort.
SetAcceptPrepared(s, ballot) ==
    LET s1 == SetPrepared(s, ballot)
        aborts(x) == x # NullBallot /\ LessAndIncompatible(s1.h, x)
    IN  IF s1.c # NullBallot /\ s1.h # NullBallot /\ (aborts(s1.p) \/ aborts(s1.pPrime))
        THEN [s1 EXCEPT !.c = NullBallot]
        ELSE s1

\* setConfirmPrepared; newC is the null ballot when there is none.
SetConfirmPrepared(s, newC, newH) ==
    LET onBallot == s.b = NullBallot \/ Compatible(s.b, newH)
        s1 == [s EXCEPT !.z = newH[2],
                        !.h = IF onBallot /\ (@ = NullBallot \/ Less(@, newH))
                              THEN newH ELSE @,
                        !.c = IF onBallot /\ newC # NullBallot THEN newC ELSE @]
    IN  UpdateCurrentIfNeeded(s1, newH)

\* setAcceptCommit
SetAcceptCommit(s, c, h) ==
    LET s1 == [s EXCEPT !.z = h[2], !.c = c, !.h = h]
        s2 == IF s1.b # NullBallot /\ ~LessAndCompatible(h, s1.b)
              THEN BumpToBallot(s1, h) ELSE s1
        s3 == IF s.phase = "PREPARE"
              THEN [s2 EXCEPT !.phase = "CONFIRM", !.pPrime = NullBallot] ELSE s1
    IN  UpdateCurrentIfNeeded(s3, h)

\* setConfirmCommit
SetConfirmCommit(s, c, h) ==
    [UpdateCurrentIfNeeded([s EXCEPT !.c = c, !.h = h], h) EXCEPT !.phase = "EXTERNALIZE"]

\* createStatement for the phase of s.
CreateStatement(s) ==
    CASE s.phase = "PREPARE" ->
            [type |-> "PREPARE", b |-> s.b, p |-> s.p, pPrime |-> s.pPrime,
             nC |-> s.c[1], nH |-> s.h[1]]
      [] s.phase = "CONFIRM" ->
            [type |-> "CONFIRM", b |-> s.b, nPrepared |-> s.p[1],
             nC |-> s.c[1], nH |-> s.h[1]]
      [] s.phase = "EXTERNALIZE" ->
            [type |-> "EXTERNALIZE", commit |-> s.c, nH |-> s.h[1]]

StateWithSwappedCounters(st) ==
    CASE st.type = "PREPARE" ->
            [InitialState EXCEPT !.b = st.b, !.p = st.p, !.pPrime = st.pPrime,
                !.h = IF st.nC = 0 THEN NullBallot ELSE <<st.nC, st.b[2]>>,
                !.c = IF st.nH = 0 THEN NullBallot ELSE <<st.nH, st.b[2]>>]
      [] st.type = "CONFIRM" ->
            [InitialState EXCEPT !.phase = "CONFIRM", !.b = st.b,
                !.p = <<st.nPrepared, st.b[2]>>,
                !.h = <<st.nC, st.b[2]>>, !.c = <<st.nH, st.b[2]>>]
      [] st.type = "EXTERNALIZE" ->
            [InitialState EXCEPT !.phase = "EXTERNALIZE",
                !.b = <<UINT32_MAX, st.commit[2]>>, !.p = <<UINT32_MAX, st.commit[2]>>,
                !.h = <<st.nH, st.commit[2]>>, !.c = st.commit]
      [] st.type = "NONE" -> InitialState
StateForgettingCommit(st) ==
    CASE st.type = "PREPARE" ->
            [InitialState EXCEPT !.b = st.b, !.p = st.p, !.pPrime = st.pPrime]
      [] st.type = "CONFIRM" ->
            [InitialState EXCEPT !.phase = "CONFIRM", !.b = st.b,
                !.p = <<st.nPrepared, st.b[2]>>,
                !.h = <<st.nH, st.b[2]>>, !.c = <<st.nC, st.b[2]>>]
      [] st.type = "EXTERNALIZE" ->
            [InitialState EXCEPT !.phase = "EXTERNALIZE",
                !.b = <<UINT32_MAX, st.commit[2]>>, !.p = <<UINT32_MAX, st.commit[2]>>,
                !.h = <<st.nH, st.commit[2]>>, !.c = st.commit]
      [] st.type = "NONE" -> InitialState
StateWithoutPrepared(st) ==
    CASE st.type = "PREPARE" ->
            [InitialState EXCEPT !.b = st.b,
                !.h = IF st.nH = 0 THEN NullBallot ELSE <<st.nH, st.b[2]>>,
                !.c = IF st.nC = 0 THEN NullBallot ELSE <<st.nC, st.b[2]>>]
      [] st.type = "CONFIRM" ->
            [InitialState EXCEPT !.phase = "CONFIRM", !.b = st.b,
                !.p = <<st.nPrepared, st.b[2]>>,
                !.h = <<st.nH, st.b[2]>>, !.c = <<st.nC, st.b[2]>>]
      [] st.type = "EXTERNALIZE" ->
            [InitialState EXCEPT !.phase = "EXTERNALIZE",
                !.b = <<UINT32_MAX, st.commit[2]>>, !.p = <<UINT32_MAX, st.commit[2]>>,
                !.h = <<st.nH, st.commit[2]>>, !.c = st.commit]
      [] st.type = "NONE" -> InitialState

\* setStateFromEnvelope: the state rebuilt from an own statement after a
\* restart; z is not part of it.
StateFromStatement(st) ==
    CASE st.type = "PREPARE" ->
            [InitialState EXCEPT !.b = st.b, !.p = st.p, !.pPrime = st.pPrime,
                !.h = IF st.nH = 0 THEN NullBallot ELSE <<st.nH, st.b[2]>>,
                !.c = IF st.nC = 0 THEN NullBallot ELSE <<st.nC, st.b[2]>>]
      [] st.type = "CONFIRM" ->
            [InitialState EXCEPT !.phase = "CONFIRM", !.b = st.b,
                !.p = <<st.nPrepared, st.b[2]>>,
                !.h = <<st.nH, st.b[2]>>, !.c = <<st.nC, st.b[2]>>]
      [] st.type = "EXTERNALIZE" ->
            [InitialState EXCEPT !.phase = "EXTERNALIZE",
                !.b = <<UINT32_MAX, st.commit[2]>>, !.p = <<UINT32_MAX, st.commit[2]>>,
                !.h = <<st.nH, st.commit[2]>>, !.c = st.commit]
      [] st.type = "NONE" -> InitialState

-----------------------------------------------------------------------------
(* The calls in progress.                                                  *)

\* advanceSlot(hint), about to make its pc-th attempt.
AdvanceFrame(hint, pc) == [call |-> "advanceSlot", hint |-> hint, pc |-> pc]
\* emitCurrentStateStatement, waiting for processEnvelope(self) to return.
EmitFrame(st, canEmit) == [call |-> "emit", st |-> st, canEmit |-> canEmit]
\* bumpState, waiting for emitCurrentStateStatement to return.
BumpFrame == [call |-> "bumpState"]

Top(n) == Head(stack[n])
InAdvance(n) == stack[n] # <<>> /\ Top(n).call = "advanceSlot"

\* mCurrentMessageLevel for a call stack.
Level(frames) == Cardinality({i \in DOMAIN frames : frames[i].call = "advanceSlot"})

\* Between handlers: the main thread is idle on every node.
Idle == \A n \in Node : stack[n] = <<>>

\* validateValues
Verdict(n, st) ==
    LET levels == {validateValue[n][v] : v \in StatementValues(st)}
    IN  IF levels = {} \/ "invalid" \in levels THEN "invalid"
        ELSE IF "maybe" \in levels THEN "maybe" ELSE "fully"

\* processEnvelope accepts and records the statement st of m, then advances
\* on it unless the node externalized; rest is the call stack to return to.
Record(n, m, st, phase, rest) ==
    /\ latest' = [latest EXCEPT ![n][m] = st]
    /\ IF phase = "EXTERNALIZE"
       THEN /\ stack' = [stack EXCEPT ![n] = rest]
            /\ UNCHANGED <<fullyValidated, thrown>>
       ELSE /\ fullyValidated' = [fullyValidated EXCEPT ![n] = @ /\ Verdict(n, st) = "fully"]
            /\ IF Level(rest) + 1 >= MAX_ADVANCE_SLOT_RECURSION
               THEN /\ thrown' = thrown \cup {n}
                    /\ stack' = [stack EXCEPT ![n] = <<>>]
               ELSE /\ stack' = [stack EXCEPT ![n] = <<AdvanceFrame(st, 1)>> \o rest]
                    /\ UNCHANGED thrown

\* emitCurrentStateStatement once the protocol state of n is s: a statement
\* that differs from the node's latest one is processed as an envelope from
\* itself; being refused there is the exception "moved to a bad state".
Emit(n, s, rest) ==
    LET st == CreateStatement(s) IN
    /\ bp' = [bp EXCEPT ![n] = s]
    /\ IF st = latest[n][n]
       THEN /\ stack' = [stack EXCEPT ![n] = rest]
            /\ UNCHANGED <<latest, fullyValidated, thrown>>
       ELSE IF /\ IsStatementSane(st, TRUE)
               /\ IsNewerStatement(latest[n][n], st)
               /\ Verdict(n, st) # "invalid"
            THEN Record(n, n, st, s.phase, <<EmitFrame(st, s.b # NullBallot)>> \o rest)
            ELSE /\ thrown' = thrown \cup {n}
                 /\ stack' = [stack EXCEPT ![n] = <<>>]
                 /\ UNCHANGED <<latest, fullyValidated>>

SendUnvalidated(n, last, rest) ==
    IF Level(rest) = 0 /\ last # NoStatement /\ last # lastEmit[n]
    THEN /\ lastEmit' = [lastEmit EXCEPT ![n] = last]
         /\ sent' = [sent EXCEPT ![n] = (IF Delayed THEN @ ELSE {}) \cup {last}]
    ELSE UNCHANGED <<lastEmit, sent>>

\* sendLatestEnvelope when the calls of rest are in progress and last is the
\* latest statement made.
SendLatestEnvelope(n, last, rest) ==
    IF Level(rest) = 0 /\ last # NoStatement /\ fullyValidated[n] /\ last # lastEmit[n]
    THEN /\ lastEmit' = [lastEmit EXCEPT ![n] = last]
         /\ sent' = [sent EXCEPT ![n] = (IF Delayed THEN @ ELSE {}) \cup {last}]
    ELSE UNCHANGED <<lastEmit, sent>>

TimerOnlyInPrepare(n, s) ==
    LET there == {m \in Heard(n) : latest[n][m].type = "PREPARE" => s.b[1] <= latest[n][m].b[1]}
        heard == isQuorum(n, there, Externalizing(n))
    IN  IF s.b = NullBallot THEN s
        ELSE [s EXCEPT !.heard = heard,
                       !.timer = heard /\ s.phase = "PREPARE" /\ (~s.heard \/ @)]
TimerNotStopped(n, s) ==
    LET there == {m \in Heard(n) : latest[n][m].type = "PREPARE" => s.b[1] <= latest[n][m].b[1]}
        heard == isQuorum(n, there, Externalizing(n))
    IN  IF s.b = NullBallot THEN s
        ELSE [s EXCEPT !.heard = heard, !.timer = heard /\ (~s.heard \/ @)]

\* checkHeardFromQuorum: the timer runs while a quorum is at the counter of
\* the node or above.
CheckHeardFromQuorum(n, s) ==
    LET there == {m \in Heard(n) : latest[n][m].type = "PREPARE" => s.b[1] <= latest[n][m].b[1]}
        heard == isQuorum(n, there, Externalizing(n))
    IN  IF s.b = NullBallot THEN s
        ELSE [s EXCEPT !.heard = heard,
                       !.timer = heard /\ s.phase # "EXTERNALIZE" /\ (~s.heard \/ @)]

-----------------------------------------------------------------------------
(* The attempts of advanceSlot.                                            *)

\* The ballots attemptAcceptPrepared may accept as prepared.
AcceptablePrepared(n, hint) ==
    LET s == bp[n] IN
    {x \in PrepareCandidates(hint, Statements(n)) :
        /\ s.phase \in {"PREPARE", "CONFIRM"}
        /\ s.phase = "CONFIRM" => LessAndCompatible(s.p, x)
        /\ s.pPrime = NullBallot \/ Less(s.pPrime, x)
        /\ s.p = NullBallot \/ ~LessAndCompatible(x, s.p)
        /\ AcceptPrepared(n, x)}

\* The ballots attemptConfirmPrepared may take for newH.
ConfirmablePrepared(n, hint) ==
    LET s == bp[n] IN
    {x \in PrepareCandidates(hint, Statements(n)) :
        /\ s.phase = "PREPARE"
        /\ s.p # NullBallot
        /\ s.h = NullBallot \/ Less(s.h, x)
        /\ ConfirmPrepared(n, x)}

\* The lowest ballot attemptConfirmPrepared may vote to commit given newH.
LowestCommit(n, hint, newH) ==
    LET s == bp[n]
        aborted(x) == x # NullBallot /\ LessAndIncompatible(newH, x)
        range == {x \in PrepareCandidates(hint, Statements(n)) :
                    LessEq(s.b, x) /\ LessAndCompatible(x, newH)}
        confirmed == {x \in range : \A y \in range : LessEq(x, y) => ConfirmPrepared(n, y)}
    IN  IF s.c # NullBallot \/ aborted(s.p) \/ aborted(s.pPrime) \/ confirmed = {}
        THEN NullBallot
        ELSE LowestOf(confirmed)

\* findExtendedInterval: the highest boundary that passes, extended down over
\* the boundaries below it while the whole interval passes; <<0, 0>> if none.
ExtendedInterval(boundaries, passing) ==
    LET tops == {x \in boundaries : <<x, x>> \in passing}
        top == CHOOSE x \in tops : \A y \in tops : y <= x
        lows == {x \in boundaries : x <= top /\ \A y \in boundaries :
                    x <= y /\ y <= top => <<y, top>> \in passing}
    IN  IF tops = {} THEN <<0, 0>>
        ELSE <<CHOOSE x \in lows : \A y \in lows : x <= y, top>>

\* The interval attemptAcceptCommit accepts for the value of hint.
AcceptableCommit(n, hint) ==
    LET s == bp[n]
        value == WorkingBallot(hint)[2]
        boundaries == CommitBoundaries(value, Statements(n))
        interval == ExtendedInterval(boundaries,
                      {i \in boundaries \X boundaries : AcceptCommit(n, value, i[1], i[2])})
    IN  IF \/ s.phase = "EXTERNALIZE"
           \/ hint.type = "PREPARE" /\ hint.nC = 0
           \/ s.phase = "CONFIRM" /\ (value # s.h[2] \/ interval[2] <= s.h[1])
        THEN <<0, 0>> ELSE interval

\* The interval attemptConfirmCommit confirms for the value of hint.
ConfirmableCommit(n, hint) ==
    LET s == bp[n]
        value == WorkingBallot(hint)[2]
        boundaries == CommitBoundaries(value, Statements(n))
    IN  IF \/ s.phase # "CONFIRM" \/ s.h = NullBallot \/ s.c = NullBallot
           \/ hint.type = "PREPARE"
           \/ value # s.c[2]
        THEN <<0, 0>>
        ELSE ExtendedInterval(boundaries,
               {i \in boundaries \X boundaries : ConfirmCommit(n, value, i[1], i[2])})

Works(n, hint, attempt) ==
    CASE attempt = 1 -> AcceptablePrepared(n, hint) # {}
      [] attempt = 2 -> ConfirmablePrepared(n, hint) # {}
      [] attempt = 3 -> AcceptableCommit(n, hint)[1] # 0
      [] attempt = 4 -> ConfirmableCommit(n, hint)[1] # 0

\* The advanceSlot on top of the stack of n still has to make this attempt,
\* and it would change something.
Pending(n, attempt) == Top(n).pc <= attempt /\ Works(n, Top(n).hint, attempt)

\* The stack once the attempt before the pc-th returns.
Resume(n, pc) == <<AdvanceFrame(Top(n).hint, pc)>> \o Tail(stack[n])

AttemptAcceptPrepared(n) ==
    /\ LET ballot == HighestOf(AcceptablePrepared(n, Top(n).hint))
       IN  Emit(n, SetAcceptPrepared(bp[n], ballot), Resume(n, 2))
    /\ UNCHANGED <<lastEnvelope, lastEmit, candidate, sent, externalized, timeouts, restarts>>

\* The value is remembered in z even when the node is on a higher,
\* incompatible ballot and nothing else changes.
AttemptConfirmPrepared(n) ==
    /\ LET newH == HighestOf(ConfirmablePrepared(n, Top(n).hint))
           s == SetConfirmPrepared(bp[n], LowestCommit(n, Top(n).hint, newH), newH)
           didWork == [s EXCEPT !.z = bp[n].z] # bp[n]
       IN  IF didWork
           THEN Emit(n, s, Resume(n, 3))
           ELSE /\ bp' = [bp EXCEPT ![n] = s]
                /\ stack' = [stack EXCEPT ![n] = Resume(n, 3)]
                /\ UNCHANGED <<latest, fullyValidated, thrown>>
    /\ UNCHANGED <<lastEnvelope, lastEmit, candidate, sent, externalized, timeouts, restarts>>

AttemptAcceptCommit(n) ==
    /\ LET interval == AcceptableCommit(n, Top(n).hint)
           value == WorkingBallot(Top(n).hint)[2]
       IN  Emit(n, SetAcceptCommit(bp[n], <<interval[1], value>>, <<interval[2], value>>),
                Resume(n, 4))
    /\ UNCHANGED <<lastEnvelope, lastEmit, candidate, sent, externalized, timeouts, restarts>>

\* The value is handed to valueExternalized before the EXTERNALIZE statement
\* leaves the node.
AttemptConfirmCommit(n) ==
    /\ LET interval == ConfirmableCommit(n, Top(n).hint)
           value == WorkingBallot(Top(n).hint)[2]
       IN  /\ Emit(n, SetConfirmCommit(bp[n], <<interval[1], value>>, <<interval[2], value>>),
                   Resume(n, 5))
           /\ externalized' = IF n \in thrown' THEN externalized
                              ELSE [externalized EXCEPT ![n] = @ \cup {value}]
    /\ UNCHANGED <<lastEnvelope, lastEmit, candidate, sent, timeouts, restarts>>

CanUpdateDespiteCommit(s, ballot) ==
    /\ s.phase \in {"PREPARE", "CONFIRM"}
    /\ s.b = NullBallot \/ Less(s.b, ballot)

\* bumpState(value, counter): the ballot it moves to, and whether
\* updateCurrentValue lets it.
BumpedBallot(s, value, counter) == <<counter, IF s.z # 0 THEN s.z ELSE value>>
CanUpdate(s, ballot) ==
    /\ s.phase \in {"PREPARE", "CONFIRM"}
    /\ \/ s.b = NullBallot
       \/ /\ s.c = NullBallot \/ Compatible(s.c, ballot)
          /\ Less(s.b, ballot)

\* abandonBallot(counter): the ballot it bumps to, with the composite
\* candidate or else the current value, and whether it does.
AbandonValue(n) == IF candidate[n] # 0 THEN candidate[n] ELSE bp[n].b[2]
AbandonedFor(n, counter) == BumpedBallot(bp[n], AbandonValue(n), counter)
CanAbandon(n, counter) ==
    AbandonValue(n) # 0 /\ CanUpdate(bp[n], AbandonedFor(n, counter))

\* attemptBump: the lowest counter above which no v-blocking set is.
BumpCounter(n) ==
    LET at(m) == StatementBallotCounter(latest[n][m])
        ahead(k) == isVBlocking(n, {m \in Heard(n) : at(m) > k})
        local == bp[n].b[1]
        behind == {at(m) : m \in Heard(n)} \cap {k \in Counter : k > local /\ ~ahead(k)}
    IN  IF ahead(local) /\ behind # {}
        THEN CHOOSE k \in behind : \A o \in behind : k <= o ELSE 0

Bumps(n) ==
    /\ Level(stack[n]) = 1
    /\ BumpCounter(n) # 0
    /\ CanAbandon(n, BumpCounter(n))

AttemptBump(n) ==
    /\ Emit(n, BumpToBallot(bp[n], AbandonedFor(n, BumpCounter(n))),
            <<BumpFrame>> \o Resume(n, 5))
    /\ UNCHANGED <<lastEnvelope, lastEmit, candidate, sent, externalized, timeouts, restarts>>

ExitWithoutSending(n) ==
    /\ bp' = [bp EXCEPT ![n] = IF Level(stack[n]) = 1 THEN CheckHeardFromQuorum(n, @) ELSE @]
    /\ stack' = [stack EXCEPT ![n] = Tail(@)]
    /\ UNCHANGED <<latest, lastEnvelope, lastEmit, fullyValidated, candidate, sent,
                   externalized, thrown, timeouts, restarts>>

\* advanceSlot returns.  (When it did no work the latest statement is already
\* emitted or must not be.)
ExitAdvance(n) ==
    /\ bp' = [bp EXCEPT ![n] = IF Level(stack[n]) = 1 THEN CheckHeardFromQuorum(n, @) ELSE @]
    /\ stack' = [stack EXCEPT ![n] = Tail(@)]
    /\ SendLatestEnvelope(n, lastEnvelope[n], Tail(stack[n]))
    /\ UNCHANGED <<latest, lastEnvelope, fullyValidated, candidate, externalized,
                   thrown, timeouts, restarts>>

ReturnToOlderStatement(n) ==
    /\ stack[n] # <<>>
    /\ Top(n).call = "emit"
    /\ IF Top(n).canEmit
       THEN /\ lastEnvelope' = [lastEnvelope EXCEPT ![n] = Top(n).st]
            /\ SendLatestEnvelope(n, Top(n).st, Tail(stack[n]))
       ELSE UNCHANGED <<lastEnvelope, lastEmit, sent>>
    /\ stack' = [stack EXCEPT ![n] = Tail(@)]
    /\ UNCHANGED <<bp, latest, fullyValidated, candidate, externalized, thrown, timeouts, restarts>>

\* processEnvelope(self) returned to emitCurrentStateStatement.
ReturnFromEmit(n) ==
    /\ stack[n] # <<>>
    /\ Top(n).call = "emit"
    /\ IF Top(n).canEmit /\ IsNewerStatement(lastEnvelope[n], Top(n).st)
       THEN /\ lastEnvelope' = [lastEnvelope EXCEPT ![n] = Top(n).st]
            /\ SendLatestEnvelope(n, Top(n).st, Tail(stack[n]))
       ELSE UNCHANGED <<lastEnvelope, lastEmit, sent>>
    /\ stack' = [stack EXCEPT ![n] = Tail(@)]
    /\ UNCHANGED <<bp, latest, fullyValidated, candidate, externalized, thrown, timeouts, restarts>>

\* emitCurrentStateStatement returned to bumpState.
ReturnFromBump(n) ==
    /\ stack[n] # <<>>
    /\ Top(n).call = "bumpState"
    /\ bp' = [bp EXCEPT ![n] = CheckHeardFromQuorum(n, @)]
    /\ stack' = [stack EXCEPT ![n] = Tail(@)]
    /\ UNCHANGED <<latest, lastEnvelope, lastEmit, fullyValidated, candidate, sent,
                   externalized, thrown, timeouts, restarts>>

-----------------------------------------------------------------------------
(* What starts a handler.                                                  *)

\* processEnvelope(envelope, false); stale, malformed and invalid statements
\* change nothing, and so do statements for another value after EXTERNALIZE.
CanReceive(n, m, st) ==
    /\ Idle
    /\ m \in Reaching[n] \ {n}
    /\ n \notin thrown
    /\ IsStatementSane(st, FALSE)
    /\ IsNewerStatement(latest[n][m], st)
    /\ Verdict(n, st) # "invalid"
    /\ bp[n].phase = "EXTERNALIZE" => bp[n].c[2] = WorkingBallot(st)[2]
Receive(n, m, st) ==
    /\ CanReceive(n, m, st)
    /\ Record(n, m, st, bp[n].phase, <<>>)
    /\ UNCHANGED <<bp, lastEnvelope, lastEmit, candidate, sent, externalized, timeouts, restarts>>

\* ballotProtocolTimerExpired; counters are 32 bits wide.
TimerExpires(n) ==
    /\ Idle
    /\ bp[n].timer /\ n \notin thrown
    /\ n \in MayTimeout /\ timeouts < MaxTimeout
    /\ timeouts' = timeouts + 1
    /\ LET next == (bp[n].b[1] + 1) % (UINT32_MAX + 1)
           s == [bp[n] EXCEPT !.timer = FALSE]
       IN  IF CanAbandon(n, next)
           THEN Emit(n, BumpToBallot(s, AbandonedFor(n, next)), <<BumpFrame>>)
           ELSE /\ bp' = [bp EXCEPT ![n] = s]
                /\ UNCHANGED <<latest, stack, fullyValidated, thrown>>
    /\ UNCHANGED <<lastEnvelope, lastEmit, candidate, sent, externalized, restarts>>

\* Nomination has a new composite candidate: bumpState(value, false).
HasNewCandidate(n, value) ==
    /\ Idle
    /\ n \notin thrown
    /\ value # candidate[n]
    /\ bp[n].phase # "EXTERNALIZE"
NewCandidate(n, value) ==
    /\ HasNewCandidate(n, value)
    /\ candidate' = [candidate EXCEPT ![n] = value]
    /\ IF bp[n].b = NullBallot
       THEN Emit(n, BumpToBallot(bp[n], BumpedBallot(bp[n], value, 1)), <<BumpFrame>>)
       ELSE UNCHANGED <<bp, latest, stack, fullyValidated, thrown>>
    /\ UNCHANGED <<lastEnvelope, lastEmit, sent, externalized, timeouts, restarts>>

\* The process stops, possibly in the middle of a handler, and starts again
\* from what HerderImpl::persistSCPState saved with the last statement emitted.
Restart(n) ==
    /\ Idle \/ stack[n] # <<>>
    /\ n \in MayRestart /\ restarts < MaxRestart
    /\ restarts' = restarts + 1
    /\ bp' = [bp EXCEPT ![n] = StateFromStatement(lastEmit[n])]
    /\ latest' = [latest EXCEPT ![n] = [m \in Node |-> IF m = n THEN lastEmit[n] ELSE NoStatement]]
    /\ lastEnvelope' = [lastEnvelope EXCEPT ![n] = lastEmit[n]]
    /\ fullyValidated' = [fullyValidated EXCEPT ![n] = TRUE]
    /\ candidate' = [candidate EXCEPT ![n] = 0]
    /\ stack' = [stack EXCEPT ![n] = <<>>]
    /\ UNCHANGED <<lastEmit, sent, externalized, thrown, timeouts>>

\* The attempts in the order advanceSlot makes them.
AdvanceSlot(n) ==
    /\ InAdvance(n)
    /\ IF Pending(n, 1) THEN AttemptAcceptPrepared(n)
       ELSE IF Pending(n, 2) THEN AttemptConfirmPrepared(n)
       ELSE IF Pending(n, 3) THEN AttemptAcceptCommit(n)
       ELSE IF Pending(n, 4) THEN AttemptConfirmCommit(n)
       ELSE IF Bumps(n) THEN AttemptBump(n)
       ELSE ExitAdvance(n)

Next ==
    \E n \in Node :
        \/ AdvanceSlot(n)
        \/ ReturnFromEmit(n)
        \/ ReturnFromBump(n)
        \/ \E m \in Reaching[n] : \E st \in sent[m] : Receive(n, m, st)
        \/ TimerExpires(n)
        \/ \E value \in Candidates[n] : NewCandidate(n, value)
        \/ Restart(n)

Spec == Init /\ [][Next]_vars

\* A handler runs, a statement is in flight to a node that would use it, or
\* nomination has a candidate to hand over.
WorkLeft ==
    \/ ~Idle
    \/ \E n, m \in Node : \E st \in sent[m] : CanReceive(n, m, st)
    \/ \E n \in Node : \E value \in Candidates[n] : HasNewCandidate(n, value)

\* Work that is left is eventually followed by a step: weak fairness of the
\* steps other than timeouts and restarts, all of which change the state.
FairSpec == Spec /\ (<>[]WorkLeft => []<><<TRUE>>_vars)

-----------------------------------------------------------------------------
(* Properties.                                                             *)

Phase == {"PREPARE", "CONFIRM", "EXTERNALIZE"}
State ==
    [phase : Phase, b : Ballot, p : Ballot, pPrime : Ballot,
     h : Ballot, c : Ballot, z : Value \cup {0},
     heard : BOOLEAN, timer : BOOLEAN]
StatementOrNone == Statement \cup {NoStatement}
Frame ==
    [call : {"advanceSlot"}, hint : Statement, pc : 1..5]
        \cup [call : {"emit"}, st : Statement, canEmit : BOOLEAN]
        \cup [call : {"bumpState"}]

\* Ballots, statements and call stacks are well formed on every node.
TypeOK ==
    /\ bp \in [Node -> State]
    /\ latest \in [Node -> [Node -> StatementOrNone]]
    /\ lastEnvelope \in [Node -> StatementOrNone]
    /\ lastEmit \in [Node -> StatementOrNone]
    /\ fullyValidated \in [Node -> BOOLEAN]
    /\ candidate \in [Node -> Value \cup {0}]
    /\ stack \in [Node -> Seq(Frame)]
    /\ sent \in [Node -> SUBSET Statement]
    /\ externalized \in [Node -> SUBSET (Value \cup {0})]
    /\ thrown \subseteq Node
    /\ timeouts \in Nat
    /\ restarts \in Nat

\* The debug assertions of checkInvariants hold of a protocol state: c <= h <= b
\* with one value, p' below p and incompatible with it.
BallotsOrdered(s) ==
    /\ s.phase # "PREPARE" => NullBallot \notin {s.b, s.c, s.h}
    /\ s.pPrime # NullBallot => s.p # NullBallot /\ LessAndIncompatible(s.pPrime, s.p)
    /\ s.h # NullBallot => s.b # NullBallot /\ LessAndCompatible(s.h, s.b)
    /\ s.c # NullBallot => s.h # NullBallot /\ LessAndCompatible(s.c, s.h)

\* checkInvariants: c <= h <= b and p' < p, at every step of a handler and
\* after a restart.  Its assertion on the counter of b is in CounterNeverWraps,
\* that on p in PreparedForCommit.
CheckInvariants == \A n \in Node : BallotsOrdered(bp[n])

\* attemptAcceptPrepared relies on "p ~ c" once a commit is accepted: what is
\* accepted as committed up to h is accepted as prepared up to h.
PreparedForCommit ==
    \A n \in Node : bp[n].phase # "PREPARE" => LessAndCompatible(bp[n].h, bp[n].p)

\* No handler throws: a node never makes a statement that it refuses itself
\* ("moved to a bad state") and advanceSlot's recursion stays bounded.
NoException == thrown = {}

\* No two nodes hand different values to valueExternalized, nor does one node
\* before and after a restart.
Agreement ==
    \A n, m \in Node : \A v \in externalized[n], w \in externalized[m] : v = w

\* Accepting a commit is irrevocable (setAcceptCommit leaves PREPARE for good):
\* no two nodes, nor one before and after a restart, ever tell the others that
\* they accepted different values as committed, long before any of them is
\* externalized.
AcceptedCommit(st) == IF st.type = "CONFIRM" THEN st.b[2] ELSE st.commit[2]
AcceptedCommitsAgree ==
    \A n, m \in Node : \A st \in sent[n], other \in sent[m] :
        "PREPARE" \notin {st.type, other.type} => AcceptedCommit(st) = AcceptedCommit(other)

\* A node emits statements in the order of isNewerStatement, also after a
\* restart: it never goes back on what it told the others.
EmitsInOrder ==
    [][\A n \in Node : \A st \in sent'[n] \ sent[n] : \A old \in sent[n] :
          IsNewerStatement(old, st)]_vars

\* Between handlers the ballot timer of a node that heard from a quorum and
\* has not externalized is running: the node cannot get stuck on its ballot.
\* After a restart it can: mValueOverride is not restored, so bumpState may try
\* another value than that of c; updateCurrentValue refuses it and nothing sets
\* the timer again while the node hears from the same quorum.
TimerRuns ==
    Idle /\ restarts = 0
        => \A n \in Node : bp[n].heard /\ bp[n].phase # "EXTERNALIZE" => bp[n].timer

\* A node never tells the others a statement with a value it could not fully
\* validate (sendLatestEnvelope looks at Slot::isFullyValidated).
EmitsOnlyValidated ==
    \A n \in Node : \A st \in sent[n] : Verdict(n, st) = "fully"

\* The counter of a ballot is never 0, as checkInvariants asserts, and that of a
\* running ballot timer can be incremented without wrapping around:
\* updateCurrentValue asserts that the next ballot is not smaller.
CounterNeverWraps ==
    /\ \A n \in Node : bp[n].b # NullBallot => bp[n].b[1] # 0
    /\ Idle => \A n \in Node : bp[n].timer => bp[n].b[1] < UINT32_MAX

\* Every node externalizes, also when a process stops at any point and starts
\* again.
Termination == <>(\A n \in Node : externalized[n] # {})
=============================================================================
