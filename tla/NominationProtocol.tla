------------------------- MODULE NominationProtocol -------------------------
(***************************************************************************)
(* The nomination protocol of one slot (scp/NominationProtocol.cpp): nodes *)
(* vote for the values of their round leaders until some value is accepted *)
(* by a quorum and becomes a candidate.                                    *)
(*                                                                         *)
(* processEnvelope calls itself through emitNomination, so the call stack  *)
(* of the running handler is part of the state, as in BallotProtocol.      *)
(***************************************************************************)
EXTENDS Quorums, Integers, Sequences

CONSTANTS
    Value,             \* the values, totally ordered by hashValue
    Proposal,          \* [Node -> the value its herder proposes]
    validateValue,     \* [Node -> values the driver fully validates]
    extractValidValue, \* [Node -> [Value -> the valid variant, or NoValue]]
    hashValue,         \* [1..MaxRound -> [Value -> Nat]]
    NoValue,
    combineCandidates, \* [sets of values -> the composite value]
    NodeOrder,         \* the nodes in the order of their ids
    Priority,          \* [Node -> [1..MaxRound -> [Node -> Nat]]], getNodePriority
    MaxRound,          \* bound: rounds of nomination
    Validating,        \* the nodes whose slot is fully validated
    MayStop,           \* the nodes whose ballot protocol may stop nomination
    MayRestart,        \* the nodes whose process may stop and start again
    MaxRestart         \* bound: restarts in a behaviour

ASSUME NominationAssumption ==
    /\ NoValue \notin Value
    /\ Proposal \in [Node -> Value]
    /\ validateValue \in [Node -> SUBSET Value]
    /\ extractValidValue \in [Node -> [Value -> Value \cup {NoValue}]]
    /\ MaxRound \in Nat \ {0}
    /\ MaxRestart \in Nat
    /\ hashValue \in [1..MaxRound -> [Value -> Nat]]
    /\ \A r \in 1..MaxRound : \A v, w \in Value : hashValue[r][v] = hashValue[r][w] => v = w
    /\ NodeOrder \in Seq(Node)
    /\ Priority \in [Node -> [1..MaxRound -> [Node -> Nat]]]
    /\ combineCandidates \in [SUBSET Value -> Value \cup {NoValue}]
    /\ Validating \cup MayStop \cup MayRestart \subseteq Node

VARIABLES
    nom,       \* [Node -> protocol state]
    latest,    \* [Node -> [Node -> latest statement]], mLatestNominations
    stack,     \* [Node -> calls of emitNomination in progress]
    sent,      \* [Node -> emitted statements the network may deliver]
    thrown,    \* nodes whose handler threw
    restarts   \* restarts so far

vars == <<nom, latest, stack, sent, thrown, restarts>>

NoStatement == [votes |-> {}, accepted |-> {}]

IsNewerByVotes(old, st) == old.votes \subseteq st.votes /\ old.votes # st.votes

\* isNewerStatement: neither set shrinks and one of them grows.  NoStatement
\* stands for no statement at all; isSane refuses it.
IsNewerStatement(old, st) ==
    /\ old.votes \subseteq st.votes /\ old.accepted \subseteq st.accepted
    /\ old # st

IsSane(st) == st # NoStatement

InitialState ==
    [votes |-> {}, accepted |-> {}, candidates |-> {}, composite |-> NoValue,
     leaders |-> {}, round |-> 0, started |-> FALSE, timer |-> FALSE,
     last |-> NoStatement]

Init ==
    /\ nom = [n \in Node |-> InitialState]
    /\ latest = [n \in Node |-> [m \in Node |-> NoStatement]]
    /\ stack = [n \in Node |-> <<>>]
    /\ sent = [n \in Node |-> {}]
    /\ thrown = {}
    /\ restarts = 0

Idle == \A n \in Node : stack[n] = <<>>

-----------------------------------------------------------------------------
(* Leaders and their values.                                               *)

\* The node and the members of its quorum set.
QSetNodes(n) == {n} \cup UNION Slices[n]

\* The leaders updateRoundLeaders finds for a round: the nodes of highest
\* priority, none if all priorities are 0.
TopPriority(n, round) ==
    {m \in QSetNodes(n) :
        /\ Priority[n][round][m] > 0
        /\ \A k \in QSetNodes(n) : Priority[n][round][k] <= Priority[n][round][m]}

\* Bound: rounds whose leaders are considered.
LeaderRounds(n, leaders, round) ==
    {r \in round..MaxRound : ~(TopPriority(n, r) \subseteq leaders)}

\* The first round from round on whose leaders are new; rounds in between
\* time out at once ("fast timeout").  The round is left alone once every
\* node is a leader.
UpdateRoundLeaders(n, s) ==
    LET rounds == LeaderRounds(n, s.leaders, s.round)
        r == CHOOSE x \in rounds : \A y \in rounds : x <= y
    IN  IF s.leaders = QSetNodes(n) \/ rounds = {} THEN s
        ELSE [s EXCEPT !.round = r, !.leaders = @ \cup TopPriority(n, r)]

\* The values of vals a node may vote for: its own validated form of each.
Votable(n, vals) ==
    (vals \cap validateValue[n])
        \cup ({extractValidValue[n][v] : v \in vals \ validateValue[n]} \ {NoValue})

\* getNewValueFromNomination: the value of highest hash the node has not voted
\* for, from the accepted values if one of them is votable, else from the votes.
NewValues(n, s, st) ==
    LET pool == IF Votable(n, st.accepted) # {} THEN Votable(n, st.accepted)
                ELSE Votable(n, st.votes)
        new == pool \ s.votes
    IN  {v \in new : \A w \in new : hashValue[s.round][w] <= hashValue[s.round][v]}

-----------------------------------------------------------------------------
(* processEnvelope.                                                        *)

FederatedAccept(n, heard, v) ==
    LET accepters == {m \in Node : v \in heard[m].accepted}
        voters == {m \in Node : v \in heard[m].votes}
    IN  isVBlocking(n, accepters) \/ isQuorum(n, voters \cup accepters, {})
RatifyVotes(n, heard, v) == isQuorum(n, {m \in Node : v \in heard[m].votes}, {})
FederatedRatify(n, heard, v) == isQuorum(n, {m \in Node : v \in heard[m].accepted}, {})

\* Votes of st that become accepted, or voted for in a valid variant.
Promote(n, s, heard, st) ==
    LET accept == {v \in st.votes \ s.accepted : FederatedAccept(n, heard, v)}
        valid == accept \cap validateValue[n]
    IN  [s EXCEPT !.accepted = @ \cup valid,
                  !.votes = @ \cup Votable(n, accept)]

RatifyKeepingTimer(n, s, heard) ==
    LET new == {v \in s.accepted \ s.candidates : FederatedRatify(n, heard, v)}
    IN  [s EXCEPT !.candidates = @ \cup new]

\* Accepted values that become candidates; the first one stops the timer.
Ratify(n, s, heard) ==
    LET new == {v \in s.accepted \ s.candidates : FederatedRatify(n, heard, v)}
    IN  [s EXCEPT !.candidates = @ \cup new, !.timer = @ /\ new = {}]

\* Votes of a round leader are taken over while there is no candidate.
FollowLeader(n, m, s, st) ==
    IF s.candidates = {} /\ m \in s.leaders
    THEN [s EXCEPT !.votes = @ \cup NewValues(n, s, st)]
    ELSE s

\* emitNomination, about to process its statement (called) or waiting for
\* processEnvelope to return; cand: the caller goes on to bumpState.
EmitFrame(s, cand) ==
    [st |-> [votes |-> s.votes, accepted |-> s.accepted], called |-> FALSE, cand |-> cand]

HandOverOnce(s, cand) ==
    IF cand /\ s.composite = NoValue
    THEN [s EXCEPT !.composite = combineCandidates[s.candidates]] ELSE s

\* combineCandidates and Slot::bumpState at the end of processEnvelope.
HandOver(s, cand) ==
    IF cand THEN [s EXCEPT !.composite = combineCandidates[s.candidates]] ELSE s

\* The end of processEnvelope in state s, entered in state s0: emit what was
\* modified, then hand over new candidates.
Conclude(n, s0, s, rest) ==
    LET modified == s.votes # s0.votes \/ s.accepted # s0.accepted
        cand == s.candidates # s0.candidates
    IN  /\ nom' = [nom EXCEPT ![n] = IF modified THEN s ELSE HandOver(s, cand)]
        /\ stack' = [stack EXCEPT ![n] = IF modified THEN <<EmitFrame(s, cand)>> \o rest ELSE rest]

\* processEnvelope for the newer statement st of m; rest is the call stack to
\* return to.
Process(n, m, st, rest) ==
    LET s0 == nom[n]
        heard == [latest[n] EXCEPT ![m] = st]
        s1 == Promote(n, s0, heard, st)
        s2 == Ratify(n, s1, heard)
        s3 == FollowLeader(n, m, s2, st)
    IN  /\ latest' = [latest EXCEPT ![n] = heard]
        /\ IF s0.started THEN Conclude(n, s0, s3, rest)
           ELSE /\ stack' = [stack EXCEPT ![n] = rest]
                /\ UNCHANGED nom

\* emitNomination calls processEnvelope on its own statement; being refused
\* there is the exception "moved to a bad state (nomination)".
ProcessOwn(n) ==
    /\ stack[n] # <<>> /\ ~Head(stack[n]).called
    /\ LET st == Head(stack[n]).st
           waiting == <<[Head(stack[n]) EXCEPT !.called = TRUE]>> \o Tail(stack[n])
       IN  IF IsNewerStatement(latest[n][n], st) /\ IsSane(st)
           THEN Process(n, n, st, waiting) /\ UNCHANGED thrown
           ELSE /\ thrown' = thrown \cup {n}
                /\ stack' = [stack EXCEPT ![n] = <<>>]
                /\ UNCHANGED <<nom, latest>>
    /\ UNCHANGED <<sent, restarts>>

\* processEnvelope returned to emitNomination, which emits the statement
\* unless a nested call emitted a newer one, and returns to its caller.
ReturnFromEmit(n) ==
    /\ stack[n] # <<>> /\ Head(stack[n]).called
    /\ LET st == Head(stack[n]).st
           newer == nom[n].last = NoStatement \/ IsNewerStatement(nom[n].last, st)
           s == IF newer THEN [nom[n] EXCEPT !.last = st] ELSE nom[n]
       IN  /\ nom' = [nom EXCEPT ![n] = HandOver(s, Head(stack[n]).cand)]
           /\ sent' = IF newer /\ n \in Validating
                      THEN [sent EXCEPT ![n] = @ \cup {st}] ELSE sent
    /\ stack' = [stack EXCEPT ![n] = Tail(@)]
    /\ UNCHANGED <<latest, thrown, restarts>>

CanReceive(n, m, st) == n # m /\ IsNewerStatement(latest[n][m], st) /\ IsSane(st)

\* Slot::processEnvelope for a nomination statement of another node.
Receive(n, m, st) ==
    /\ Idle /\ CanReceive(n, m, st)
    /\ Process(n, m, st, <<>>)
    /\ UNCHANGED <<sent, thrown, restarts>>

-----------------------------------------------------------------------------
(* nominate.                                                               *)

FollowNone(n, s) == s.votes

\* The votes after taking over one value from each leader, in node order.
FollowLeaders(n, s) ==
    LET votes[i \in 0..Len(NodeOrder)] ==
            IF i = 0 THEN s.votes
            ELSE IF NodeOrder[i] \in s.leaders
            THEN votes[i - 1] \cup NewValues(n, [s EXCEPT !.votes = votes[i - 1]],
                                             latest[n][NodeOrder[i]])
            ELSE votes[i - 1]
    IN  votes[Len(NodeOrder)]

\* The bound on rounds: there is a round to go to.
CanStartRound(n) ==
    /\ nom[n].round < MaxRound
    /\ \/ nom[n].leaders = QSetNodes(n)
       \/ LeaderRounds(n, nom[n].leaders, nom[n].round + 1) # {}

\* A new round, unless there is a candidate: more leaders, their values and, if
\* the node leads and has no vote yet, its own; the timer is set up before
\* anything is emitted.
NewRound(n) ==
    LET s0 == nom[n]
        s1 == UpdateRoundLeaders(n, [s0 EXCEPT !.started = TRUE, !.round = @ + 1])
        followed == FollowLeaders(n, s1)
        votes == IF n \in s1.leaders /\ followed = {} THEN {Proposal[n]} ELSE followed
        s2 == [s1 EXCEPT !.votes = votes, !.timer = TRUE]
    IN  /\ CanStartRound(n)
        /\ nom' = [nom EXCEPT ![n] = s2]
        /\ stack' = [stack EXCEPT ![n] =
                        IF votes # s0.votes THEN <<EmitFrame(s2, FALSE)>> ELSE <<>>]

\* nominate(value, previous, false), which the herder calls once for a slot.
Nominate(n) ==
    /\ Idle
    /\ nom[n].round = 0
    /\ NewRound(n)
    /\ UNCHANGED <<latest, sent, thrown, restarts>>

\* nominate(value, previous, true): the nomination timer expired.
TimerExpires(n) ==
    /\ Idle
    /\ nom[n].timer
    /\ IF nom[n].started /\ nom[n].candidates = {}
       THEN NewRound(n)
       ELSE /\ nom' = [nom EXCEPT ![n].timer = FALSE]
            /\ UNCHANGED stack
    /\ UNCHANGED <<latest, sent, thrown, restarts>>

\* stopNomination, which the ballot protocol calls when it externalizes.
StopNomination(n) ==
    /\ Idle
    /\ n \in MayStop /\ nom[n].started
    /\ nom' = [nom EXCEPT ![n].started = FALSE]
    /\ UNCHANGED <<latest, stack, sent, thrown, restarts>>

\* setStateFromEnvelope: the state rebuilt from the own statement st.
Restored(st) ==
    [InitialState EXCEPT !.votes = st.votes, !.accepted = st.accepted, !.last = st]

RestartFromScratch(n) ==
    /\ Idle \/ stack[n] # <<>>
    /\ n \in MayRestart /\ restarts < MaxRestart
    /\ restarts' = restarts + 1
    /\ nom' = [nom EXCEPT ![n] = InitialState]
    /\ latest' = [latest EXCEPT ![n] = [m \in Node |-> NoStatement]]
    /\ stack' = [stack EXCEPT ![n] = <<>>]
    /\ UNCHANGED <<sent, thrown>>

\* The process stops, possibly in the middle of a handler, and starts again
\* from the statement HerderImpl::persistSCPState saved when it was emitted
\* (setStateFromEnvelope).
Restart(n) ==
    /\ Idle \/ stack[n] # <<>>
    /\ n \in MayRestart /\ restarts < MaxRestart
    /\ restarts' = restarts + 1
    /\ LET st == IF n \in Validating THEN nom[n].last ELSE NoStatement
       IN  /\ nom' = [nom EXCEPT ![n] = Restored(st)]
           /\ latest' = [latest EXCEPT ![n] =
                            [m \in Node |-> IF m = n THEN st ELSE NoStatement]]
    /\ stack' = [stack EXCEPT ![n] = <<>>]
    /\ UNCHANGED <<sent, thrown>>

Next ==
    \E n \in Node :
        \/ Nominate(n)
        \/ TimerExpires(n)
        \/ ProcessOwn(n)
        \/ ReturnFromEmit(n)
        \/ \E m \in Node : \E st \in sent[m] : Receive(n, m, st)
        \/ StopNomination(n)
        \/ Restart(n)

Spec == Init /\ [][Next]_vars

\* A handler runs, a statement is in flight to a node that would use it, the
\* herder is to nominate or a nomination timer is to expire.
WorkLeft ==
    \/ ~Idle
    \/ \E n, m \in Node : \E st \in sent[m] : CanReceive(n, m, st)
    \/ \E n \in Node : (nom[n].round = 0 \/ nom[n].timer) /\ CanStartRound(n)

\* Work that is left is eventually followed by a step.  Every step adds to what
\* the nodes said, heard or tried, so all the work gets done.
FairSpec == Spec /\ (<>[]WorkLeft => []<><<TRUE>>_vars)

-----------------------------------------------------------------------------
(* Properties.                                                             *)

\* emitNomination never throws: through nested calls and restarts a node's
\* votes and accepted values only grow, and grow in every statement it makes.
NoException == thrown = {}

\* A value is a candidate only if a quorum told the node that it accepted it;
\* a node that is part of the quorum stands by it, whatever crashed since.
CandidatesAccepted ==
    \A n \in Node : \A v \in nom[n].candidates :
        isQuorum(n, {m \in Node : m = n \/ \E st \in sent[m] : v \in st.accepted}, {})

\* Between handlers the nomination timer runs exactly while the node nominates
\* and has no candidate: it neither gets stuck in a round nor goes on
\* nominating ("there's no need to continue nominating").
TimerRuns ==
    Idle => \A n \in Node :
        /\ nom[n].started /\ nom[n].candidates = {} => nom[n].timer
        /\ nom[n].candidates # {} => ~nom[n].timer

\* Between handlers the composite value handed to the ballot protocol is made
\* of all the candidates, those found by nested calls included.
CompositeIsCurrent ==
    Idle => \A n \in Node : nom[n].candidates # {}
                => nom[n].composite = combineCandidates[nom[n].candidates]

\* A node never goes back on its votes: what it emits, also after a restart, is
\* newer than all it emitted before.
EmitsInOrder ==
    [][\A n \in Node : \A st \in sent'[n] \ sent[n] : \A old \in sent[n] :
          IsNewerStatement(old, st)]_vars

\* Every node finds a candidate.
EventuallyCandidate == <>(\A n \in Node : nom[n].candidates # {})
=============================================================================
