----------------------------- MODULE LocalNode -----------------------------
(***************************************************************************)
(* Nested quorum sets: the recursive procedures of scp/LocalNode.cpp and   *)
(* scp/QuorumSetUtils.cpp, and the loop of LocalNode::isQuorum.            *)
(*                                                                         *)
(* A quorum set is [threshold, validators, innerSets]; validators and      *)
(* inner sets are sets, since a sane quorum set repeats no node.  Nodes    *)
(* are numbers, ordered as node ids are.                                   *)
(***************************************************************************)
EXTENDS Integers, FiniteSets

CONSTANTS
    MaxNode,        \* the nodes are 1..MaxNode
    MaxNesting,     \* bound: levels of inner sets
    MaxInner,       \* bound: inner sets of a quorum set
    MaxFlat         \* bound: nodes that vote with quorum sets of their own

ASSUME LocalNodeAssumption ==
    /\ MaxNode \in Nat \ {0} /\ MaxNesting \in 0..4 /\ MaxInner \in {1, 2}
    /\ MaxFlat \in 2..MaxNode

Node == 1..MaxNode

QSet(t, v, inner) == [threshold |-> t, validators |-> v, innerSets |-> inner]
Entries(q) == Cardinality(q.validators) + Cardinality(q.innerSets)

MAXIMUM_QUORUM_NESTING_LEVEL == 4
UINT32_MAX == 7    \* bound: where the unsigned counters wrap

\* buildSingletonQSet
SingletonQSet(n) == QSet(1, {n}, {})

-----------------------------------------------------------------------------
(* LocalNode.cpp                                                           *)

\* forAllNodes: the nodes it visits.
RECURSIVE NodesOf(_)
NodesOf(q) == q.validators \cup UNION {NodesOf(i) : i \in q.innerSets}

\* thresholdLeft after k decrements of an unsigned counter.
LeftAfter(t, k) == (t - k) % (UINT32_MAX + 1)

RECURSIVE SliceOffByOne(_, _)
SliceOffByOne(q, S) ==
    Cardinality(q.validators \cap S)
        + Cardinality({i \in q.innerSets : SliceOffByOne(i, S)}) >= q.threshold - 1

\* isQuorumSliceInternal: the entries that are met count thresholdLeft down to
\* 0.  A threshold of 0 wraps around at the first one and is never met.
RECURSIVE isQuorumSliceInternal(_, _)
isQuorumSliceInternal(q, S) ==
    LET met == Cardinality(q.validators \cap S)
                  + Cardinality({i \in q.innerSets : isQuorumSliceInternal(i, S)})
    IN  \E k \in 1..met : LeftAfter(q.threshold, k) = 0

RECURSIVE VBlockingShort(_, _)
VBlockingShort(q, S) ==
    /\ q.threshold # 0
    /\ Cardinality(q.validators \cap S)
          + Cardinality({i \in q.innerSets : VBlockingShort(i, S)}) >= Entries(q) - q.threshold

\* isVBlockingInternal: the entries that are blocked count leftTillBlock down.
RECURSIVE isVBlockingInternal(_, _)
isVBlockingInternal(q, S) ==
    LET blocked == Cardinality(q.validators \cap S)
                      + Cardinality({i \in q.innerSets : isVBlockingInternal(i, S)})
        leftTillBlock == 1 + Entries(q) - q.threshold
    IN  /\ q.threshold # 0
        /\ blocked > 0 /\ blocked >= leftTillBlock

\* The first k nodes of S in the order of their ids.
FirstNodes(S, k) == {n \in S : Cardinality({m \in S : m < n}) < k}

LargestFirst(sets, k) ==
    CHOOSE chosen \in SUBSET sets :
        /\ Cardinality(chosen) = k
        /\ \A c \in chosen, o \in sets \ chosen : Cardinality(o) <= Cardinality(c)

\* The first k entries of resInternals, a multiset ordered by size.
SmallestFirst(sets, k) ==
    CHOOSE chosen \in SUBSET sets :
        /\ Cardinality(chosen) = k
        /\ \A c \in chosen, o \in sets \ chosen : Cardinality(c) <= Cardinality(o)

\* findClosestVBlocking without an excluded node: nodes to take away from S so
\* that what is left is blocked, none if it is blocked already.  Top level
\* validators are taken first, then the cheapest inner sets.
RECURSIVE findClosestVBlocking(_, _)
findClosestVBlocking(q, S) ==
    LET inner == {findClosestVBlocking(i, S) : i \in q.innerSets} \ {{}}
        failed == Cardinality(q.validators \ S) + Cardinality(q.innerSets) - Cardinality(inner)
        left == 1 + Entries(q) - q.threshold - failed
        res == FirstNodes(q.validators \cap S, left)
        more == left - Cardinality(res)
        avail == Cardinality(inner)
    IN  IF left <= 0 THEN {}
        ELSE res \cup UNION SmallestFirst(inner, IF more <= avail THEN more ELSE avail)

-----------------------------------------------------------------------------
(* QuorumSetUtils.cpp                                                      *)

MajorityOffByOne(q, depth, extraChecks) ==
    /\ depth <= MAXIMUM_QUORUM_NESTING_LEVEL
    /\ q.threshold >= 1 /\ q.threshold <= Entries(q)
    /\ extraChecks => q.threshold >= Entries(q) - q.threshold

\* One level of checkSanity, without the nodes seen so far.
SaneLevel(q, depth, extraChecks) ==
    /\ depth <= MAXIMUM_QUORUM_NESTING_LEVEL
    /\ q.threshold >= 1 /\ q.threshold <= Entries(q)
    /\ extraChecks => q.threshold >= Entries(q) - q.threshold + 1

\* No node occurs twice (mKnownNodes).
DistinctNodes(q) ==
    /\ q.validators \cap UNION {NodesOf(i) : i \in q.innerSets} = {}
    /\ \A i, j \in q.innerSets : i # j => NodesOf(i) \cap NodesOf(j) = {}

RECURSIVE checkSanity(_, _, _)
checkSanity(q, depth, extraChecks) ==
    /\ SaneLevel(q, depth, extraChecks)
    /\ DistinctNodes(q)
    /\ \A i \in q.innerSets : checkSanity(i, depth + 1, extraChecks)

isQuorumSetSane(q, extraChecks) ==
    checkSanity(q, 0, extraChecks) /\ Cardinality(NodesOf(q)) \in 1..1000

IsSingleton(q) ==
    q.threshold = 1 /\ Cardinality(q.validators) = 1 /\ q.innerSets = {}

DropsValidators(q) == q.threshold = 1 /\ Cardinality(q.innerSets) = 1

\* {t: 1, {innerSet}}
IsWrapper(q) == q.threshold = 1 /\ q.validators = {} /\ Cardinality(q.innerSets) = 1

\* normalizeQSetSimplify without a node to remove: singleton inner sets become
\* validators, a wrapper becomes what it wraps.
RECURSIVE normalizeQSetSimplify(_)
normalizeQSetSimplify(q) ==
    LET inner == {normalizeQSetSimplify(i) : i \in q.innerSets}
        single == {i \in inner : IsSingleton(i)}
        r == QSet(q.threshold, q.validators \cup UNION {i.validators : i \in single},
                  inner \ single)
    IN  IF IsWrapper(r) THEN CHOOSE i \in r.innerSets : TRUE ELSE r

-----------------------------------------------------------------------------
(* LocalNode::isQuorum.                                                    *)

VARIABLES
    qSets,    \* [Node -> quorum set], what qfun finds
    filtered, \* the nodes the filter lets through
    pNodes,   \* those that are left
    result    \* what isQuorum returned for node 1

vars == <<qSets, filtered, pNodes, result>>

\* The sane quorum sets of these nodes with at most d levels of inner sets.
RECURSIVE SaneQSets(_, _)
SaneQSets(nodes, d) ==
    LET below == IF d = 0 THEN {} ELSE SaneQSets(nodes, d - 1)
        inner == {{}} \cup {{i} : i \in below}
                    \cup (IF MaxInner = 2
                          THEN {{p[1], p[2]} : p \in {x \in below \X below :
                                   NodesOf(x[1]) \cap NodesOf(x[2]) = {}}}
                          ELSE {})
    IN  {q \in UNION {{QSet(t, v, i) : t \in 1..MaxNode, v \in SUBSET (nodes \ UNION {NodesOf(x) : x \in i})}
                         : i \in inner} : isQuorumSetSane(q, FALSE)}

\* The other nodes count with the quorum set that holds only themselves, as
\* after EXTERNALIZE, and node 1 has some nested quorum set.
AllExternalized ==
    \E mine \in SaneQSets(Node, MaxNesting) :
        qSets = [n \in Node |-> IF n = 1 THEN mine ELSE SingletonQSet(n)]

\* Node 1 and the next ones have flat quorum sets of their own.
SomeVoting ==
    \E mine \in SaneQSets(1..MaxFlat, 0), others \in [2..MaxFlat -> SaneQSets(1..MaxFlat, 0)] :
        qSets = [n \in Node |-> IF n = 1 THEN mine
                                ELSE IF n <= MaxFlat THEN others[n] ELSE SingletonQSet(n)]

Init ==
    /\ AllExternalized \/ SomeVoting
    /\ filtered \in SUBSET Node
    /\ pNodes = filtered
    /\ result = "none"

MeetingSlices == {n \in pNodes : isQuorumSliceInternal(qSets[n], pNodes)}

FilterOnce ==
    /\ result = "none"
    /\ pNodes' = MeetingSlices
    /\ result' = IF isQuorumSliceInternal(qSets[1], pNodes') THEN "yes" ELSE "no"
    /\ UNCHANGED <<qSets, filtered>>

\* One pass of the loop; the pass that removes nothing ends it.
Filter ==
    /\ result = "none"
    /\ pNodes' = MeetingSlices
    /\ result' = IF Cardinality(pNodes') # Cardinality(pNodes) THEN "none"
                 ELSE IF isQuorumSliceInternal(qSets[1], pNodes') THEN "yes" ELSE "no"
    /\ UNCHANGED <<qSets, filtered>>

\* isQuorum returned.
Done == result # "none" /\ UNCHANGED vars

Next == Filter \/ Done
Spec == Init /\ [][Next]_vars

-----------------------------------------------------------------------------
(* Properties.                                                             *)

\* Choices of threshold entries, one slice for each: what a quorum set means.
RECURSIVE SlicesOf(_)
SlicesOf(q) ==
    LET entry == {{{n}} : n \in q.validators} \cup {SlicesOf(i) : i \in q.innerSets}
    IN  UNION {{UNION {f[e] : e \in E} : f \in {g \in [E -> UNION E] : \A e \in E : g[e] \in e}}
                  : E \in {X \in SUBSET entry : Cardinality(X) = q.threshold}}

Q == INSTANCE Quorums WITH Node <- Node, Slices <- [n \in Node |-> SlicesOf(qSets[n])]

\* isQuorumSlice counts thresholds exactly where some slice of the quorum set
\* is contained in the nodes.
SliceMatches == isQuorumSliceInternal(qSets[1], filtered) <=> Q!isQuorumSlice(1, filtered)

\* isVBlocking counts exactly where every slice meets the nodes.
VBlockingMatches == isVBlockingInternal(qSets[1], filtered) <=> Q!isVBlocking(1, filtered)

\* What the loop of isQuorum returns is whether some quorum among the filtered
\* nodes contains a slice of node 1, however many passes it takes.
QuorumMatches == result # "none" => (result = "yes" <=> Q!isQuorum(1, filtered, {}))

\* findClosestVBlocking returns nodes of the set whose failure blocks the
\* quorum set, and no smaller set of failures does.
ClosestIsClosest ==
    LET closest == findClosestVBlocking(qSets[1], filtered)
        Blocks(F) == Q!isVBlocking(1, (Node \ filtered) \cup F)
    IN  /\ closest \subseteq filtered
        /\ Blocks(closest)
        /\ \A F \in SUBSET filtered : Blocks(F) => Cardinality(closest) <= Cardinality(F)

\* normalizeQSet changes the form of a quorum set and not its slices, and
\* normalizing twice changes nothing more: equal quorum sets get equal hashes.
NormalizeKeepsSlices ==
    LET q == normalizeQSetSimplify(qSets[1])
    IN  /\ SlicesOf(q) = SlicesOf(qSets[1])
        /\ normalizeQSetSimplify(q) = q
        /\ isQuorumSetSane(q, FALSE)

\* A quorum set that passes the extra checks ("Threshold is lower than the
\* v-blocking size") has no two disjoint slices.
ExtraChecksIntersect ==
    isQuorumSetSane(qSets[1], TRUE) =>
        \A s1, s2 \in SlicesOf(qSets[1]) : s1 \cap s2 # {}
=============================================================================
