-------------------------- MODULE CustomConsensus --------------------------
(***************************************************************************)
(* The PROPOSE / PREPARE / COMMIT protocol that this fork adds to the      *)
(* overlay (overlay/OverlayManagerImpl.cpp), and the COLLECT / SEND / ECHO *)
(* / READY exchange by which prepared values are gathered.                 *)
(*                                                                         *)
(* Every process keeps its state in file-scope variables of                *)
(* OverlayManagerImpl.cpp; here each is a function from Node.  g_txn, the  *)
(* map from (view, blockHash) to TxnState, is kept field by field: a flag  *)
(* of TxnState is the set of keys for which it is set, a set of voters is  *)
(* a set of <<key, voter>> pairs.                                          *)
(***************************************************************************)
EXTENDS Integers, Sequences, FiniteSets

CONSTANTS
    Node,     \* the processes
    Network   \* the networks considered, and how far each is followed

(***************************************************************************)
(* A network: its processes, those configured with SEND_CUSTOM_MESSAGE,    *)
(* those a client sends COLLECT requests to, and the bounds: whether the   *)
(* client asks only while no votes are in flight (calm), blocks each       *)
(* process creates (txn_count), views whose proposals are made and handled *)
(* (currentView) and connections lost in a behaviour.                      *)
(***************************************************************************)
ASSUME ConstantsAssumption ==
    /\ IsFiniteSet(Node)
    /\ Network \subseteq
         [nodes : SUBSET Node, proposers : SUBSET Node, collects : SUBSET Node,
          calm : BOOLEAN, maxTxn : [Node -> Nat], maxView : Nat, maxDrop : Nat]

(***************************************************************************)
(* makeBlock hashes the transaction count and the hash of the previous     *)
(* block.  SHA-256 is taken as injective, so a block is the sequence of    *)
(* transaction counts of its chain and Hash() is the empty chain.          *)
(***************************************************************************)
ZeroHash == <<>>
BlockWithoutPrevious(prev, txnCount) == <<txnCount>>
makeBlock(prev, txnCount) == Append(prev, txnCount)

VARIABLES
    net,                   \* the network, chosen once
    currentView,           \* [Node -> view]
    latestCommittedView,   \* [Node -> view]
    latestCommittedBlock,  \* [Node -> block]
    txn_count,             \* [Node -> Nat]
    preparedSent,          \* [Node -> set of keys], TxnState::preparedSent
    prepareVoters,         \* [Node -> set of <<key, voter>>]
    commitSent,            \* [Node -> set of keys], commitView = view of the key
    commitVoters,          \* [Node -> set of <<key, voter>>]
    committed,             \* [Node -> set of keys], committedView = view of the key
    gather,                \* [Node -> state of the COLLECT exchange]
    told,                  \* [Node -> set of <<message, peer>>], Floodgate records
    peers,                 \* [Node -> authenticated peers]
    chan,                  \* [Node -> [Node -> sequence of messages in flight]]
    drops                  \* connections lost so far

committing == <<currentView, latestCommittedView, latestCommittedBlock>>
ballots == <<preparedSent, prepareVoters, commitSent, commitVoters, committed>>
network == <<net, told, peers, chan, drops>>
vars == <<committing, txn_count, ballots, gather, network>>

Key(m) == <<m.view, m.block>>
VoteMsg(type, view, block) == [type |-> type, view |-> view, block |-> block]
\* SEND, ECHO and READY leave blockHash at its default, so their TxnState is
\* the one of (view, Hash()): only the view tells those states apart.
GatherMsg(type, view, vb, origin) ==
    [type |-> type, view |-> view, vb |-> vb, origin |-> origin]

Voters(votes, key) == {v \in Node : <<key, v>> \in votes}

TwoF(n) == 2 * (Cardinality(peers[n]) \div 3)

\* size_t N = getAuthenticatedPeersCount() + 1; size_t f = (N - 1) / 3;
F(n) == Cardinality(peers[n]) \div 3
TwoFPlusOne(n) == 2 * F(n) + 1

Init ==
    /\ net \in Network
    /\ currentView = [n \in Node |-> 1]
    /\ latestCommittedView = [n \in Node |-> 0]
    /\ latestCommittedBlock = [n \in Node |-> ZeroHash]
    /\ txn_count = [n \in Node |-> 0]
    /\ preparedSent = [n \in Node |-> {}]
    /\ prepareVoters = [n \in Node |-> {}]
    /\ commitSent = [n \in Node |-> {}]
    /\ commitVoters = [n \in Node |-> {}]
    /\ committed = [n \in Node |-> {}]
    /\ gather = [n \in Node |-> [eSent |-> {}, rSent |-> {}, echoes |-> {},
                                 readies |-> {}, collection |-> {}]]
    /\ told = [n \in Node |-> {}]
    /\ peers = [n \in Node |-> IF n \in net.nodes THEN net.nodes \ {n} ELSE {}]
    /\ chan = [n \in Node |-> [m \in Node |-> <<>>]]
    /\ drops = 0

-----------------------------------------------------------------------------
(* Network: Floodgate::broadcast over ordered connections.                 *)

\* chan after n broadcasts msg: it goes to every authenticated peer that the
\* flood record of msg does not name yet; never to n itself.
Broadcasted(ch, n, msg) ==
    [ch EXCEPT ![n] = [p \in Node |->
        IF p \in peers[n] /\ <<msg, p>> \notin told[n]
        THEN Append(@[p], msg) ELSE @[p]]]

Tell(n, msg) == told' = [told EXCEPT ![n] = @ \cup {<<msg, p>> : p \in peers[n]}]

Popped(from, n) == [chan EXCEPT ![from][n] = Tail(@)]

\* n handles the first message of its connection with `from` and broadcasts
\* msg, or nothing.
Consume(from, n) == chan' = Popped(from, n) /\ UNCHANGED <<net, told, peers, drops>>
ConsumeAndSend(from, n, msg) ==
    /\ chan' = Broadcasted(Popped(from, n), n, msg)
    /\ Tell(n, msg)
    /\ UNCHANGED <<net, peers, drops>>

\* The first message in flight from `from` to n is a message of this type.
Arrives(from, n, type) ==
    /\ chan[from][n] # <<>>
    /\ Head(chan[from][n]).type = type

-----------------------------------------------------------------------------
(* Proposing, preparing and committing a block.                            *)

\* OverlayManagerImpl::tick on a process with SEND_CUSTOM_MESSAGE.  Nothing
\* remembers that a block was already proposed in this view.
CanTick(n) ==
    /\ n \in net.proposers
    /\ txn_count[n] < net.maxTxn[n] /\ currentView[n] <= net.maxView
    /\ latestCommittedView[n] = currentView[n] - 1
Tick(n) ==
    /\ CanTick(n)
    /\ LET msg == VoteMsg("PROPOSE", currentView[n],
                          makeBlock(latestCommittedBlock[n], txn_count[n]))
       IN  chan' = Broadcasted(chan, n, msg) /\ Tell(n, msg)
    /\ txn_count' = [txn_count EXCEPT ![n] = @ + 1]
    /\ UNCHANGED <<committing, ballots, gather, net, peers, drops>>

\* case CUSTOM_PROPOSE
CanPrepare(n, m) ==
    /\ m.view = currentView[n]
    /\ Key(m) \notin preparedSent[n]
    /\ latestCommittedView[n] = m.view - 1

PrepareWithoutOwnVote(from, n) ==
    /\ Arrives(from, n, "PROPOSE")
    /\ LET m == Head(chan[from][n]) IN
       IF CanPrepare(n, m)
       THEN /\ preparedSent' = [preparedSent EXCEPT ![n] = @ \cup {Key(m)}]
            /\ ConsumeAndSend(from, n, VoteMsg("PREPARE", m.view, m.block))
       ELSE /\ Consume(from, n)
            /\ UNCHANGED preparedSent
    /\ UNCHANGED <<committing, txn_count, prepareVoters, commitSent, commitVoters, committed, gather>>

RecvPropose(from, n) ==
    /\ Arrives(from, n, "PROPOSE")
    /\ Head(chan[from][n]).view <= net.maxView
    /\ LET m == Head(chan[from][n]) IN
       IF CanPrepare(n, m)
       THEN /\ preparedSent' = [preparedSent EXCEPT ![n] = @ \cup {Key(m)}]
            /\ prepareVoters' = [prepareVoters EXCEPT ![n] = @ \cup {<<Key(m), n>>}]
            /\ ConsumeAndSend(from, n, VoteMsg("PREPARE", m.view, m.block))
       ELSE /\ Consume(from, n)
            /\ UNCHANGED <<preparedSent, prepareVoters>>
    /\ UNCHANGED <<committing, txn_count, commitSent, commitVoters, committed, gather>>

\* case CUSTOM_PREPARE
RecvPrepare(from, n) ==
    /\ Arrives(from, n, "PREPARE")
    /\ LET m == Head(chan[from][n])
           votes == prepareVoters[n] \cup {<<Key(m), from>>} IN
       IF /\ Cardinality(Voters(votes, Key(m))) >= TwoFPlusOne(n)
          /\ Key(m) \notin commitSent[n]
       THEN /\ commitSent' = [commitSent EXCEPT ![n] = @ \cup {Key(m)}]
            /\ prepareVoters' = [prepareVoters EXCEPT ![n] = votes \cup {<<Key(m), n>>}]
            /\ ConsumeAndSend(from, n, VoteMsg("COMMIT", m.view, m.block))
       ELSE /\ prepareVoters' = [prepareVoters EXCEPT ![n] = votes]
            /\ Consume(from, n)
            /\ UNCHANGED commitSent
    /\ UNCHANGED <<committing, txn_count, preparedSent, commitVoters, committed, gather>>

\* case CUSTOM_COMMIT: amplify a commit that f+1 processes vouch for, then
\* commit on 2f+1.  The committed view replaces latestCommittedView whatever
\* the latter is.
RecvCommit(from, n) ==
    /\ Arrives(from, n, "COMMIT")
    /\ LET m == Head(chan[from][n])
           received == commitVoters[n] \cup {<<Key(m), from>>}
           amplify == /\ Cardinality(Voters(received, Key(m))) >= F(n) + 1
                      /\ Key(m) \notin commitSent[n]
           votes == IF amplify THEN received \cup {<<Key(m), n>>} ELSE received
           commit == /\ Cardinality(Voters(votes, Key(m))) >= TwoFPlusOne(n)
                     /\ Key(m) \notin committed[n] IN
       /\ commitVoters' = [commitVoters EXCEPT ![n] = votes]
       /\ IF amplify
          THEN /\ commitSent' = [commitSent EXCEPT ![n] = @ \cup {Key(m)}]
               /\ ConsumeAndSend(from, n, VoteMsg("COMMIT", m.view, m.block))
          ELSE Consume(from, n) /\ UNCHANGED commitSent
       /\ IF commit
          THEN /\ committed' = [committed EXCEPT ![n] = @ \cup {Key(m)}]
               /\ latestCommittedView' = [latestCommittedView EXCEPT ![n] = m.view]
               /\ latestCommittedBlock' = [latestCommittedBlock EXCEPT ![n] = m.block]
               /\ currentView' = [currentView EXCEPT ![n] = m.view + 1]
          ELSE UNCHANGED <<committed, committing>>
    /\ UNCHANGED <<txn_count, preparedSent, prepareVoters, gather>>

-----------------------------------------------------------------------------
(* Gathering prepared values.                                              *)

\* What n prepared under the key: TxnState::preparedView and preparedBlock.
Prepared(n, key) == IF key \in preparedSent[n] THEN key ELSE <<0, ZeroHash>>

VotesInFlight ==
    \E from, to \in net.nodes : \E i \in DOMAIN chan[from][to] :
        chan[from][to][i].type \in {"PROPOSE", "PREPARE", "COMMIT"}

\* case CUSTOM_COLLECT.  No code of the repository sends COLLECT: the request
\* comes from a client and names a key the processes know of.
RecvCollect(n, key) ==
    /\ n \in net.collects
    /\ net.calm => ~VotesInFlight
    /\ LET msg == GatherMsg("SEND", key[1], Prepared(n, key), n)
       IN  chan' = Broadcasted(chan, n, msg) /\ Tell(n, msg)
    /\ UNCHANGED <<committing, txn_count, ballots, gather, net, peers, drops>>

EchoAsOrigin(from, n) ==
    /\ Arrives(from, n, "SEND")
    /\ LET m == Head(chan[from][n]) IN
       IF <<m.view, m.vb>> \notin gather[n].eSent
       THEN /\ gather' = [gather EXCEPT ![n].eSent = @ \cup {<<m.view, m.vb>>}]
            /\ ConsumeAndSend(from, n, GatherMsg("ECHO", m.view, m.vb, n))
       ELSE Consume(from, n) /\ UNCHANGED gather
    /\ UNCHANGED <<committing, txn_count, ballots>>

\* case CUSTOM_SEND: echo a value once, whoever its origin is.
RecvSend(from, n) ==
    /\ Arrives(from, n, "SEND")
    /\ LET m == Head(chan[from][n]) IN
       IF <<m.view, m.vb>> \notin gather[n].eSent
       THEN /\ gather' = [gather EXCEPT ![n].eSent = @ \cup {<<m.view, m.vb>>}]
            /\ ConsumeAndSend(from, n, GatherMsg("ECHO", m.view, m.vb, m.origin))
       ELSE Consume(from, n) /\ UNCHANGED gather
    /\ UNCHANGED <<committing, txn_count, ballots>>

\* The processes that echoed (or readied) vb in this view.
Backers(heard, view, vb) == {p \in Node : <<view, vb, p>> \in heard}

\* case CUSTOM_ECHO
RecvEcho(from, n) ==
    /\ Arrives(from, n, "ECHO")
    /\ LET m == Head(chan[from][n])
           heard == gather[n].echoes \cup {<<m.view, m.vb, from>>} IN
       IF /\ Cardinality(Backers(heard, m.view, m.vb)) >= TwoFPlusOne(n)
          /\ <<m.view, m.vb>> \notin gather[n].rSent
       THEN /\ gather' = [gather EXCEPT ![n].echoes = heard,
                                        ![n].rSent = @ \cup {<<m.view, m.vb>>}]
            /\ ConsumeAndSend(from, n, GatherMsg("READY", m.view, m.vb, m.origin))
       ELSE /\ gather' = [gather EXCEPT ![n].echoes = heard]
            /\ Consume(from, n)
    /\ UNCHANGED <<committing, txn_count, ballots>>

\* maxPreparedFromCollection: a prepared block of the highest view; between
\* equal views the order of the hash map decides.
MaxPrepared(reports) ==
    LET best == {vb \in reports : \A other \in reports : other[1] <= vb[1]}
    IN  IF \A vb \in reports : vb[1] = 0 THEN {ZeroHash} ELSE {vb[2] : vb \in best}

\* case CUSTOM_READY.  The test for being the leader compares the process
\* with itself, so every process that gathers enough origins proposes, again
\* at every further READY.
RecvReady(from, n) ==
    /\ Arrives(from, n, "READY")
    /\ LET m == Head(chan[from][n])
           heard == gather[n].readies \cup {<<m.view, m.vb, from>>}
           delivered == Cardinality(Backers(heard, m.view, m.vb)) >= TwoFPlusOne(n)
           kept == {c \in gather[n].collection : c[1] # m.view \/ c[2] # m.origin}
           collection == IF delivered THEN kept \cup {<<m.view, m.origin, m.vb>>}
                                      ELSE gather[n].collection
           reports == {c \in collection : c[1] = m.view}
           propose == delivered /\ Cardinality(reports) >= TwoFPlusOne(n) IN
       /\ gather' = [gather EXCEPT ![n].readies = heard, ![n].collection = collection]
       /\ IF propose
          THEN /\ txn_count[n] < net.maxTxn[n]
               /\ txn_count' = [txn_count EXCEPT ![n] = @ + 1]
               /\ \E block \in MaxPrepared({c[3] : c \in reports}) :
                     ConsumeAndSend(from, n, VoteMsg("PROPOSE", currentView[n],
                                                     makeBlock(block, txn_count[n])))
          ELSE Consume(from, n) /\ UNCHANGED txn_count
    /\ UNCHANGED <<committing, ballots>>

-----------------------------------------------------------------------------
(* Connections.                                                            *)

\* A connection is lost with what is in flight on it: N and f shrink.
Drop(a, b) ==
    /\ drops < net.maxDrop
    /\ b \in peers[a]
    /\ peers' = [peers EXCEPT ![a] = @ \ {b}, ![b] = @ \ {a}]
    /\ chan' = [chan EXCEPT ![a][b] = <<>>, ![b][a] = <<>>]
    /\ drops' = drops + 1
    /\ UNCHANGED <<committing, txn_count, ballots, gather, net, told>>

\* Peers authenticate again; what was broadcast before is not sent again.
Reconnect(a, b) ==
    /\ {a, b} \subseteq net.nodes /\ a # b /\ b \notin peers[a]
    /\ peers' = [peers EXCEPT ![a] = @ \cup {b}, ![b] = @ \cup {a}]
    /\ UNCHANGED <<committing, txn_count, ballots, gather, net, told, chan, drops>>

\* recvCustomMessage on the next message of a connection.
recvCustomMessage(from, n) ==
    \/ RecvPropose(from, n)
    \/ RecvPrepare(from, n)
    \/ RecvCommit(from, n)
    \/ RecvSend(from, n)
    \/ RecvEcho(from, n)
    \/ RecvReady(from, n)

Next ==
    \/ \E n \in Node : Tick(n)
    \/ \E from, n \in Node :
          \/ recvCustomMessage(from, n)
          \/ Drop(from, n)
          \/ Reconnect(from, n)
    \/ \E n, m \in Node : \E key \in preparedSent[m] : RecvCollect(n, key)

Spec == Init /\ [][Next]_vars

\* A proposer is to propose again at its next tick, or a message is in flight.
WorkLeft ==
    \/ \E n \in net.proposers : CanTick(n)
    \/ \E from, n \in net.nodes : chan[from][n] # <<>>

\* The tick timer fires again and again and a connection that stays up delivers
\* what is sent on it: work that is left is eventually followed by a step.
\* Proposals are bounded and every other step takes a message away, so in a
\* network without a client all the work gets done.
FairSpec == Spec /\ (<>[]WorkLeft => []<><<TRUE>>_vars)
-----------------------------------------------------------------------------
(* Properties.                                                             *)

\* The processes that prepared the block of this key.
Preparers(key) == {p \in Node : key \in preparedSent[p]}

\* A process commits a block (case CUSTOM_COMMIT) only if 2f+1 processes
\* prepared it, even when its own commit was amplified from f+1 others.  (This
\* holds while every connection stays up: N and f are those of the moment, and a
\* lost connection lowers the threshold the votes are counted against.)
CommitCertified ==
    \A n \in Node : \A key \in committed[n] :
        Cardinality(Preparers(key)) >= 2 * ((Cardinality(net.nodes) - 1) \div 3) + 1

\* A block committed in view v extends a block that some process committed in
\* view v-1: proposals of tick extend latestCommittedBlock.  (A proposal made
\* after COLLECT extends a block that need only be prepared.)
CommittedExtendsCommitted ==
    \A n \in Node : \A key \in committed[n] :
        net.collects = {} /\ key[1] > 1 => \E m \in Node :
            <<key[1] - 1, SubSeq(key[2], 1, Len(key[2]) - 1)>> \in committed[m]

\* What a process collects for an origin (case CUSTOM_READY) is what that
\* process had prepared, or nothing, although values are echoed once for all
\* their origins.
CollectedWasPrepared ==
    \A n \in Node : \A c \in gather[n].collection :
        c[3] \in preparedSent[c[2]] \cup {<<0, ZeroHash>>}

\* While every connection stays up and no client interferes, every process
\* commits a block: the PREPAREs of the processes other than the proposer are
\* enough for 2f+1.
EventuallyCommits ==
    net.maxDrop = 0 /\ net.collects = {} => <>(\A n \in net.nodes : committed[n] # {})
=============================================================================
