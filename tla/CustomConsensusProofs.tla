----------------------- MODULE CustomConsensusProofs -----------------------
(***************************************************************************)
(* For every number of processes and any number of proposals, views, lost  *)
(* connections and collecting clients: what is collected was prepared and, *)
(* while no connection is lost, a block is committed only if 2f+1          *)
(* processes prepared it.                                                  *)
(***************************************************************************)
EXTENDS CustomConsensus, FiniteSetTheorems, TLAPS

\* What is reported of a process is what it prepared, or nothing.
Reported(prepared, origin, vb) ==
    origin \in Node /\ vb \in prepared[origin] \cup {<<0, ZeroHash>>}

\* A message that `from` may have sent when these are the keys the processes
\* prepared and voted to commit.
Honest(prepared, commits, from, m) ==
    /\ m.type = "PREPARE" => Key(m) \in prepared[from]
    /\ m.type = "COMMIT" => Key(m) \in commits[from]
    /\ m.type \in {"SEND", "ECHO", "READY"} => Reported(prepared, m.origin, m.vb)

HonestChan(ch, prepared, commits) ==
    /\ ch = [a \in Node |-> ch[a]]
    /\ \A a \in Node :
          \E Sent : /\ \A m \in Sent : Honest(prepared, commits, a, m)
                    /\ ch[a] \in [Node -> Seq(Sent)]

IsTable(f) == f = [n \in Node |-> f[n]]

GatherShape ==
    /\ IsTable(gather)
    /\ \A n \in Node : "collection" \in DOMAIN gather[n]

Collected ==
    \A n \in Node : \A c \in gather[n].collection : Reported(preparedSent, c[2], c[3])

\* The inductive invariant on what is said of others, with or without lost
\* connections.
Truth ==
    /\ IsTable(preparedSent) /\ IsTable(commitSent) /\ GatherShape
    /\ HonestChan(chan, preparedSent, commitSent) /\ Collected

\* No connection was lost.
FullMesh ==
    /\ net \in Network
    /\ peers = [n \in Node |-> IF n \in net.nodes THEN net.nodes \ {n} ELSE {}]

\* Messages are under way to processes of the network only.
Addressed(ch) == \A a, b \in Node : ch[a][b] # <<>> => b \in net.nodes

\* A counted PREPARE was sent; a process counts itself when it commits.
VotersPrepared ==
    \A n, v \in Node : \A key :
        <<key, v>> \in prepareVoters[n] =>
            key \in preparedSent[v] \/ (v = n /\ key \in commitSent[n])

Enough(key) ==
    Cardinality(Preparers(key)) >= 2 * ((Cardinality(net.nodes) - 1) \div 3) + 1

Certified == \A n \in Node : \A key \in commitSent[n] : Enough(key)

CommittedWasSent ==
    \A n \in Node : \A key \in committed[n] : \E m \in Node : key \in commitSent[m]

\* The inductive invariant on certificates while no connection is lost.
Inv ==
    /\ FullMesh /\ Addressed(chan) /\ IsTable(prepareVoters) /\ IsTable(committed)
    /\ VotersPrepared /\ Certified /\ CommittedWasSent

-----------------------------------------------------------------------------
(* Channels.                                                               *)

\* Votes stay honest when a process prepares or commits more.
LEMMA HonestGrows ==
    ASSUME NEW ch, NEW p, NEW c, NEW p2, NEW c2, HonestChan(ch, p, c),
           \A a \in Node : p[a] \subseteq p2[a] /\ c[a] \subseteq c2[a]
    PROVE  HonestChan(ch, p2, c2)
<1> SUFFICES ASSUME NEW a \in Node
             PROVE  \E Sent : /\ \A m \in Sent : Honest(p2, c2, a, m)
                              /\ ch[a] \in [Node -> Seq(Sent)]
  BY DEF HonestChan
<1>1. PICK Sent : /\ \A m \in Sent : Honest(p, c, a, m)
                  /\ ch[a] \in [Node -> Seq(Sent)]
  BY Zenon DEF HonestChan
<1>2. \A m \in Sent : Honest(p2, c2, a, m)
  BY <1>1 DEF Honest, Reported
<1> QED BY <1>1, <1>2

\* The message recvCustomMessage takes from a connection is an honest one, and
\* the ones behind it stay.
LEMMA PopIsHonest ==
    ASSUME NEW p, NEW c, HonestChan(chan, p, c), NEW from \in Node, NEW n \in Node,
           chan[from][n] # <<>>
    PROVE  /\ Honest(p, c, from, Head(chan[from][n]))
           /\ HonestChan(Popped(from, n), p, c)
<1>1. PICK Sent : /\ \A m \in Sent : Honest(p, c, from, m)
                  /\ chan[from] \in [Node -> Seq(Sent)]
  BY Zenon DEF HonestChan
<1>2. Head(chan[from][n]) \in Sent /\ Tail(chan[from][n]) \in Seq(Sent)
  BY <1>1
<1>3. Popped(from, n) = [a \in Node |-> Popped(from, n)[a]]
  BY Zenon DEF HonestChan, Popped
<1>4. Popped(from, n)[from] \in [Node -> Seq(Sent)]
  BY <1>1, <1>2 DEF HonestChan, Popped
<1>5. ASSUME NEW a \in Node, a # from
      PROVE  Popped(from, n)[a] = chan[a]
  BY <1>5 DEF HonestChan, Popped
<1>6. ASSUME NEW a \in Node
      PROVE  \E S : /\ \A m \in S : Honest(p, c, a, m)
                    /\ Popped(from, n)[a] \in [Node -> Seq(S)]
  <2>1. CASE a = from
    BY Zenon, <2>1, <1>1, <1>4
  <2>2. CASE a # from
    BY Zenon, <2>2, <1>5 DEF HonestChan
  <2> QED BY <2>1, <2>2
<1> QED BY Zenon, <1>1, <1>2, <1>3, <1>6 DEF HonestChan

\* A broadcast of an honest message leaves honest channels.
LEMMA BroadcastIsHonest ==
    ASSUME NEW ch, NEW p, NEW c, HonestChan(ch, p, c), NEW n \in Node, NEW msg,
           Honest(p, c, n, msg)
    PROVE  HonestChan(Broadcasted(ch, n, msg), p, c)
<1> DEFINE new == Broadcasted(ch, n, msg)
<1>1. PICK Sent : /\ \A m \in Sent : Honest(p, c, n, m)
                  /\ ch[n] \in [Node -> Seq(Sent)]
  BY DEF HonestChan
<1>2. ch[n] \in [Node -> Seq(Sent \cup {msg})]
  BY <1>1
<1>3. \A b \in Node : Append(ch[n][b], msg) \in Seq(Sent \cup {msg})
  BY <1>2
<1>4. new[n] \in [Node -> Seq(Sent \cup {msg})]
  BY <1>2, <1>3 DEF HonestChan, Broadcasted
<1>5. \A m \in Sent \cup {msg} : Honest(p, c, n, m)
  BY <1>1
<1>6. new = [a \in Node |-> new[a]] /\ \A a \in Node : a # n => new[a] = ch[a]
  BY Zenon DEF HonestChan, Broadcasted
<1>7. ASSUME NEW a \in Node
      PROVE  \E S : (\A m \in S : Honest(p, c, a, m)) /\ new[a] \in [Node -> Seq(S)]
  <2>1. CASE a = n
    BY <2>1, <1>4, <1>5
  <2>2. CASE a # n
    BY Zenon, <2>2, <1>6 DEF HonestChan
  <2> QED BY <2>1, <2>2
<1> QED BY Zenon, <1>6, <1>7 DEF HonestChan

\* What every handler of recvCustomMessage does to the channels.
LEMMA HandlerIsHonest ==
    ASSUME HonestChan(chan, preparedSent, commitSent),
           NEW from \in Node, NEW n \in Node, chan[from][n] # <<>>,
           \A a \in Node : /\ preparedSent[a] \subseteq preparedSent'[a]
                           /\ commitSent[a] \subseteq commitSent'[a],
           \/ Consume(from, n)
           \/ \E msg : /\ ConsumeAndSend(from, n, msg)
                       /\ Honest(preparedSent', commitSent', n, msg)
    PROVE  HonestChan(chan, preparedSent, commitSent)'
<1> DEFINE pop == Popped(from, n)
<1>1. HonestChan(pop, preparedSent, commitSent)
  BY PopIsHonest
<1>2. HonestChan(pop, preparedSent', commitSent')
  BY <1>1, HonestGrows
<1>3. CASE Consume(from, n)
  BY Zenon, <1>2, <1>3 DEF Consume, HonestChan
<1>4. CASE \E msg : /\ ConsumeAndSend(from, n, msg)
                    /\ Honest(preparedSent', commitSent', n, msg)
  <2>1. PICK msg : /\ ConsumeAndSend(from, n, msg)
                   /\ Honest(preparedSent', commitSent', n, msg)
    BY <1>4
  <2>2. HonestChan(Broadcasted(pop, n, msg), preparedSent', commitSent')
    BY <1>2, <2>1, BroadcastIsHonest
  <2> QED BY Zenon, <2>1, <2>2 DEF ConsumeAndSend, HonestChan
<1> QED BY <1>3, <1>4

\* A broadcast outside a handler, tick or the answer to COLLECT.
LEMMA BroadcastKeepsTruth ==
    ASSUME Truth, NEW n \in Node, NEW msg, Honest(preparedSent, commitSent, n, msg),
           chan' = Broadcasted(chan, n, msg), UNCHANGED <<ballots, gather>>
    PROVE  Truth'
<1>1. preparedSent' = preparedSent /\ commitSent' = commitSent
  BY DEF ballots
<1>2. HonestChan(Broadcasted(chan, n, msg), preparedSent, commitSent)
  BY BroadcastIsHonest DEF Truth
<1>3. HonestChan(chan, preparedSent, commitSent)'
  BY Zenon, <1>1, <1>2 DEF HonestChan
<1> QED BY <1>1, <1>3 DEF Truth, IsTable, GatherShape, Collected

\* A handler that leaves the collection as it is.
LEMMA HandlerKeepsTruth ==
    ASSUME Truth, NEW from \in Node, NEW n \in Node, chan[from][n] # <<>>,
           IsTable(preparedSent)', IsTable(commitSent)', GatherShape',
           \A a \in Node : /\ preparedSent[a] \subseteq preparedSent'[a]
                           /\ commitSent[a] \subseteq commitSent'[a]
                           /\ gather'[a].collection = gather[a].collection,
           \/ Consume(from, n)
           \/ \E msg : /\ ConsumeAndSend(from, n, msg)
                       /\ Honest(preparedSent', commitSent', n, msg)
    PROVE  Truth'
<1>1. HonestChan(chan, preparedSent, commitSent)'
  BY HandlerIsHonest DEF Truth
<1>2. Collected'
  BY DEF Truth, Collected, Reported
<1> QED BY <1>1, <1>2 DEF Truth

-----------------------------------------------------------------------------
(* What is said of others is true.                                         *)

LEMMA InitTruth == Init => Truth
<1> SUFFICES ASSUME Init
             PROVE  Truth
  OBVIOUS
<1>1. chan = [a \in Node |-> chan[a]] /\ \A a \in Node : chan[a] \in [Node -> Seq({})]
  BY DEF Init
<1>2. HonestChan(chan, preparedSent, commitSent)
  BY Zenon, <1>1 DEF HonestChan
<1>3. IsTable(preparedSent) /\ IsTable(commitSent) /\ GatherShape /\ Collected
  BY DEF Init, IsTable, GatherShape, Collected
<1> QED BY <1>2, <1>3 DEF Truth

LEMMA VoteTruth ==
    ASSUME Truth, NEW from \in Node, NEW n \in Node,
           RecvPropose(from, n) \/ RecvPrepare(from, n) \/ RecvCommit(from, n)
    PROVE  Truth'
<1> DEFINE m == Head(chan[from][n])
<1>1. chan[from][n] # <<>> /\ gather' = gather
  <2>1. CASE RecvPropose(from, n)
    BY <2>1, Zenon DEF RecvPropose, Arrives
  <2>2. CASE RecvPrepare(from, n)
    BY <2>2, Zenon DEF RecvPrepare, Arrives
  <2>3. CASE RecvCommit(from, n)
    BY <2>3, Zenon DEF RecvCommit, Arrives
  <2> QED BY <2>1, <2>2, <2>3
<1>2. \/ Consume(from, n) /\ preparedSent' = preparedSent /\ commitSent' = commitSent
      \/ /\ preparedSent' = [preparedSent EXCEPT ![n] = @ \cup {Key(m)}]
         /\ commitSent' = commitSent
         /\ ConsumeAndSend(from, n, VoteMsg("PREPARE", m.view, m.block))
      \/ /\ commitSent' = [commitSent EXCEPT ![n] = @ \cup {Key(m)}]
         /\ preparedSent' = preparedSent
         /\ ConsumeAndSend(from, n, VoteMsg("COMMIT", m.view, m.block))
  <2>1. CASE RecvPropose(from, n)
    BY <2>1, Zenon DEF RecvPropose
  <2>2. CASE RecvPrepare(from, n)
    BY <2>2, Zenon DEF RecvPrepare
  <2>3. CASE RecvCommit(from, n)
    BY <2>3, Zenon DEF RecvCommit
  <2> QED BY <2>1, <2>2, <2>3
<1>3. /\ preparedSent' \in {preparedSent, [preparedSent EXCEPT ![n] = @ \cup {Key(m)}]}
      /\ commitSent' \in {commitSent, [commitSent EXCEPT ![n] = @ \cup {Key(m)}]}
  BY <1>2
<1>4. /\ IsTable(preparedSent)' /\ IsTable(commitSent)' /\ GatherShape'
      /\ \A a \in Node : /\ preparedSent[a] \subseteq preparedSent'[a]
                         /\ commitSent[a] \subseteq commitSent'[a]
                         /\ gather'[a].collection = gather[a].collection
  BY <1>1, <1>3 DEF Truth, IsTable, GatherShape
<1>5. \/ Consume(from, n)
      \/ \E msg : /\ ConsumeAndSend(from, n, msg)
                  /\ Honest(preparedSent', commitSent', n, msg)
  <2>1. Key(VoteMsg("PREPARE", m.view, m.block)) = Key(m)
        /\ Key(VoteMsg("COMMIT", m.view, m.block)) = Key(m)
    BY DEF Key, VoteMsg
  <2>2. ASSUME preparedSent' = [preparedSent EXCEPT ![n] = @ \cup {Key(m)}]
        PROVE  Honest(preparedSent', commitSent', n, VoteMsg("PREPARE", m.view, m.block))
    <3>1. Key(m) \in preparedSent'[n]
      BY <2>2 DEF Truth, IsTable
    <3> QED BY <2>1, <3>1 DEF Honest, VoteMsg
  <2>3. ASSUME commitSent' = [commitSent EXCEPT ![n] = @ \cup {Key(m)}]
        PROVE  Honest(preparedSent', commitSent', n, VoteMsg("COMMIT", m.view, m.block))
    <3>1. Key(m) \in commitSent'[n]
      BY <2>3 DEF Truth, IsTable
    <3> QED BY <2>1, <3>1 DEF Honest, VoteMsg
  <2> QED BY <1>2, <2>2, <2>3, Zenon
<1> QED BY <1>1, <1>4, <1>5, HandlerKeepsTruth

\* SEND and ECHO: what is passed on was reported to the process.
LEMMA EchoTruth ==
    ASSUME Truth, NEW from \in Node, NEW n \in Node,
           RecvSend(from, n) \/ RecvEcho(from, n)
    PROVE  Truth'
<1> DEFINE m == Head(chan[from][n])
<1>1. /\ chan[from][n] # <<>> /\ preparedSent' = preparedSent /\ commitSent' = commitSent
      /\ m.type \in {"SEND", "ECHO"}
  BY Zenon DEF RecvSend, RecvEcho, Arrives, ballots
<1>2. Reported(preparedSent, m.origin, m.vb)
  BY <1>1, PopIsHonest DEF Truth, Honest
<1>3. \/ Consume(from, n)
      \/ \E type \in {"ECHO", "READY"} :
            ConsumeAndSend(from, n, GatherMsg(type, m.view, m.vb, m.origin))
  BY Zenon DEF RecvSend, RecvEcho
<1>4. \/ Consume(from, n)
      \/ \E msg : /\ ConsumeAndSend(from, n, msg)
                  /\ Honest(preparedSent', commitSent', n, msg)
  BY <1>1, <1>2, <1>3 DEF Honest, GatherMsg
<1>5. GatherShape' /\ \A a \in Node : gather'[a].collection = gather[a].collection
  <2>1. CASE RecvSend(from, n)
    BY <2>1 DEF RecvSend, Truth, GatherShape, IsTable
  <2>2. CASE RecvEcho(from, n)
    <3>1. PICK heard, ready :
            \/ gather' = [gather EXCEPT ![n].echoes = heard, ![n].rSent = ready]
            \/ gather' = [gather EXCEPT ![n].echoes = heard]
      BY Zenon, <2>2 DEF RecvEcho
    <3>2. CASE gather' = [gather EXCEPT ![n].echoes = heard, ![n].rSent = ready]
      BY Zenon, <3>2 DEF Truth, GatherShape, IsTable
    <3>3. CASE gather' = [gather EXCEPT ![n].echoes = heard]
      BY <3>3 DEF Truth, GatherShape, IsTable
    <3> QED BY <3>1, <3>2, <3>3
  <2> QED BY <2>1, <2>2
<1> QED BY Zenon, <1>1, <1>4, <1>5, HandlerKeepsTruth DEF Truth, IsTable

\* READY: what is collected for an origin was reported of it.
LEMMA ReadyTruth ==
    ASSUME Truth, NEW from \in Node, NEW n \in Node, RecvReady(from, n)
    PROVE  Truth'
<1> DEFINE m == Head(chan[from][n])
<1>1. /\ chan[from][n] # <<>> /\ preparedSent' = preparedSent /\ commitSent' = commitSent
      /\ m.type = "READY"
  BY Zenon DEF RecvReady, Arrives, ballots
<1>2. Reported(preparedSent, m.origin, m.vb)
  BY <1>1, PopIsHonest DEF Truth, Honest
<1>3. \/ Consume(from, n)
      \/ \E block : ConsumeAndSend(from, n, VoteMsg("PROPOSE", currentView[n],
                                                    makeBlock(block, txn_count[n])))
  BY Zenon DEF RecvReady
<1>4. \/ Consume(from, n)
      \/ \E msg : /\ ConsumeAndSend(from, n, msg)
                  /\ Honest(preparedSent', commitSent', n, msg)
  <2>1. \A block : Honest(preparedSent', commitSent', n,
                          VoteMsg("PROPOSE", currentView[n], makeBlock(block, txn_count[n])))
    BY DEF Honest, VoteMsg
  <2> QED BY <1>3, <2>1, Zenon
<1>5. HonestChan(chan, preparedSent, commitSent)'
  BY <1>1, <1>4, HandlerIsHonest DEF Truth
<1>6. PICK heard, collection :
        /\ gather' = [gather EXCEPT ![n].readies = heard, ![n].collection = collection]
        /\ collection \subseteq gather[n].collection \cup {<<m.view, m.origin, m.vb>>}
  BY Zenon DEF RecvReady
<1>7. /\ GatherShape' /\ gather'[n].collection = collection
      /\ \A a \in Node : a # n => gather'[a] = gather[a]
  BY Zenon, <1>6 DEF Truth, GatherShape, IsTable
<1>8. Collected'
  <2> SUFFICES ASSUME NEW a \in Node, NEW c \in gather'[a].collection
               PROVE  Reported(preparedSent, c[2], c[3])
    BY <1>1 DEF Collected
  <2>1. CASE c \in gather[a].collection
    BY <2>1 DEF Truth, Collected
  <2>2. CASE c \notin gather[a].collection
    <3>1. c = <<m.view, m.origin, m.vb>>
      BY Zenon, <2>2, <1>6, <1>7
    <3> QED BY <3>1, <1>2
  <2> QED BY <2>1, <2>2
<1> QED BY <1>1, <1>5, <1>7, <1>8 DEF Truth, IsTable

\* A lost connection takes messages away.
LEMMA DropTruth ==
    ASSUME Truth, NEW a \in Node, NEW b \in Node, Drop(a, b)
    PROVE  Truth'
<1>1. preparedSent' = preparedSent /\ commitSent' = commitSent /\ gather' = gather
  BY DEF Drop, ballots
<1>2. chan' = [chan EXCEPT ![a][b] = <<>>, ![b][a] = <<>>]
  BY DEF Drop
<1>3. ASSUME NEW x \in Node
      PROVE  \E Sent : /\ \A m \in Sent : Honest(preparedSent, commitSent, x, m)
                       /\ chan'[x] \in [Node -> Seq(Sent)]
  <2>1. PICK Sent : /\ \A m \in Sent : Honest(preparedSent, commitSent, x, m)
                    /\ chan[x] \in [Node -> Seq(Sent)]
    BY Zenon DEF Truth, HonestChan
  <2>2. <<>> \in Seq(Sent)
    OBVIOUS
  <2>3. chan'[x] \in [Node -> Seq(Sent)]
    BY Zenon, <1>2, <2>1, <2>2 DEF Truth, HonestChan
  <2> QED BY Zenon, <2>1, <2>3
<1>4. chan' = [x \in Node |-> chan'[x]]
  BY Zenon, <1>2 DEF Truth, HonestChan
<1>5. HonestChan(chan, preparedSent, commitSent)'
  BY Zenon, <1>1, <1>3, <1>4 DEF HonestChan
<1> QED BY <1>1, <1>5 DEF Truth, IsTable, GatherShape, Collected

LEMMA NextTruth ==
    ASSUME Truth, [Next]_vars
    PROVE  Truth'
<1>1. CASE UNCHANGED <<ballots, gather, chan>>
  BY Zenon, <1>1 DEF ballots, Truth, IsTable, GatherShape, Collected, HonestChan
<1>2. ASSUME NEW n \in Node, Tick(n)
      PROVE  Truth'
  BY <1>2, BroadcastKeepsTruth DEF Tick, VoteMsg, Honest
<1>3. ASSUME NEW n \in Node, NEW key, RecvCollect(n, key)
      PROVE  Truth'
  <2> DEFINE msg == GatherMsg("SEND", key[1], Prepared(n, key), n)
  <2>1. Honest(preparedSent, commitSent, n, msg)
    BY DEF Honest, GatherMsg, Prepared, Reported
  <2> QED BY <1>3, <2>1, BroadcastKeepsTruth DEF RecvCollect
<1>4. ASSUME NEW from \in Node, NEW n \in Node, recvCustomMessage(from, n)
      PROVE  Truth'
  BY <1>4, VoteTruth, EchoTruth, ReadyTruth DEF recvCustomMessage
<1>5. ASSUME NEW a \in Node, NEW b \in Node, Reconnect(a, b)
      PROVE  Truth'
  BY <1>1, <1>5 DEF Reconnect
<1>6. CASE UNCHANGED vars
  BY <1>1, <1>6 DEF vars, network
<1> QED BY <1>2, <1>3, <1>4, <1>5, <1>6, DropTruth DEF Next

\* What a process collects for an origin (case CUSTOM_READY) is what that
\* process had prepared, or nothing: SEND reports it, ECHO and READY pass it on
\* with the origin of the message they answer, and connections may be lost.
THEOREM CollectedValuesWerePrepared == Spec => []CollectedWasPrepared
<1>1. Truth => CollectedWasPrepared
  BY DEF Truth, Collected, Reported, CollectedWasPrepared
<1>2. Truth /\ [Next]_vars => Truth'
  BY NextTruth
<1> QED BY <1>1, <1>2, InitTruth, PTL DEF Spec
-----------------------------------------------------------------------------
(* Connections that stay up, and their thresholds.                         *)

\* Broadcasts go to processes of the network.
LEMMA BroadcastIsAddressed ==
    ASSUME FullMesh, NEW ch, NEW p, NEW c, HonestChan(ch, p, c), Addressed(ch),
           NEW n \in Node, NEW msg
    PROVE  Addressed(Broadcasted(ch, n, msg))
<1> SUFFICES ASSUME NEW a \in Node, NEW b \in Node,
                    Broadcasted(ch, n, msg)[a][b] # <<>>
             PROVE  b \in net.nodes
  BY DEF Addressed
<1>1. CASE a = n /\ b \in peers[n]
  BY <1>1 DEF FullMesh
<1>2. CASE ~(a = n /\ b \in peers[n])
  <2>1. Broadcasted(ch, n, msg)[a][b] = ch[a][b]
    BY <1>2 DEF Broadcasted, HonestChan
  <2> QED BY <2>1 DEF Addressed
<1> QED BY <1>1, <1>2

LEMMA PopIsAddressed ==
    ASSUME NEW p, NEW c, HonestChan(chan, p, c), Addressed(chan),
           NEW from \in Node, NEW n \in Node, chan[from][n] # <<>>
    PROVE  n \in net.nodes /\ Addressed(Popped(from, n))
<1>1. n \in net.nodes
  BY DEF Addressed
<1>2. ASSUME NEW a \in Node, NEW b \in Node, ~(a = from /\ b = n)
      PROVE  Popped(from, n)[a][b] = chan[a][b]
  BY <1>2 DEF Popped, HonestChan
<1> QED BY <1>1, <1>2 DEF Addressed

\* What every handler of recvCustomMessage does to connections.
LEMMA HandlerIsAddressed ==
    ASSUME Truth, Inv, NEW from \in Node, NEW n \in Node, chan[from][n] # <<>>,
           Consume(from, n) \/ \E msg : ConsumeAndSend(from, n, msg)
    PROVE  n \in net.nodes /\ Addressed(chan)' /\ FullMesh' /\ net' = net
<1>1. /\ HonestChan(Popped(from, n), preparedSent, commitSent)
      /\ n \in net.nodes /\ Addressed(Popped(from, n))
  BY PopIsHonest, PopIsAddressed DEF Truth, Inv
<1>2. CASE Consume(from, n)
  BY <1>1, <1>2 DEF Consume, Addressed, FullMesh, Inv
<1>3. CASE \E msg : ConsumeAndSend(from, n, msg)
  <2>1. PICK msg : ConsumeAndSend(from, n, msg)
    BY <1>3
  <2>2. Addressed(Broadcasted(Popped(from, n), n, msg))
    BY <1>1, BroadcastIsAddressed DEF Inv
  <2> QED BY <1>1, <2>1, <2>2 DEF ConsumeAndSend, Addressed, FullMesh, Inv
<1> QED BY <1>2, <1>3

\* size_t f = (N - 1) / 3 is the f of the network while every connection is up.
LEMMA ThresholdOfNetwork ==
    ASSUME FullMesh, NEW n \in net.nodes
    PROVE  /\ n \in Node
           /\ TwoFPlusOne(n) = 2 * ((Cardinality(net.nodes) - 1) \div 3) + 1
<1>1. net.nodes \subseteq Node /\ IsFiniteSet(Node)
  BY ConstantsAssumption DEF FullMesh
<1>2. IsFiniteSet(net.nodes)
  BY <1>1, FS_Subset
<1>3. Cardinality(net.nodes \ {n}) = Cardinality(net.nodes) - 1
  BY <1>2, FS_RemoveElement
<1>4. peers[n] = net.nodes \ {n}
  BY <1>1 DEF FullMesh
<1> QED BY <1>1, <1>3, <1>4 DEF TwoFPlusOne, F

\* A certificate stays one when more processes prepare.
LEMMA EnoughStays ==
    ASSUME FullMesh, net' = net, NEW key, Enough(key),
           \A a \in Node : preparedSent[a] \subseteq preparedSent'[a]
    PROVE  Enough(key)'
<1>1. Preparers(key) \subseteq Preparers(key)' /\ Preparers(key)' \subseteq Node
  BY DEF Preparers
<1>2. IsFiniteSet(Node)
  BY ConstantsAssumption
<1>3. IsFiniteSet(Preparers(key)')
  BY <1>1, <1>2, FS_Subset
<1>4. /\ Cardinality(Preparers(key)) <= Cardinality(Preparers(key)')
      /\ IsFiniteSet(Preparers(key))
  BY <1>1, <1>3, FS_Subset
<1>5. Cardinality(Preparers(key)) \in Nat /\ Cardinality(Preparers(key)') \in Nat
  BY <1>3, <1>4, FS_CardinalityType
<1>6. IsFiniteSet(net.nodes)
  BY <1>2, ConstantsAssumption, FS_Subset DEF FullMesh
<1>7. Cardinality(net.nodes) \in Nat
  BY <1>6, FS_CardinalityType
<1> QED BY <1>4, <1>5, <1>7 DEF Enough
-----------------------------------------------------------------------------
(* Committed blocks have certificates.                                     *)

LEMMA InitInv == Init => Inv
BY DEF Init, Inv, FullMesh, Addressed, IsTable, VotersPrepared, Certified, CommittedWasSent

\* A step that touches no vote.
LEMMA QuietStep ==
    ASSUME Inv, UNCHANGED ballots, net' = net, FullMesh', Addressed(chan)'
    PROVE  Inv'
<1>1. /\ IsTable(prepareVoters)' /\ IsTable(committed)'
      /\ VotersPrepared' /\ CommittedWasSent'
  BY DEF Inv, ballots, IsTable, VotersPrepared, CommittedWasSent
<1>2. Certified'
  BY DEF Inv, ballots, Certified, Enough, Preparers
<1> QED BY <1>1, <1>2 DEF Inv

LEMMA BroadcastStep ==
    ASSUME Truth, Inv, NEW n \in Node, NEW msg,
           chan' = Broadcasted(chan, n, msg), UNCHANGED <<ballots, net, peers>>
    PROVE  Inv'
<1>1. Addressed(Broadcasted(chan, n, msg))
  BY BroadcastIsAddressed DEF Truth, Inv
<1>2. Addressed(chan)' /\ FullMesh'
  BY <1>1 DEF Addressed, FullMesh, Inv
<1> QED BY <1>2, QuietStep

\* case CUSTOM_PROPOSE: the process prepares, and counts its own vote.
LEMMA ProposeStep ==
    ASSUME Truth, Inv, NEW from \in Node, NEW n \in Node, RecvPropose(from, n)
    PROVE  Inv'
<1> DEFINE m == Head(chan[from][n])
<1>1. Addressed(chan)' /\ FullMesh' /\ net' = net
  BY HandlerIsAddressed DEF RecvPropose, Arrives
<1>2. CASE ~CanPrepare(n, m)
  BY <1>1, <1>2, QuietStep DEF RecvPropose, ballots
<1>3. CASE CanPrepare(n, m)
  <2>1. /\ preparedSent' = [preparedSent EXCEPT ![n] = @ \cup {Key(m)}]
        /\ prepareVoters' = [prepareVoters EXCEPT ![n] = @ \cup {<<Key(m), n>>}]
        /\ UNCHANGED <<commitSent, committed>>
    BY <1>3 DEF RecvPropose
  <2>2. /\ \A a \in Node : preparedSent[a] \subseteq preparedSent'[a]
        /\ Key(m) \in preparedSent'[n]
        /\ IsTable(prepareVoters)' /\ IsTable(committed)'
    BY Zenon, <2>1 DEF Truth, Inv, IsTable
  <2>3. VotersPrepared'
    <3> SUFFICES ASSUME NEW k \in Node, NEW v \in Node, NEW key,
                        <<key, v>> \in prepareVoters'[k]
                 PROVE  key \in preparedSent'[v] \/ (v = k /\ key \in commitSent[k])
      BY <2>1 DEF VotersPrepared
    <3>1. CASE <<key, v>> \in prepareVoters[k]
      BY <3>1, <2>2 DEF Inv, VotersPrepared
    <3>2. CASE <<key, v>> \notin prepareVoters[k]
      <4>1. key = Key(m) /\ v = n
        BY <3>2, <2>1 DEF Inv, IsTable
      <4> QED BY <4>1, <2>2
    <3> QED BY <3>1, <3>2
  <2>4. Certified'
    BY <1>1, <2>1, <2>2, EnoughStays DEF Inv, Certified
  <2>5. CommittedWasSent'
    BY <2>1 DEF Inv, CommittedWasSent
  <2> QED BY <1>1, <2>2, <2>3, <2>4, <2>5 DEF Inv
<1> QED BY <1>2, <1>3

\* case CUSTOM_PREPARE: a COMMIT is sent when 2f+1 processes prepared; only
\* then does the process count itself without having prepared.
LEMMA PrepareStep ==
    ASSUME Truth, Inv, NEW from \in Node, NEW n \in Node, RecvPrepare(from, n)
    PROVE  Inv'
<1> DEFINE m == Head(chan[from][n])
           key == Key(m)
           votes == prepareVoters[n] \cup {<<key, from>>}
           commits == Cardinality(Voters(votes, key)) >= TwoFPlusOne(n) /\ key \notin commitSent[n]
<1>1. chan[from][n] # <<>> /\ m.type = "PREPARE" /\ UNCHANGED <<preparedSent, committed>>
  BY DEF RecvPrepare, Arrives
<1>2. key \in preparedSent[from]
  BY <1>1, PopIsHonest DEF Truth, Honest
<1>6. n \in net.nodes /\ Addressed(chan)' /\ FullMesh' /\ net' = net
  BY <1>1, HandlerIsAddressed DEF RecvPrepare
<1>3. \A v \in Node : \A k : <<k, v>> \in votes =>
          k \in preparedSent[v] \/ (v = n /\ k \in commitSent[n])
  BY <1>2 DEF Inv, VotersPrepared
<1>4. CASE ~commits
  <2>1. /\ prepareVoters' = [prepareVoters EXCEPT ![n] = votes]
        /\ commitSent' = commitSent
    BY <1>4 DEF RecvPrepare
  <2>2. IsTable(prepareVoters)' /\ IsTable(committed)' /\ CommittedWasSent'
    BY Zenon, <1>1, <2>1 DEF Inv, IsTable, CommittedWasSent
  <2>3. VotersPrepared'
    BY <1>1, <1>3, <2>1 DEF Inv, IsTable, VotersPrepared
  <2>4. Certified'
    BY <1>1, <1>6, <2>1 DEF Inv, Certified, Enough, Preparers
  <2> QED BY <1>6, <2>2, <2>3, <2>4 DEF Inv
<1>5. CASE commits
  <2>1. /\ commitSent' = [commitSent EXCEPT ![n] = @ \cup {key}]
        /\ prepareVoters' = [prepareVoters EXCEPT ![n] = votes \cup {<<key, n>>}]
    BY <1>5 DEF RecvPrepare
  <2>2. /\ \A a \in Node : commitSent[a] \subseteq commitSent'[a]
        /\ key \in commitSent'[n] /\ IsTable(prepareVoters)' /\ IsTable(committed)'
    BY Zenon, <1>1, <2>1 DEF Truth, Inv, IsTable
  <2>3. VotersPrepared'
    <3> SUFFICES ASSUME NEW k \in Node, NEW v \in Node, NEW x,
                        <<x, v>> \in prepareVoters'[k]
                 PROVE  x \in preparedSent[v] \/ (v = k /\ x \in commitSent'[k])
      BY <1>1 DEF VotersPrepared
    <3>1. CASE k = n
      BY <3>1, <1>3, <2>1, <2>2 DEF Inv, IsTable
    <3>2. CASE k # n
      BY <3>2, <2>1, <2>2 DEF Inv, IsTable, VotersPrepared
    <3> QED BY <3>1, <3>2
  <2>4. Enough(key)
    <3>1. Voters(votes, key) \subseteq Preparers(key) /\ Preparers(key) \subseteq Node
      BY <1>3, <1>5 DEF Voters, Preparers
    <3>2. IsFiniteSet(Preparers(key))
      BY <3>1, ConstantsAssumption, FS_Subset
    <3>3. Cardinality(Voters(votes, key)) <= Cardinality(Preparers(key))
          /\ IsFiniteSet(Voters(votes, key))
      BY Zenon, <3>1, <3>2, FS_Subset
    <3>4. Cardinality(Voters(votes, key)) \in Nat /\ Cardinality(Preparers(key)) \in Nat
      BY <3>2, <3>3, FS_CardinalityType
    <3>5. TwoFPlusOne(n) = 2 * ((Cardinality(net.nodes) - 1) \div 3) + 1
      BY <1>6, ThresholdOfNetwork DEF Inv
    <3>6. IsFiniteSet(net.nodes)
      BY ConstantsAssumption, FS_Subset DEF Inv, FullMesh
    <3>7. Cardinality(net.nodes) \in Nat
      BY <3>6, FS_CardinalityType
    <3> HIDE DEF votes, key
    <3> QED BY <1>5, <3>3, <3>4, <3>5, <3>7 DEF Enough
  <2>5. Certified'
    <3> SUFFICES ASSUME NEW k \in Node, NEW x \in commitSent'[k]
                 PROVE  Enough(x)'
      BY DEF Certified
    <3>1. Enough(x)
      BY <2>1, <2>4 DEF Truth, Inv, IsTable, Certified
    <3> QED BY <3>1, <1>1, <1>6 DEF Enough, Preparers
  <2>6. CommittedWasSent'
    BY <1>1, <2>2 DEF Inv, CommittedWasSent
  <2> QED BY <1>6, <2>2, <2>3, <2>5, <2>6 DEF Inv
<1> QED BY <1>4, <1>5

\* case CUSTOM_COMMIT: the sender of the COMMIT already holds a certificate,
\* so amplifying and committing add none of their own.
LEMMA CommitStep ==
    ASSUME Truth, Inv, NEW from \in Node, NEW n \in Node, RecvCommit(from, n)
    PROVE  Inv'
<1> DEFINE m == Head(chan[from][n])
           key == Key(m)
<1>1. chan[from][n] # <<>> /\ m.type = "COMMIT" /\ UNCHANGED <<preparedSent, prepareVoters>>
  BY DEF RecvCommit, Arrives
<1>2. key \in commitSent[from]
  BY <1>1, PopIsHonest DEF Truth, Honest
<1>3. /\ commitSent' \in {commitSent, [commitSent EXCEPT ![n] = @ \cup {key}]}
      /\ committed' \in {committed, [committed EXCEPT ![n] = @ \cup {key}]}
  BY DEF RecvCommit
<1>4. /\ \A a \in Node : commitSent[a] \subseteq commitSent'[a]
      /\ \A a \in Node : commitSent'[a] \subseteq commitSent[a] \cup {key}
      /\ \A a \in Node : committed'[a] \subseteq committed[a] \cup {key}
      /\ IsTable(prepareVoters)' /\ IsTable(committed)'
  BY <1>1, <1>3 DEF Truth, Inv, IsTable
<1>5. Addressed(chan)' /\ FullMesh' /\ net' = net
  BY <1>1, HandlerIsAddressed DEF RecvCommit
<1>6. VotersPrepared'
  BY <1>1, <1>4 DEF Inv, VotersPrepared
<1>7. Certified'
  <2> SUFFICES ASSUME NEW k \in Node, NEW x \in commitSent'[k]
               PROVE  Enough(x)'
    BY DEF Certified
  <2>1. Enough(x)
    BY <1>2, <1>4 DEF Inv, Certified
  <2> QED BY <2>1, <1>1, <1>5 DEF Enough, Preparers
<1>8. CommittedWasSent'
  BY <1>2, <1>4 DEF Inv, CommittedWasSent
<1> QED BY <1>4, <1>5, <1>6, <1>7, <1>8 DEF Inv

LEMMA NextInv ==
    ASSUME Truth, Inv, [Next]_vars, drops = 0, drops' = 0
    PROVE  Inv'
<1>1. CASE UNCHANGED vars
  BY <1>1, QuietStep DEF vars, network, Inv, FullMesh, Addressed
<1>2. ASSUME NEW n \in Node, Tick(n)
      PROVE  Inv'
  BY <1>2, BroadcastStep DEF Tick
<1>3. ASSUME NEW n \in Node, NEW key, RecvCollect(n, key)
      PROVE  Inv'
  BY <1>3, BroadcastStep DEF RecvCollect
<1>4. ASSUME NEW from \in Node, NEW n \in Node,
             RecvSend(from, n) \/ RecvEcho(from, n) \/ RecvReady(from, n)
      PROVE  Inv'
  <2>1. /\ chan[from][n] # <<>> /\ UNCHANGED ballots
        /\ Consume(from, n) \/ \E msg : ConsumeAndSend(from, n, msg)
    BY Zenon, <1>4 DEF RecvSend, RecvEcho, RecvReady, Arrives
  <2> QED BY <2>1, HandlerIsAddressed, QuietStep
<1>5. ASSUME NEW a \in Node, NEW b \in Node, Drop(a, b)
      PROVE  FALSE
  BY <1>5 DEF Drop
<1>6. ASSUME NEW a \in Node, NEW b \in Node, Reconnect(a, b)
      PROVE  FALSE
  BY <1>6 DEF Reconnect, Inv, FullMesh
<1> QED BY <1>1, <1>2, <1>3, <1>4, <1>5, <1>6, ProposeStep, PrepareStep, CommitStep
        DEF Next, recvCustomMessage

\* A process commits a block (case CUSTOM_COMMIT) only if 2f+1 processes
\* prepared it, in every execution in which no connection is lost: a vote is
\* only sent by a process that stands by it, the first COMMIT for a block needs
\* 2f+1 PREPAREs, and every later one follows from a COMMIT received.
THEOREM CommitsAreCertified == Spec /\ [](drops = 0) => []CommitCertified
<1>1. Truth /\ Inv /\ [Next]_vars /\ drops = 0 /\ (drops = 0)' => Inv'
  BY NextInv
<1>2. Truth /\ [Next]_vars => Truth'
  BY NextTruth
<1>3. Inv => CommitCertified
  BY DEF Inv, CommittedWasSent, Certified, Enough, CommitCertified
<1> QED BY <1>1, <1>2, <1>3, InitInv, InitTruth, PTL DEF Spec
=============================================================================
