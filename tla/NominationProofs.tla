-------------------------- MODULE NominationProofs --------------------------
(***************************************************************************)
(* Proofs about NominationProtocol: a candidate was accepted by a quorum,  *)
(* and a node never goes back on what it emitted.                          *)
(***************************************************************************)
EXTENDS NominationProtocol, TLAPS

\* A protocol state has these fields; which values its votes hold does not matter.
IsState(s) ==
    DOMAIN s = {"votes", "accepted", "candidates", "composite", "leaders",
                "round", "started", "timer", "last"}

Shape ==
    /\ nom = [n \in Node |-> nom[n]] /\ \A n \in Node : IsState(nom[n])
    /\ latest = [n \in Node |-> latest[n]]
    /\ \A n \in Node : latest[n] = [m \in Node |-> latest[n][m]]
    /\ sent = [n \in Node |-> sent[n]]

\* A node knows of another only what that node emitted.
HeardWasSent ==
    \A n, m \in Node : n # m => latest[n][m] = NoStatement \/ latest[n][m] \in sent[m]

\* What a node emitted is covered by mLastEnvelope, which a crash leaves
\* alone: a node emits only when its slot is fully validated.
SentUpToLast ==
    \A n \in Node :
        /\ sent[n] # {} => n \in Validating
        /\ \A st \in sent[n] : /\ st.votes \subseteq nom[n].last.votes
                               /\ st.accepted \subseteq nom[n].last.accepted

Inv == Shape /\ HeardWasSent /\ SentUpToLast /\ CandidatesAccepted

-----------------------------------------------------------------------------

\* LocalNode::isQuorum: a set that contains a quorum for n still does when
\* nodes are added to it.
LEMMA QuorumGrows ==
    ASSUME NEW n \in Node, NEW S \in SUBSET Node, NEW T \in SUBSET Node,
           S \subseteq T, isQuorum(n, S, {})
    PROVE  isQuorum(n, T, {})
<1>1. {} \in SUBSET Node
  OBVIOUS
<1>2. PICK Q \in SUBSET S : IsQuorumWith(Q, {}) /\ isQuorumSlice(n, Q)
  BY <1>1 DEF isQuorum, QuorumSets
<1> QED BY <1>1, <1>2 DEF isQuorum, QuorumSets

\* What processEnvelope does to the protocol state of n: mLastEnvelope stays,
\* and a new candidate was accepted by a quorum of the statements it heard.
LEMMA ProcessEffect ==
    ASSUME Shape, NEW n \in Node, NEW m \in Node, NEW st, NEW rest,
           Process(n, m, st, rest)
    PROVE  /\ sent' = sent => Shape'
           /\ \A k \in Node \ {n} : nom'[k] = nom[k] /\ latest'[k] = latest[k]
           /\ \A k \in Node : latest'[n][k] = IF k = m THEN st ELSE latest[n][k]
           /\ nom'[n].last = nom[n].last
           /\ \A v \in nom'[n].candidates \ nom[n].candidates :
                 isQuorum(n, {k \in Node : v \in latest'[n][k].accepted}, {})
<1> DEFINE s0 == nom[n]
           heard == [latest[n] EXCEPT ![m] = st]
           s1 == Promote(n, s0, heard, st)
           s2 == Ratify(n, s1, heard)
           s3 == FollowLeader(n, m, s2, st)
<1>1. IsState(s0)
  BY DEF Shape
<1>2. IsState(s1) /\ s1.last = s0.last /\ s1.candidates = s0.candidates
  BY <1>1 DEF Promote, IsState
<1>3. latest' = [latest EXCEPT ![n] = heard]
  BY DEF Process
<1>4. /\ \A k \in Node : latest'[n][k] = IF k = m THEN st ELSE latest[n][k]
      /\ latest'[n] = heard /\ \A k \in Node \ {n} : latest'[k] = latest[k]
  BY <1>3 DEF Shape
<1> HIDE DEF s1, heard
<1>5. /\ IsState(s2) /\ s2.last = s0.last
      /\ \A v \in s2.candidates \ s0.candidates : FederatedRatify(n, heard, v)
  BY <1>2 DEF Ratify, IsState
<1> HIDE DEF s2
<1>6. IsState(s3) /\ s3.last = s0.last /\ s3.candidates = s2.candidates
  BY <1>5 DEF FollowLeader, IsState
<1> HIDE DEF s3
<1>7. \A cand \in BOOLEAN : LET t == HandOver(s3, cand) IN
         IsState(t) /\ t.last = s0.last /\ t.candidates = s2.candidates
  BY <1>6 DEF HandOver, IsState
<1>8. \/ nom' = [nom EXCEPT ![n] = s3]
      \/ \E cand \in BOOLEAN : nom' = [nom EXCEPT ![n] = HandOver(s3, cand)]
      \/ nom' = nom
  BY Zenon DEF Process, Conclude, s3, s2, s1, s0, heard
<1>9. /\ \A k \in Node \ {n} : nom'[k] = nom[k]
      /\ IsState(nom'[n]) /\ nom'[n].last = s0.last
      /\ nom'[n].candidates \in {s0.candidates, s2.candidates}
      /\ nom' = [k \in Node |-> nom'[k]]
  BY <1>1, <1>6, <1>7, <1>8 DEF Shape
<1>10. \A v \in nom'[n].candidates \ nom[n].candidates :
          isQuorum(n, {k \in Node : v \in latest'[n][k].accepted}, {})
  BY Zenon, <1>4, <1>5, <1>9 DEF FederatedRatify
<1>11. sent' = sent => Shape'
  <2>1. latest' = [k \in Node |-> latest'[k]]
    BY <1>3 DEF Shape
  <2>2. \A k \in Node : latest'[k] = [j \in Node |-> latest'[k][j]]
    BY <1>4 DEF Shape, heard
  <2>3. \A k \in Node : IsState(nom'[k])
    BY <1>9 DEF Shape
  <2> QED BY <1>9, <2>1, <2>2, <2>3 DEF Shape
<1> QED BY <1>4, <1>9, <1>10, <1>11

\* nominate leaves candidates and mLastEnvelope alone.
LEMMA NewRoundEffect ==
    ASSUME Shape, NEW n \in Node, NewRound(n)
    PROVE  /\ IsState(nom'[n]) /\ nom'[n].last = nom[n].last
           /\ nom'[n].candidates = nom[n].candidates
           /\ nom' = [nom EXCEPT ![n] = nom'[n]]
<1> DEFINE s0 == [nom[n] EXCEPT !.started = TRUE, !.round = @ + 1]
           s1 == UpdateRoundLeaders(n, s0)
<1>1. IsState(s0) /\ s0.last = nom[n].last /\ s0.candidates = nom[n].candidates
  BY DEF Shape, IsState
<1> HIDE DEF s0
<1>2. IsState(s1) /\ s1.last = nom[n].last /\ s1.candidates = nom[n].candidates
  BY <1>1 DEF UpdateRoundLeaders, IsState
<1> HIDE DEF s1
<1>3. PICK votes : nom' = [nom EXCEPT ![n] = [s1 EXCEPT !.votes = votes, !.timer = TRUE]]
  BY Zenon DEF NewRound, s1, s0
<1>4. nom'[n] = [s1 EXCEPT !.votes = votes, !.timer = TRUE]
  BY <1>3 DEF Shape
<1>5. nom' = [nom EXCEPT ![n] = nom'[n]]
  BY Zenon, <1>3, <1>4
<1>6. /\ IsState(nom'[n]) /\ nom'[n].last = nom[n].last
      /\ nom'[n].candidates = nom[n].candidates
  BY <1>2, <1>4 DEF IsState
<1> QED BY <1>5, <1>6

-----------------------------------------------------------------------------

\* A step that adds nothing to what n knows of the others, keeps what was sent
\* and what n last emitted, and gives n no new candidate.
LEMMA QuietStep ==
    ASSUME Inv, NEW n \in Node, NEW s, IsState(s),
           nom' = [nom EXCEPT ![n] = s], s.last = nom[n].last,
           s.candidates = nom[n].candidates, UNCHANGED <<latest, sent>>
    PROVE  Inv'
<1>1. \A k \in Node : /\ IsState(nom'[k]) /\ nom'[k].last = nom[k].last
                      /\ nom'[k].candidates = nom[k].candidates
  BY DEF Inv, Shape
<1>2. Shape'
  BY <1>1 DEF Inv, Shape
<1>3. HeardWasSent'
  BY DEF Inv, HeardWasSent
<1>4. SentUpToLast'
  BY <1>1 DEF Inv, SentUpToLast
<1>5. CandidatesAccepted'
  BY <1>1 DEF Inv, CandidatesAccepted
<1> QED BY <1>2, <1>3, <1>4, <1>5 DEF Inv

LEMMA Unchanged ==
    ASSUME Inv, nom' = nom, latest' = latest, sent' = sent
    PROVE  Inv'
<1>1. Shape'
  BY DEF Inv, Shape
<1>2. HeardWasSent' /\ SentUpToLast'
  BY DEF Inv, HeardWasSent, SentUpToLast
<1>3. CandidatesAccepted'
  BY Zenon DEF Inv, CandidatesAccepted
<1> QED BY <1>1, <1>2, <1>3 DEF Inv

\* A statement of another node that was emitted, or the node's own, is processed.
LEMMA ProcessKeepsInv ==
    ASSUME Inv, NEW n \in Node, NEW m \in Node, NEW st, NEW rest,
           Process(n, m, st, rest), UNCHANGED sent,
           m # n => st \in sent[m]
    PROVE  Inv'
<1>1. /\ Shape'
      /\ \A k \in Node \ {n} : nom'[k] = nom[k] /\ latest'[k] = latest[k]
      /\ \A k \in Node : latest'[n][k] = IF k = m THEN st ELSE latest[n][k]
      /\ nom'[n].last = nom[n].last
      /\ \A v \in nom'[n].candidates \ nom[n].candidates :
             isQuorum(n, {k \in Node : v \in latest'[n][k].accepted}, {})
  <2>1. Shape
    BY Zenon DEF Inv
  <2>2. Shape'
    BY <2>1, ProcessEffect
  <2>3. \A k \in Node \ {n} : nom'[k] = nom[k] /\ latest'[k] = latest[k]
    BY <2>1, ProcessEffect
  <2>4. \A k \in Node : latest'[n][k] = IF k = m THEN st ELSE latest[n][k]
    BY <2>1, ProcessEffect
  <2>5. nom'[n].last = nom[n].last
    BY <2>1, ProcessEffect
  <2>6. \A v \in nom'[n].candidates \ nom[n].candidates :
            isQuorum(n, {k \in Node : v \in latest'[n][k].accepted}, {})
    BY SMTT(60), <2>1, ProcessEffect
  <2> QED BY <2>2, <2>3, <2>4, <2>5, <2>6
<1>2. HeardWasSent'
  BY <1>1 DEF Inv, HeardWasSent
<1>3. SentUpToLast'
  BY <1>1 DEF Inv, SentUpToLast
<1>4. CandidatesAccepted'
  <2> SUFFICES ASSUME NEW k \in Node, NEW v \in nom'[k].candidates
               PROVE  isQuorum(k, {j \in Node : j = k \/ \E s \in sent[j] : v \in s.accepted}, {})
    BY DEF CandidatesAccepted
  <2>1. CASE v \in nom[k].candidates
    BY Zenon, <2>1 DEF Inv, CandidatesAccepted
  <2>2. CASE v \notin nom[k].candidates
    <3>1. k = n
      BY <1>1, <2>2
    <3>2. isQuorum(n, {j \in Node : v \in latest'[n][j].accepted}, {})
      BY Zenon, <1>1, <2>2, <3>1
    <3>3. {j \in Node : v \in latest'[n][j].accepted}
             \subseteq {j \in Node : j = n \/ \E s \in sent[j] : v \in s.accepted}
      BY <1>2 DEF HeardWasSent, NoStatement
    <3> QED BY <3>1, <3>2, <3>3, QuorumGrows
  <2> QED BY <2>1, <2>2
<1> QED BY <1>1, <1>2, <1>3, <1>4 DEF Inv

\* emitNomination emits a statement that covers mLastEnvelope.
LEMMA ReturnKeepsInv ==
    ASSUME Inv, NEW n \in Node, ReturnFromEmit(n)
    PROVE  /\ Inv'
           /\ \A k \in Node : \A st \in sent'[k] \ sent[k] : \A old \in sent[k] :
                 IsNewerStatement(old, st)
<1> DEFINE st == Head(stack[n]).st
           newer == nom[n].last = NoStatement \/ IsNewerStatement(nom[n].last, st)
           s == IF newer THEN [nom[n] EXCEPT !.last = st] ELSE nom[n]
           t == HandOver(s, Head(stack[n]).cand)
<1>1. /\ nom' = [nom EXCEPT ![n] = t] /\ latest' = latest
      /\ sent' = IF newer /\ n \in Validating THEN [sent EXCEPT ![n] = @ \cup {st}] ELSE sent
  BY DEF ReturnFromEmit
<1> HIDE DEF st
<1>2. IsState(s) /\ s.last = (IF newer THEN st ELSE nom[n].last) /\ s.candidates = nom[n].candidates
  BY DEF Inv, Shape, IsState
<1>3. IsState(t) /\ t.last = s.last /\ t.candidates = s.candidates
  BY <1>2 DEF HandOver, IsState
<1> HIDE DEF t, s
<1>4. \A k \in Node : /\ IsState(nom'[k]) /\ nom'[k].candidates = nom[k].candidates
                      /\ nom'[k].last = IF k = n /\ newer THEN st ELSE nom[k].last
  BY <1>1, <1>2, <1>3 DEF Inv, Shape
<1>5. \A k \in Node : sent'[k] = IF k = n /\ newer /\ n \in Validating
                                THEN sent[k] \cup {st} ELSE sent[k]
  BY <1>1 DEF Inv, Shape
<1>6. newer => /\ nom[n].last.votes \subseteq st.votes
               /\ nom[n].last.accepted \subseteq st.accepted
  BY DEF IsNewerStatement, NoStatement
<1> HIDE DEF newer
<1>7. Shape'
  <2>1. nom' = [k \in Node |-> nom'[k]] /\ sent' = [k \in Node |-> sent'[k]]
    BY Zenon, <1>1 DEF Inv, Shape
  <2>2. /\ latest' = [k \in Node |-> latest'[k]]
        /\ \A k \in Node : latest'[k] = [m \in Node |-> latest'[k][m]]
    BY <1>1 DEF Inv, Shape
  <2> QED BY <1>4, <2>1, <2>2 DEF Shape
<1>8. HeardWasSent'
  BY <1>1, <1>5 DEF Inv, HeardWasSent
<1>9. SentUpToLast'
  <2>1. \A k \in Node : sent'[k] # {} => k \in Validating
    BY Zenon, <1>5 DEF Inv, SentUpToLast
  <2> SUFFICES ASSUME NEW k \in Node, NEW x \in sent'[k]
               PROVE  /\ x.votes \subseteq nom'[k].last.votes
                      /\ x.accepted \subseteq nom'[k].last.accepted
    BY <2>1 DEF SentUpToLast
  <2>2. CASE x \in sent[k]
    <3>1. /\ x.votes \subseteq nom[k].last.votes
          /\ x.accepted \subseteq nom[k].last.accepted
      BY <2>2 DEF Inv, SentUpToLast
    <3> QED BY <3>1, <1>4, <1>6
  <2>3. CASE x \notin sent[k]
    BY Zenon, <2>3, <1>4, <1>5
  <2> QED BY <2>2, <2>3
<1>10. CandidatesAccepted'
  <2> SUFFICES ASSUME NEW k \in Node, NEW v \in nom'[k].candidates
               PROVE  isQuorum(k, {j \in Node : j = k \/ \E x \in sent'[j] : v \in x.accepted}, {})
    BY DEF CandidatesAccepted
  <2>1. isQuorum(k, {j \in Node : j = k \/ \E x \in sent[j] : v \in x.accepted}, {})
    BY Zenon, <1>4 DEF Inv, CandidatesAccepted
  <2>2. {j \in Node : j = k \/ \E x \in sent[j] : v \in x.accepted}
           \subseteq {j \in Node : j = k \/ \E x \in sent'[j] : v \in x.accepted}
    BY Zenon, <1>5
  <2> QED BY <2>1, <2>2, QuorumGrows
<1>11. ASSUME NEW k \in Node, NEW x \in sent'[k] \ sent[k], NEW old \in sent[k]
       PROVE  IsNewerStatement(old, x)
  <2>1. k = n /\ x = st /\ newer
    BY Zenon, <1>5
  <2>2. /\ old.votes \subseteq nom[n].last.votes
        /\ old.accepted \subseteq nom[n].last.accepted
    BY <2>1 DEF Inv, SentUpToLast
  <2> QED BY <2>1, <2>2, <1>6 DEF IsNewerStatement
<1> QED BY <1>7, <1>8, <1>9, <1>10, <1>11 DEF Inv

\* A restart forgets the candidates and restores what was emitted.
LEMMA RestartKeepsInv ==
    ASSUME Inv, NEW n \in Node, Restart(n)
    PROVE  Inv'
<1> DEFINE st == IF n \in Validating THEN nom[n].last ELSE NoStatement
<1>1. /\ nom' = [nom EXCEPT ![n] = Restored(st)] /\ sent' = sent
      /\ latest' = [latest EXCEPT ![n] = [m \in Node |-> IF m = n THEN st ELSE NoStatement]]
  BY DEF Restart
<1>2. IsState(Restored(st)) /\ Restored(st).last = st /\ Restored(st).candidates = {}
  BY DEF Restored, InitialState, IsState
<1>3. /\ \A k \in Node \ {n} : nom'[k] = nom[k] /\ latest'[k] = latest[k]
      /\ nom'[n] = Restored(st)
      /\ latest'[n] = [m \in Node |-> IF m = n THEN st ELSE NoStatement]
  BY <1>1 DEF Inv, Shape
<1> HIDE DEF st
<1>4. Shape'
  <2>1. nom' = [k \in Node |-> nom'[k]] /\ sent' = [k \in Node |-> sent'[k]]
    BY <1>1 DEF Inv, Shape
  <2>2. latest' = [k \in Node |-> latest'[k]]
    BY Zenon, <1>1 DEF Inv, Shape
  <2>3. \A k \in Node : latest'[k] = [m \in Node |-> latest'[k][m]]
    BY <1>3 DEF Inv, Shape
  <2>4. \A k \in Node : IsState(nom'[k])
    BY <1>2, <1>3 DEF Inv, Shape
  <2> QED BY <2>1, <2>2, <2>3, <2>4 DEF Shape
<1>5. HeardWasSent'
  BY <1>1, <1>3 DEF Inv, HeardWasSent
<1>6. SentUpToLast'
  <2>1. sent[n] # {} => st = nom[n].last
    BY DEF Inv, SentUpToLast, st
  <2> QED BY <1>1, <1>2, <1>3, <2>1 DEF Inv, SentUpToLast
<1>7. CandidatesAccepted'
  BY ZenonT(60), <1>1, <1>2, <1>3 DEF Inv, CandidatesAccepted
<1> QED BY <1>4, <1>5, <1>6, <1>7 DEF Inv

-----------------------------------------------------------------------------

LEMMA InitInv == Init => Inv
<1> SUFFICES ASSUME Init PROVE Inv
  OBVIOUS
<1>1. Shape
  BY DEF Init, Shape, InitialState, IsState
<1>2. \A n \in Node : nom[n].candidates = {} /\ sent[n] = {}
  BY DEF Init, InitialState
<1>3. HeardWasSent
  BY DEF Init, HeardWasSent
<1> QED BY <1>1, <1>2, <1>3 DEF Inv, SentUpToLast, CandidatesAccepted

\* Every step keeps the invariant, and what it emits is newer than all the node
\* emitted before.
LEMMA StepInv ==
    ASSUME Inv, [Next]_vars
    PROVE  /\ Inv'
           /\ \A n \in Node : \A st \in sent'[n] \ sent[n] : \A old \in sent[n] :
                 IsNewerStatement(old, st)
<1>1. CASE UNCHANGED vars
  <2>1. UNCHANGED <<nom, latest, sent>>
    BY <1>1 DEF vars
  <2> QED BY <2>1, Unchanged
<1>2. ASSUME NEW n \in Node, ReturnFromEmit(n)
      PROVE  /\ Inv'
             /\ \A k \in Node : \A st \in sent'[k] \ sent[k] : \A old \in sent[k] :
                   IsNewerStatement(old, st)
  BY <1>2, ReturnKeepsInv
<1>3. ASSUME NEW n \in Node, NewRound(n), UNCHANGED <<latest, sent>>
      PROVE  Inv'
  BY <1>3, NewRoundEffect, QuietStep DEF Inv
<1>4. ASSUME NEW n \in Node, Nominate(n)
      PROVE  Inv' /\ sent' = sent
  BY <1>4, <1>3 DEF Nominate
<1>5. ASSUME NEW n \in Node, TimerExpires(n)
      PROVE  Inv' /\ sent' = sent
  <2>1. UNCHANGED <<latest, sent>>
    BY <1>5 DEF TimerExpires
  <2>2. CASE NewRound(n)
    BY <1>3, <2>1, <2>2
  <2>3. CASE nom' = [nom EXCEPT ![n].timer = FALSE]
    <3> DEFINE s == [nom[n] EXCEPT !.timer = FALSE]
    <3>1. IsState(s) /\ s.last = nom[n].last /\ s.candidates = nom[n].candidates
      BY DEF Inv, Shape, IsState
    <3>2. nom' = [nom EXCEPT ![n] = s]
      BY <2>3
    <3> HIDE DEF s
    <3> QED BY Zenon, <2>1, <3>1, <3>2, QuietStep
  <2> QED BY <1>5, <2>1, <2>2, <2>3 DEF TimerExpires
<1>6. ASSUME NEW n \in Node, ProcessOwn(n)
      PROVE  Inv' /\ sent' = sent
  <2>1. sent' = sent
    BY <1>6 DEF ProcessOwn
  <2>2. CASE UNCHANGED <<nom, latest>>
    BY <2>1, <2>2, Unchanged
  <2>3. CASE \E st, rest : Process(n, n, st, rest)
    BY <2>1, <2>3, ProcessKeepsInv
  <2> QED BY <1>6, <2>1, <2>2, <2>3 DEF ProcessOwn
<1>7. ASSUME NEW n \in Node, NEW m \in Node, NEW st \in sent[m], Receive(n, m, st)
      PROVE  Inv' /\ sent' = sent
  <2>1. Process(n, m, st, <<>>) /\ sent' = sent
    BY <1>7 DEF Receive
  <2> QED BY <2>1, ProcessKeepsInv
<1>8. ASSUME NEW n \in Node, StopNomination(n)
      PROVE  Inv' /\ sent' = sent
  <2> DEFINE s == [nom[n] EXCEPT !.started = FALSE]
  <2>1. IsState(s) /\ s.last = nom[n].last /\ s.candidates = nom[n].candidates
    BY DEF Inv, Shape, IsState
  <2>2. nom' = [nom EXCEPT ![n] = s] /\ UNCHANGED <<latest, sent>>
    BY <1>8 DEF StopNomination
  <2> HIDE DEF s
  <2> QED BY Zenon, <2>1, <2>2, QuietStep
<1>9. ASSUME NEW n \in Node, Restart(n)
      PROVE  Inv' /\ sent' = sent
  BY Zenon, <1>9, RestartKeepsInv DEF Restart
<1> QED BY Zenon, <1>1, <1>2, <1>4, <1>5, <1>6, <1>7, <1>8, <1>9 DEF Next, vars

\* A value becomes a candidate only when a quorum accepted it (the ratification
\* in processEnvelope), for any quorum sets and any number of restarts.
THEOREM CandidatesAreAccepted == Spec => []CandidatesAccepted
<1>1. Inv /\ [Next]_vars => Inv'
  BY StepInv
<1>2. Inv => CandidatesAccepted
  BY DEF Inv
<1> QED BY InitInv, <1>1, <1>2, PTL DEF Spec

\* A node never goes back on what it emitted, through nested calls of
\* emitNomination and through restarts.
THEOREM EmissionsGrow == Spec => EmitsInOrder
<1>1. Inv /\ [Next]_vars => Inv'
  BY StepInv
<1>2. Inv /\ [Next]_vars =>
         [\A n \in Node : \A st \in sent'[n] \ sent[n] : \A old \in sent[n] :
             IsNewerStatement(old, st)]_vars
  BY StepInv
<1> QED BY InitInv, <1>1, <1>2, PTL DEF Spec, EmitsInOrder
=============================================================================
