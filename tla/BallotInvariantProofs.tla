----------------------- MODULE BallotInvariantProofs -----------------------
(***************************************************************************)
(* The assertions of BallotProtocol::checkInvariants hold in every         *)
(* execution in which what a node accepts as committed it has accepted as  *)
(* prepared (PreparedForCommit), for every set of nodes, every choice of   *)
(* quorum slices and every bound.                                          *)
(***************************************************************************)
EXTENDS BallotProtocolProofs

\* What checkInvariants asserts, and that p' is given up with PREPARE.
Ordered(s) == BallotsOrdered(s) /\ (s.phase # "PREPARE" => s.pPrime = NullBallot)

\* The order on ballots as linear arithmetic on their parts.
LEMMA BallotParts ==
    ASSUME NEW x \in Ballot
    PROVE  x[1] \in Nat /\ x[2] \in Nat /\ x = <<x[1], x[2]>> /\ x[1] <= UINT32_MAX
BY BallotsAssumption DEF Ballot, Counter, Value

LEMMA BallotOrder ==
    ASSUME NEW x \in Ballot, NEW y \in Ballot, NEW z \in Ballot
    PROVE  /\ LessEq(x, y) /\ LessEq(y, z) => LessEq(x, z)
           /\ LessEq(x, y) /\ Less(y, z) => Less(x, z)
           /\ Less(x, y) /\ LessEq(y, z) => Less(x, z)
           /\ LessEq(x, y) <=> ~Less(y, x)
           /\ LessEq(x, x)
           /\ LessEq(x, NullBallot) => x = NullBallot
           /\ Less(x, y) => LessEq(x, y)
<1>1. /\ x[1] \in Nat /\ x[2] \in Nat /\ x = <<x[1], x[2]>>
      /\ y[1] \in Nat /\ y[2] \in Nat /\ y = <<y[1], y[2]>>
      /\ z[1] \in Nat /\ z[2] \in Nat /\ z = <<z[1], z[2]>>
  BY BallotParts
<1> QED BY <1>1 DEF Less, LessEq, NullBallot

LEMMA SetAcceptPreparedOrdered ==
    ASSUME NEW s \in State, Ordered(s), NEW x \in Ballot,
           s.phase \in {"PREPARE", "CONFIRM"},
           s.phase = "CONFIRM" => LessAndCompatible(s.p, x) /\ LessAndCompatible(s.h, s.p),
           s.pPrime = NullBallot \/ Less(s.pPrime, x),
           s.p = NullBallot \/ ~LessAndCompatible(x, s.p)
    PROVE  Ordered(SetAcceptPrepared(s, x))
<1> DEFINE s1 == SetPrepared(s, x)
<1>1. /\ s.p \in Ballot /\ s.pPrime \in Ballot /\ s.h \in Ballot /\ s.c \in Ballot /\ s.b \in Ballot
  BY DEF State
<1>2. s1 \in State /\ s1 = [s EXCEPT !.p = s1.p, !.pPrime = s1.pPrime]
  BY ZenonT(60) DEF SetPrepared, State
<1>3. /\ s1.pPrime # NullBallot => s1.p # NullBallot /\ LessAndIncompatible(s1.pPrime, s1.p)
      /\ s.phase = "CONFIRM" => s1.pPrime = NullBallot /\ Compatible(s1.p, s.h)
  <2>1. CASE s.p = NullBallot
    <3>1. s.pPrime = NullBallot
      BY <2>1 DEF Ordered, BallotsOrdered
    <3>2. s1.p = x /\ s1.pPrime = NullBallot
      BY <2>1, <3>1 DEF SetPrepared, State
    <3> QED BY <3>2 DEF LessAndCompatible, Compatible
  <2>2. CASE s.p # NullBallot /\ Less(s.p, x)
    <3>1. x # NullBallot
      BY <1>1, <2>2, BallotOrder
    <3>2. s1.p = x /\ s1.pPrime = IF ~Compatible(s.p, x) THEN s.p ELSE s.pPrime
      BY <2>2 DEF SetPrepared, State
    <3>3. LessEq(s.p, x)
      BY <2>2 DEF LessEq
    <3>4. s.pPrime # NullBallot => LessEq(s.pPrime, x)
      BY DEF LessEq
    <3> QED BY <3>1, <3>2, <3>3, <3>4
            DEF Ordered, BallotsOrdered, LessAndCompatible, LessAndIncompatible, Compatible
  <2>3. CASE s.p # NullBallot /\ ~Less(s.p, x)
    <3>1. LessEq(x, s.p)
      BY <1>1, <2>3, BallotOrder
    <3>2. ~Compatible(x, s.p) /\ s.phase # "CONFIRM"
      BY <2>3, <3>1 DEF LessAndCompatible, Compatible
    <3>3. s1.p = s.p /\ s1.pPrime \in {s.pPrime, x}
      BY <2>3 DEF SetPrepared, State
    <3> QED BY <2>3, <3>1, <3>2, <3>3 DEF Ordered, BallotsOrdered, LessAndIncompatible
  <2> QED BY <2>1, <2>2, <2>3
<1> DEFINE aborts(y) == y # NullBallot /\ LessAndIncompatible(s1.h, y)
<1>4. SetAcceptPrepared(s, x) =
        IF s1.c # NullBallot /\ s1.h # NullBallot /\ (aborts(s1.p) \/ aborts(s1.pPrime))
        THEN [s1 EXCEPT !.c = NullBallot] ELSE s1
  BY DEF SetAcceptPrepared
<1> HIDE DEF s1
<1>5. s1.phase = s.phase /\ s1.b = s.b /\ s1.h = s.h /\ s1.c = s.c
  BY Zenon, <1>2 DEF State
<1>6. Ordered(s1)
  BY <1>3, <1>5 DEF Ordered, BallotsOrdered
<1>7. CASE aborts(s1.p) \/ aborts(s1.pPrime)
  <2>1. s.phase = "PREPARE"
    BY <1>3, <1>5, <1>7 DEF LessAndIncompatible, Compatible
  <2>2. s1.phase = "PREPARE"
    BY <1>5, <2>1
  <2>3. Ordered([s1 EXCEPT !.c = NullBallot])
    BY <1>2, <1>6, <2>2 DEF Ordered, BallotsOrdered, State
  <2> QED BY <1>4, <1>6, <2>3
<1>8. CASE ~(aborts(s1.p) \/ aborts(s1.pPrime))
  BY <1>4, <1>6, <1>8
<1> QED BY <1>7, <1>8

LEMMA BumpToBallotOrdered ==
    ASSUME NEW s \in State, Ordered(s), NEW x \in Ballot, CanUpdate(s, x)
    PROVE  Ordered(BumpToBallot(s, x))
<1> DEFINE t == BumpToBallot(s, x)
           keep == s.h = NullBallot \/ Compatible(x, s.h)
<1>1. s.h \in Ballot /\ s.c \in Ballot /\ s.b \in Ballot
  BY DEF State
<1>2. /\ t.phase = s.phase /\ t.p = s.p /\ t.pPrime = s.pPrime /\ t.b = x
      /\ t.h = IF keep THEN s.h ELSE NullBallot
      /\ t.c = IF keep THEN s.c ELSE NullBallot
  BY DEF BumpToBallot, State
<1> HIDE DEF t
<1>3. s.h # NullBallot => Less(s.h, x) /\ x # NullBallot
  <2> HAVE s.h # NullBallot
  <2>1. s.b # NullBallot /\ LessEq(s.h, s.b)
    BY DEF Ordered, BallotsOrdered, LessAndCompatible
  <2>2. Less(s.b, x)
    BY <2>1 DEF CanUpdate
  <2> QED BY <1>1, <2>1, <2>2, BallotOrder
<1>4. s.phase = "CONFIRM" => keep /\ x # NullBallot
  <2> HAVE s.phase = "CONFIRM"
  <2>1. s.c # NullBallot /\ s.h # NullBallot /\ s.b # NullBallot /\ Compatible(s.c, s.h)
    BY DEF Ordered, BallotsOrdered, LessAndCompatible
  <2>2. Compatible(s.c, x)
    BY <2>1 DEF CanUpdate
  <2> QED BY <1>3, <2>1, <2>2 DEF Compatible
<1>5. t.h # NullBallot => t.b # NullBallot /\ LessAndCompatible(t.h, t.b)
  BY <1>2, <1>3 DEF LessAndCompatible, LessEq, Compatible
<1>6. t.c # NullBallot => t.h # NullBallot /\ LessAndCompatible(t.c, t.h)
  BY <1>2 DEF Ordered, BallotsOrdered
<1>7. t.phase # "PREPARE" => t.b # NullBallot /\ t.c # NullBallot /\ t.h # NullBallot
  BY <1>2, <1>4 DEF Ordered, BallotsOrdered, CanUpdate
<1>8. Ordered(t)
  BY Zenon, <1>2, <1>5, <1>6, <1>7 DEF Ordered, BallotsOrdered
<1> QED BY <1>8 DEF t

LEMMA SetConfirmPreparedOrdered ==
    ASSUME NEW s \in State, Ordered(s), NEW newC \in Ballot, NEW newH \in Ballot,
           s.phase = "PREPARE",
           s.h = NullBallot \/ Less(s.h, newH),
           newC # NullBallot => LessAndCompatible(newC, newH)
    PROVE  Ordered(SetConfirmPrepared(s, newC, newH))
<1> DEFINE onBallot == s.b = NullBallot \/ Compatible(s.b, newH)
           s1 == [s EXCEPT !.z = newH[2],
                           !.h = IF onBallot /\ (@ = NullBallot \/ Less(@, newH))
                                 THEN newH ELSE @,
                           !.c = IF onBallot /\ newC # NullBallot THEN newC ELSE @]
           t == SetConfirmPrepared(s, newC, newH)
           moves == s.b = NullBallot \/ Less(s.b, newH)
           keep == s1.h = NullBallot \/ Compatible(newH, s1.h)
<1>1. s.h \in Ballot /\ s.c \in Ballot /\ s.b \in Ballot /\ s.p \in Ballot
  BY DEF State
<1>2. /\ s1.phase = "PREPARE" /\ s1.p = s.p /\ s1.pPrime = s.pPrime /\ s1.b = s.b
      /\ s1.h = IF onBallot THEN newH ELSE s.h
      /\ s1.c = IF onBallot /\ newC # NullBallot THEN newC ELSE s.c
  BY DEF State
<1>3. t = IF moves THEN BumpToBallot(s1, newH) ELSE s1
  BY <1>2 DEF SetConfirmPrepared, UpdateCurrentIfNeeded
<1>4. s1 \in [phase : Phase, b : Ballot, p : Ballot, pPrime : Ballot, h : Ballot, c : Ballot,
               z : Value \cup {0}, heard : BOOLEAN, timer : BOOLEAN]
  <2>1. newH[2] \in Value \cup {0}
    BY DEF Ballot
  <2> QED BY Zenon, <2>1 DEF State
<1> HIDE DEF s1
<1>5. /\ t.phase = "PREPARE" /\ t.p = s.p /\ t.pPrime = s.pPrime
      /\ t.b = IF moves THEN newH ELSE s.b
      /\ t.h = IF moves /\ ~keep THEN NullBallot ELSE s1.h
      /\ t.c = IF moves /\ ~keep THEN NullBallot ELSE s1.c
  BY <1>2, <1>3, <1>4 DEF BumpToBallot
<1> HIDE DEF t
<1>6. s.h # NullBallot => s.b # NullBallot /\ LessEq(s.h, s.b) /\ Compatible(s.h, s.b)
  BY DEF Ordered, BallotsOrdered, LessAndCompatible
<1>7. s.c # NullBallot => s.h # NullBallot /\ LessEq(s.c, s.h) /\ Compatible(s.c, s.h)
  BY DEF Ordered, BallotsOrdered, LessAndCompatible
<1>8. ~moves => LessEq(newH, s.b)
  BY <1>1, BallotOrder
<1>9. t.h # NullBallot => t.b # NullBallot /\ LessAndCompatible(t.h, t.b)
  <2>1. CASE onBallot
    BY ZenonT(60), <1>1, <1>2, <1>5, <1>8, <2>1, BallotOrder DEF LessAndCompatible, Compatible
  <2>2. CASE ~onBallot
    BY Zenon, <1>1, <1>2, <1>5, <1>6, <2>2 DEF LessAndCompatible, Compatible
  <2> QED BY <2>1, <2>2
<1>10. t.c # NullBallot => t.h # NullBallot /\ LessAndCompatible(t.c, t.h)
  <2>1. CASE onBallot /\ newC # NullBallot
    <3>1. newH # NullBallot
      BY <2>1, BallotOrder DEF LessAndCompatible
    <3> QED BY Zenon, <1>2, <1>5, <2>1, <3>1 DEF LessAndCompatible, Compatible
  <2>2. CASE onBallot /\ newC = NullBallot /\ s.c # NullBallot
    <3>1. Less(s.h, newH) /\ newH # NullBallot
      BY <1>1, <1>7, <2>2, BallotOrder
    <3>2. LessEq(s.c, newH)
      BY Zenon, <1>1, <1>7, <2>2, <3>1, BallotOrder
    <3>3. Compatible(s.c, newH)
      BY <1>6, <1>7, <2>2 DEF Compatible
    <3> QED BY Zenon, <1>2, <1>5, <2>2, <3>1, <3>2, <3>3 DEF LessAndCompatible
  <2>3. CASE onBallot /\ newC = NullBallot /\ s.c = NullBallot
    BY Zenon, <1>2, <1>5, <2>3
  <2>4. CASE ~onBallot
    BY Zenon, <1>2, <1>5, <1>7, <2>4 DEF LessAndCompatible
  <2> QED BY Zenon, <2>1, <2>2, <2>3, <2>4
<1>11. Ordered(t)
  BY Zenon, <1>5, <1>9, <1>10 DEF Ordered, BallotsOrdered
<1> QED BY <1>11 DEF t

LEMMA SetAcceptCommitOrdered ==
    ASSUME NEW s \in State, Ordered(s), NEW c \in Ballot, NEW h \in Ballot,
           s.phase \in {"PREPARE", "CONFIRM"},
           s.phase = "CONFIRM" => Compatible(s.h, h),
           c # NullBallot, LessAndCompatible(c, h)
    PROVE  Ordered(SetAcceptCommit(s, c, h))
<1> DEFINE s1 == [s EXCEPT !.z = h[2], !.c = c, !.h = h]
           s2 == IF s1.b # NullBallot /\ ~LessAndCompatible(h, s1.b)
                 THEN BumpToBallot(s1, h) ELSE s1
           s3 == IF s.phase = "PREPARE"
                 THEN [s2 EXCEPT !.phase = "CONFIRM", !.pPrime = NullBallot] ELSE s1
           t == SetAcceptCommit(s, c, h)
<1>1. s.b \in Ballot /\ h # NullBallot
  BY BallotOrder DEF State, LessAndCompatible
<1>2. h[2] \in Value \cup {0}
  BY DEF Ballot
<1>3. s1 \in State /\ s1.b = s.b /\ s1.h = h /\ s1.c = c /\ s1.phase = s.phase
                    /\ s1.pPrime = s.pPrime
  BY Zenon, <1>2 DEF State
<1> HIDE DEF s1
<1>4. \A u \in State : u.h = h => LET v == BumpToBallot(u, h) IN
          /\ v \in State /\ v.b = h /\ v.h = h /\ v.c = u.c
          /\ v.phase = u.phase /\ v.pPrime = u.pPrime
  <2> SUFFICES ASSUME NEW u \in State, u.h = h
               PROVE  LET v == BumpToBallot(u, h) IN
                          /\ v \in State /\ v.b = h /\ v.h = h /\ v.c = u.c
                          /\ v.phase = u.phase /\ v.pPrime = u.pPrime
    OBVIOUS
  <2>1. BumpToBallot(u, h) = [u EXCEPT !.b = h, !.h = u.h, !.c = u.c,
                                       !.heard = u.heard /\ u.b[1] = h[1]]
    BY DEF BumpToBallot, Compatible
  <2> QED BY ZenonT(60), <2>1 DEF State
<1>5. /\ s2 \in State /\ s2.h = h /\ s2.c = c
      /\ s2.b = IF s.b # NullBallot /\ ~LessAndCompatible(h, s.b) THEN h ELSE s.b
  BY <1>3, <1>4
<1> HIDE DEF s2
<1>6. /\ s3 \in State /\ s3.phase = "CONFIRM" /\ s3.pPrime = NullBallot /\ s3.h = h /\ s3.c = c
      /\ s3.b = IF s.phase = "PREPARE" /\ s.b # NullBallot /\ ~LessAndCompatible(h, s.b)
                THEN h ELSE s.b
  BY Zenon, <1>3, <1>5, NullBallotType DEF State, Phase, Ordered
<1> HIDE DEF s3
<1>7. t = IF s3.b = NullBallot \/ Less(s3.b, h) THEN BumpToBallot(s3, h) ELSE s3
  BY DEF SetAcceptCommit, UpdateCurrentIfNeeded, s3, s2, s1
<1>8. /\ t.phase = "CONFIRM" /\ t.pPrime = NullBallot /\ t.h = h /\ t.c = c
      /\ t.b = IF s3.b = NullBallot \/ Less(s3.b, h) THEN h ELSE s3.b
  BY <1>4, <1>6, <1>7
<1> HIDE DEF t
<1>9. t.b # NullBallot /\ LessAndCompatible(h, t.b)
  <2>1. LessAndCompatible(h, h)
    BY BallotOrder DEF LessAndCompatible, Compatible
  <2>2. CASE t.b = h
    BY <1>1, <2>1, <2>2
  <2>3. CASE t.b # h /\ s.phase = "PREPARE"
    BY <1>6, <1>8, <2>3
  <2>4. CASE t.b # h /\ s.phase = "CONFIRM"
    <3>1. t.b = s.b /\ s.b # NullBallot /\ ~Less(s.b, h)
      BY <1>6, <1>8, <2>4
    <3>2. Compatible(s.h, s.b)
      BY <2>4 DEF Ordered, BallotsOrdered, LessAndCompatible
    <3>3. LessEq(h, s.b)
      BY <1>1, <3>1, BallotOrder
    <3> QED BY <2>4, <3>1, <3>2, <3>3 DEF LessAndCompatible, Compatible
  <2> QED BY <2>2, <2>3, <2>4
<1>10. Ordered(t)
  BY Zenon, <1>1, <1>8, <1>9 DEF Ordered, BallotsOrdered
<1> QED BY <1>10 DEF t

LEMMA SetConfirmCommitOrdered ==
    ASSUME NEW s \in State, Ordered(s), NEW c \in Ballot, NEW h \in Ballot,
           s.phase = "CONFIRM", Compatible(s.c, h),
           c # NullBallot, LessAndCompatible(c, h)
    PROVE  Ordered(SetConfirmCommit(s, c, h))
<1> DEFINE s1 == [s EXCEPT !.c = c, !.h = h]
           s2 == UpdateCurrentIfNeeded(s1, h)
           t == SetConfirmCommit(s, c, h)
<1>1. s.b \in Ballot /\ h # NullBallot
  BY BallotOrder DEF State, LessAndCompatible
<1>2. s1 \in State /\ s1.b = s.b /\ s1.h = h /\ s1.c = c /\ s1.pPrime = s.pPrime
  BY Zenon DEF State
<1> HIDE DEF s1
<1>3. /\ s2 \in State /\ s2.h = h /\ s2.c = c /\ s2.pPrime = s.pPrime
      /\ s2.b = IF s.b = NullBallot \/ Less(s.b, h) THEN h ELSE s.b
  BY ZenonT(60), <1>2, NullBallotType DEF UpdateCurrentIfNeeded, BumpToBallot, State, Compatible
<1> HIDE DEF s2
<1>4. /\ t.phase = "EXTERNALIZE" /\ t.h = h /\ t.c = c /\ t.b = s2.b /\ t.pPrime = NullBallot
  <2>1. t = [s2 EXCEPT !.phase = "EXTERNALIZE"]
    BY DEF SetConfirmCommit, s2, s1
  <2>2. s.pPrime = NullBallot
    BY DEF Ordered
  <2> QED BY <1>3, <2>1, <2>2 DEF State
<1> HIDE DEF t
<1>5. s.b # NullBallot /\ Compatible(h, s.b)
  BY Zenon DEF Ordered, BallotsOrdered, LessAndCompatible, Compatible
<1>6. t.b # NullBallot /\ LessAndCompatible(h, t.b)
  BY <1>1, <1>3, <1>4, <1>5, BallotOrder DEF LessAndCompatible, Compatible
<1>7. Ordered(t)
  BY <1>1, <1>4, <1>6 DEF Ordered, BallotsOrdered
<1> QED BY <1>7 DEF t

LEMMA InitialOrdered == Ordered(InitialState)
BY DEF Ordered, BallotsOrdered, InitialState

\* setStateFromEnvelope rebuilds an ordered state from a statement that was
\* made in an ordered state.
LEMMA RestoredOrdered ==
    ASSUME NEW s \in State, Ordered(s)
    PROVE  Ordered(StateFromStatement(CreateStatement(s)))
<1> DEFINE st == CreateStatement(s)
           t == StateFromStatement(st)
<1>1. /\ s.p \in Ballot /\ s.pPrime \in Ballot /\ s.h \in Ballot /\ s.c \in Ballot /\ s.b \in Ballot
  BY DEF State
<1>2. /\ s.h[1] \in Nat /\ s.h[2] \in Nat /\ s.h = <<s.h[1], s.h[2]>>
      /\ s.c[1] \in Nat /\ s.c[2] \in Nat /\ s.c = <<s.c[1], s.c[2]>>
      /\ s.h[1] <= UINT32_MAX
  BY <1>1, BallotParts
<1>3. s.h # NullBallot => s.b # NullBallot /\ s.h[2] = s.b[2]
  BY DEF Ordered, BallotsOrdered, LessAndCompatible, Compatible
<1>4. s.c # NullBallot => s.h # NullBallot /\ s.c[2] = s.h[2]
  BY DEF Ordered, BallotsOrdered, LessAndCompatible, Compatible
<1>5. CASE s.phase = "PREPARE"
  <2>1. /\ t.phase = "PREPARE" /\ t.b = s.b /\ t.p = s.p /\ t.pPrime = s.pPrime
        /\ t.h = IF s.h[1] = 0 THEN NullBallot ELSE <<s.h[1], s.b[2]>>
        /\ t.c = IF s.c[1] = 0 THEN NullBallot ELSE <<s.c[1], s.b[2]>>
    BY ZenonT(60), <1>5 DEF CreateStatement, StateFromStatement, InitialState
  <2> HIDE DEF t
  <2>2. t.h = NullBallot \/ t.h = s.h
    BY <1>2, <1>3, <2>1 DEF NullBallot
  <2>3. t.c = NullBallot \/ (t.c = s.c /\ t.h = s.h)
    <3>1. s.c # NullBallot => s.c[1] <= s.h[1]
      BY <1>2 DEF Ordered, BallotsOrdered, LessAndCompatible, LessEq, Less
    <3> QED BY <1>2, <1>3, <1>4, <2>1, <3>1 DEF NullBallot
  <2>4. Ordered(t)
    BY <2>1, <2>2, <2>3 DEF Ordered, BallotsOrdered
  <2> QED BY <2>4 DEF t
<1>6. CASE s.phase = "CONFIRM"
  <2>1. s.h # NullBallot /\ s.c # NullBallot
    BY <1>6 DEF Ordered, BallotsOrdered
  <2>2. /\ t.phase = "CONFIRM" /\ t.b = s.b /\ t.pPrime = NullBallot
        /\ t.h = <<s.h[1], s.b[2]>> /\ t.c = <<s.c[1], s.b[2]>>
    BY ZenonT(60), <1>6 DEF CreateStatement, StateFromStatement, InitialState
  <2> HIDE DEF t
  <2>3. t.h = s.h /\ t.c = s.c
    BY <1>2, <1>3, <1>4, <2>1, <2>2
  <2>4. Ordered(t)
    BY Zenon, <1>6, <2>2, <2>3 DEF Ordered, BallotsOrdered
  <2> QED BY <2>4 DEF t
<1>7. CASE s.phase = "EXTERNALIZE"
  <2>1. s.h # NullBallot /\ s.c # NullBallot
    BY <1>7 DEF Ordered, BallotsOrdered
  <2>2. /\ t.phase = "EXTERNALIZE" /\ t.b = <<UINT32_MAX, s.c[2]>> /\ t.pPrime = NullBallot
        /\ t.h = <<s.h[1], s.c[2]>> /\ t.c = s.c
    BY ZenonT(60), <1>7 DEF CreateStatement, StateFromStatement, InitialState
  <2> HIDE DEF t
  <2>3. t.h = s.h
    BY <1>2, <1>4, <2>1, <2>2
  <2>4. t.b # NullBallot /\ LessAndCompatible(t.h, t.b)
    BY <1>2, <1>4, <2>1, <2>2, <2>3, BallotsAssumption
       DEF LessAndCompatible, LessEq, Less, Compatible, NullBallot
  <2>5. Ordered(t)
    BY <1>7, <2>1, <2>2, <2>3, <2>4 DEF Ordered, BallotsOrdered
  <2> QED BY <2>5 DEF t
<1> QED BY <1>5, <1>6, <1>7 DEF State, Phase

-----------------------------------------------------------------------------
(* The inductive invariant: what a node may restart from, now or when an   *)
(* emitCurrentStateStatement in progress returns, is ordered as well.      *)

Restorable(st) == Ordered(StateFromStatement(st))
FramesRestorable(frames) ==
    \A i \in DOMAIN frames : frames[i].call = "emit" => Restorable(frames[i].st)
OrderedInv ==
    \A n \in Node :
        /\ Ordered(bp[n])
        /\ Restorable(lastEmit[n])
        /\ Restorable(lastEnvelope[n])
        /\ FramesRestorable(stack[n])

LEMMA PushRestorable ==
    ASSUME NEW frame \in Frame, frame.call = "emit" => Restorable(frame.st),
           NEW rest \in Seq(Frame), FramesRestorable(rest)
    PROVE  FramesRestorable(<<frame>> \o rest)
<1> DEFINE frames == <<frame>> \o rest
<1> SUFFICES ASSUME NEW i \in DOMAIN frames, frames[i].call = "emit"
             PROVE  Restorable(frames[i].st)
  BY DEF FramesRestorable
<1>1. CASE i = 1
  BY <1>1
<1>2. CASE i # 1
  <2>1. i - 1 \in DOMAIN rest /\ frames[i] = rest[i - 1]
    BY <1>2
  <2> HIDE DEF frames
  <2> QED BY <2>1 DEF FramesRestorable
<1> QED BY <1>1, <1>2

LEMMA PopRestorable ==
    ASSUME NEW frames \in Seq(Frame), frames # <<>>, FramesRestorable(frames)
    PROVE  /\ FramesRestorable(Tail(frames))
           /\ Head(frames).call = "emit" => Restorable(Head(frames).st)
<1>1. \A i \in DOMAIN Tail(frames) : i + 1 \in DOMAIN frames /\ Tail(frames)[i] = frames[i + 1]
  OBVIOUS
<1>2. 1 \in DOMAIN frames /\ Head(frames) = frames[1]
  OBVIOUS
<1> QED BY <1>1, <1>2 DEF FramesRestorable

LEMMA ResumeRestorable ==
    ASSUME TypeOK, OrderedInv, NEW n \in Node, InAdvance(n), NEW pc \in 1..5
    PROVE  FramesRestorable(Resume(n, pc)) /\ Resume(n, pc) \in Seq(Frame)
<1>1. Top(n).hint \in Statement /\ Tail(stack[n]) \in Seq(Frame) /\ Resume(n, pc) \in Seq(Frame)
  BY Zenon, AdvanceTop
<1>2. FramesRestorable(Tail(stack[n]))
  BY PopRestorable DEF TypeOK, OrderedInv, InAdvance
<1>3. AdvanceFrame(Top(n).hint, pc) \in Frame /\ AdvanceFrame(Top(n).hint, pc).call # "emit"
  BY Zenon, <1>1, FrameTypes DEF AdvanceFrame
<1> QED BY Zenon, <1>1, <1>2, <1>3, PushRestorable DEF Resume

LEMMA RecordRestorable ==
    ASSUME TypeOK, OrderedInv, NEW n \in Node, NEW m \in Node, NEW st \in Statement,
           NEW phase, NEW rest \in Seq(Frame), FramesRestorable(rest),
           Record(n, m, st, phase, rest)
    PROVE  \A o \in Node : FramesRestorable(stack'[o])
<1>1. FramesRestorable(<<AdvanceFrame(st, 1)>> \o rest)
  <2>1. AdvanceFrame(st, 1) \in Frame
    BY FrameTypes
  <2>2. AdvanceFrame(st, 1).call # "emit"
    BY DEF AdvanceFrame
  <2> QED BY <2>1, <2>2, PushRestorable
<1>2. FramesRestorable(<<>>)
  BY DEF FramesRestorable
<1>3. \E frames \in {rest, <<>>, <<AdvanceFrame(st, 1)>> \o rest} :
         stack' = [stack EXCEPT ![n] = frames]
  BY DEF Record
<1> QED BY ZenonT(60), <1>1, <1>2, <1>3 DEF TypeOK, OrderedInv

LEMMA EmitOrdered ==
    ASSUME TypeOK, OrderedInv, NEW n \in Node, NEW s \in State, Ordered(s),
           NEW rest \in Seq(Frame), FramesRestorable(rest), Emit(n, s, rest),
           UNCHANGED <<lastEmit, lastEnvelope>>
    PROVE  OrderedInv'
<1> DEFINE st == CreateStatement(s)
           frame == EmitFrame(st, s.b # NullBallot)
<1>1. st \in Statement /\ Restorable(st)
  BY CreateStatementType, RestoredOrdered DEF Restorable
<1>2. <<frame>> \o rest \in Seq(Frame) /\ FramesRestorable(<<frame>> \o rest)
  <2>1. frame \in Frame
    <3> HIDE DEF st
    <3> QED BY Zenon, <1>1, FrameTypes
  <2>2. frame.st = st
    BY DEF EmitFrame
  <2> HIDE DEF frame, st
  <2> QED BY <1>1, <2>1, <2>2, PushRestorable, PushType
<1>3. \A o \in Node : Ordered(bp'[o])
  BY Zenon DEF Emit, OrderedInv, TypeOK
<1>4. \A o \in Node : FramesRestorable(stack'[o])
  <2> HIDE DEF st, frame
  <2>1. CASE stack' = [stack EXCEPT ![n] = rest]
    BY <2>1 DEF TypeOK, OrderedInv
  <2>2. CASE stack' = [stack EXCEPT ![n] = <<>>]
    <3>1. FramesRestorable(<<>>)
      BY DEF FramesRestorable
    <3> QED BY Zenon, <2>2, <3>1 DEF TypeOK, OrderedInv
  <2>3. CASE Record(n, n, st, s.phase, <<frame>> \o rest)
    BY Zenon, <1>1, <1>2, <2>3, RecordRestorable
  <2> QED BY Zenon, <2>1, <2>2, <2>3 DEF Emit, st, frame
<1> QED BY Zenon, <1>3, <1>4 DEF OrderedInv

LEMMA HeardCheckOrdered ==
    ASSUME NEW n \in Node, NEW s \in State, Ordered(s)
    PROVE  Ordered(CheckHeardFromQuorum(n, s))
<1> DEFINE t == CheckHeardFromQuorum(n, s)
<1>1. /\ t.phase = s.phase /\ t.b = s.b /\ t.p = s.p /\ t.pPrime = s.pPrime
      /\ t.h = s.h /\ t.c = s.c
  BY DEF CheckHeardFromQuorum, State
<1> HIDE DEF t
<1>2. Ordered(t)
  BY Zenon, <1>1 DEF Ordered, BallotsOrdered
<1> QED BY <1>2 DEF t

LEMMA SendRestorable ==
    ASSUME TypeOK, OrderedInv, NEW n \in Node, NEW last, NEW rest, Restorable(last),
           SendLatestEnvelope(n, last, rest)
    PROVE  \A o \in Node : Restorable(lastEmit'[o])
BY Zenon DEF SendLatestEnvelope, OrderedInv, TypeOK

LEMMA AdvanceSlotOrdered ==
    ASSUME TypeOK, OrderedInv, PreparedForCommit, NEW n \in Node, AdvanceSlot(n)
    PROVE  OrderedInv'
<1> DEFINE hint == Top(n).hint
           value == WorkingBallot(hint)[2]
<1>1. InAdvance(n) /\ hint \in Statement
  BY AdvanceTop DEF AdvanceSlot
<1>2. bp[n] \in State /\ Ordered(bp[n])
  BY DEF TypeOK, OrderedInv
<1>3. value \in Value \cup {0}
  BY <1>1, WorkingValueType
<1>4. \A pc \in 1..5 : FramesRestorable(Resume(n, pc)) /\ Resume(n, pc) \in Seq(Frame)
  BY Zenon, <1>1, ResumeRestorable
<1> HIDE DEF hint
<1>5. CASE AttemptAcceptPrepared(n) /\ Pending(n, 1)
  <2> DEFINE ballot == HighestOf(AcceptablePrepared(n, hint))
  <2>1. ballot \in Ballot /\ ballot \in AcceptablePrepared(n, hint)
    BY <1>1, <1>5, AcceptedBallot DEF Pending, Works, hint
  <2>2. Emit(n, SetAcceptPrepared(bp[n], ballot), Resume(n, 2)) /\ UNCHANGED <<lastEmit, lastEnvelope>>
    BY <1>5 DEF AttemptAcceptPrepared, hint
  <2> HIDE DEF ballot
  <2>3. /\ bp[n].phase \in {"PREPARE", "CONFIRM"}
        /\ bp[n].phase = "CONFIRM" => LessAndCompatible(bp[n].p, ballot)
        /\ bp[n].pPrime = NullBallot \/ Less(bp[n].pPrime, ballot)
        /\ bp[n].p = NullBallot \/ ~LessAndCompatible(ballot, bp[n].p)
    BY Zenon, <2>1 DEF AcceptablePrepared
  <2>4. bp[n].phase = "CONFIRM" => LessAndCompatible(bp[n].h, bp[n].p)
    BY DEF PreparedForCommit
  <2>5. Ordered(SetAcceptPrepared(bp[n], ballot)) /\ SetAcceptPrepared(bp[n], ballot) \in State
    BY Zenon, <1>2, <2>1, <2>3, <2>4, SetAcceptPreparedOrdered, SetAcceptPreparedType
  <2> QED BY <1>4, <2>2, <2>5, EmitOrdered
<1>6. CASE AttemptConfirmPrepared(n) /\ Pending(n, 2)
  <2> DEFINE newH == HighestOf(ConfirmablePrepared(n, hint))
             newC == LowestCommit(n, hint, newH)
             s == SetConfirmPrepared(bp[n], newC, newH)
  <2>1. newH \in Ballot /\ newH \in ConfirmablePrepared(n, hint)
    BY <1>1, <1>6, ConfirmedBallot DEF Pending, Works, hint
  <2>2. \/ Emit(n, s, Resume(n, 3))
        \/ /\ bp' = [bp EXCEPT ![n] = s]
           /\ stack' = [stack EXCEPT ![n] = Resume(n, 3)]
    BY <1>6 DEF AttemptConfirmPrepared, hint
  <2>3. UNCHANGED <<lastEmit, lastEnvelope>>
    BY <1>6 DEF AttemptConfirmPrepared
  <2> HIDE DEF newH
  <2>4. newC \in Ballot /\ (newC # NullBallot => LessAndCompatible(newC, newH))
    BY <1>1, <2>1, CommitBallot
  <2> HIDE DEF newC
  <2>5. bp[n].phase = "PREPARE" /\ (bp[n].h = NullBallot \/ Less(bp[n].h, newH))
    BY Zenon, <2>1 DEF ConfirmablePrepared
  <2>6. Ordered(s) /\ s \in State
    BY Zenon, <1>2, <2>1, <2>4, <2>5, SetConfirmPreparedOrdered, SetConfirmPreparedType
  <2> HIDE DEF s
  <2>7. CASE Emit(n, s, Resume(n, 3))
    BY <1>4, <2>3, <2>6, <2>7, EmitOrdered
  <2>8. CASE bp' = [bp EXCEPT ![n] = s] /\ stack' = [stack EXCEPT ![n] = Resume(n, 3)]
    <3>1. \A o \in Node : Ordered(bp'[o])
      BY Zenon, <2>6, <2>8 DEF OrderedInv, TypeOK
    <3>2. \A o \in Node : FramesRestorable(stack'[o])
      BY <1>4, <2>8 DEF OrderedInv, TypeOK
    <3> QED BY Zenon, <2>3, <3>1, <3>2 DEF OrderedInv
  <2> QED BY <2>2, <2>7, <2>8
<1>7. CASE AttemptAcceptCommit(n) /\ Pending(n, 3)
  <2> DEFINE i == AcceptableCommit(n, hint)
             c == <<i[1], value>>
             h == <<i[2], value>>
             s == SetAcceptCommit(bp[n], c, h)
  <2>1. i \in Counter \X Counter /\ i[1] <= i[2]
    BY Zenon, <1>1, CommitIntervals
  <2>2. i[1] # 0
    BY <1>7 DEF Pending, Works, hint
  <2>3. Emit(n, s, Resume(n, 4)) /\ UNCHANGED <<lastEmit, lastEnvelope>>
    BY Zenon, <1>7 DEF AttemptAcceptCommit, hint
  <2>4. bp[n].phase # "EXTERNALIZE" /\ (bp[n].phase = "CONFIRM" => value = bp[n].h[2])
    BY Zenon, <2>2 DEF AcceptableCommit
  <2> HIDE DEF i, value
  <2>5. c \in Ballot /\ h \in Ballot /\ c # NullBallot /\ LessAndCompatible(c, h)
    BY <1>3, <2>1, <2>2, BallotsAssumption
       DEF Ballot, Counter, NullBallot, LessAndCompatible, LessEq, Less, Compatible
  <2>6. bp[n].phase \in {"PREPARE", "CONFIRM"} /\ (bp[n].phase = "CONFIRM" => Compatible(bp[n].h, h))
    BY Zenon, <1>2, <2>4 DEF State, Phase, Compatible
  <2> HIDE DEF c, h
  <2>7. Ordered(s) /\ s \in State
    BY Zenon, <1>2, <2>5, <2>6, SetAcceptCommitOrdered, SetAcceptCommitType
  <2> HIDE DEF s
  <2> QED BY <1>4, <2>3, <2>7, EmitOrdered
<1>8. CASE AttemptConfirmCommit(n) /\ Pending(n, 4)
  <2> DEFINE i == ConfirmableCommit(n, hint)
             c == <<i[1], value>>
             h == <<i[2], value>>
             s == SetConfirmCommit(bp[n], c, h)
  <2>1. i \in Counter \X Counter /\ i[1] <= i[2]
    BY Zenon, <1>1, CommitIntervals
  <2>2. i[1] # 0
    BY <1>8 DEF Pending, Works, hint
  <2>3. Emit(n, s, Resume(n, 5)) /\ UNCHANGED <<lastEmit, lastEnvelope>>
    BY Zenon, <1>8 DEF AttemptConfirmCommit, hint
  <2>4. bp[n].phase = "CONFIRM" /\ value = bp[n].c[2]
    BY Zenon, <2>2 DEF ConfirmableCommit
  <2> HIDE DEF i, value
  <2>5. c \in Ballot /\ h \in Ballot /\ c # NullBallot /\ LessAndCompatible(c, h)
    BY <1>3, <2>1, <2>2, BallotsAssumption
       DEF Ballot, Counter, NullBallot, LessAndCompatible, LessEq, Less, Compatible
  <2>6. Compatible(bp[n].c, h)
    BY Zenon, <2>4 DEF Compatible
  <2> HIDE DEF c, h
  <2>7. Ordered(s) /\ s \in State
    BY Zenon, <1>2, <2>4, <2>5, <2>6, SetConfirmCommitOrdered, SetConfirmCommitType
  <2> HIDE DEF s
  <2> QED BY <1>4, <2>3, <2>7, EmitOrdered
<1>9. CASE AttemptBump(n) /\ Bumps(n)
  <2> DEFINE ballot == AbandonedFor(n, BumpCounter(n))
             rest == <<BumpFrame>> \o Resume(n, 5)
  <2>1. ballot \in Ballot
    BY Zenon, BumpCounterType, BumpedType
  <2>2. CanUpdate(bp[n], ballot)
    BY Zenon, <1>9 DEF Bumps, CanAbandon
  <2>3. rest \in Seq(Frame) /\ FramesRestorable(rest)
    <3>1. Resume(n, 5) \in Seq(Frame) /\ FramesRestorable(Resume(n, 5))
      BY <1>4
    <3>2. BumpFrame \in Frame /\ BumpFrame.call # "emit"
      BY Zenon, FrameTypes DEF BumpFrame
    <3> QED BY Zenon, <3>1, <3>2, PushType, PushRestorable
  <2>4. Emit(n, BumpToBallot(bp[n], ballot), rest) /\ UNCHANGED <<lastEmit, lastEnvelope>>
    BY Zenon, <1>9 DEF AttemptBump
  <2> HIDE DEF ballot, rest
  <2>5. BumpToBallot(bp[n], ballot) \in State /\ Ordered(BumpToBallot(bp[n], ballot))
    BY Zenon, <1>2, <2>1, <2>2, BumpToBallotType, BumpToBallotOrdered
  <2> QED BY Zenon, <2>3, <2>4, <2>5, EmitOrdered
<1>10. CASE ExitAdvance(n)
  <2>1. \A o \in Node : Ordered(bp'[o])
    BY Zenon, <1>2, <1>10, HeardCheckOrdered DEF ExitAdvance, OrderedInv, TypeOK
  <2>2. FramesRestorable(Tail(stack[n]))
    BY Zenon, <1>1, PopRestorable DEF InAdvance, TypeOK, OrderedInv
  <2>3. \A o \in Node : FramesRestorable(stack'[o])
    BY Zenon, <1>10, <2>2 DEF ExitAdvance, OrderedInv, TypeOK
  <2>4. \A o \in Node : Restorable(lastEmit'[o])
    <3>1. Restorable(lastEnvelope[n])
      BY Zenon DEF OrderedInv
    <3> QED BY Zenon, <1>10, <3>1, SendRestorable DEF ExitAdvance
  <2>5. lastEnvelope' = lastEnvelope
    BY Zenon, <1>10 DEF ExitAdvance
  <2> QED BY Zenon, <2>1, <2>3, <2>4, <2>5 DEF OrderedInv
<1> QED BY <1>5, <1>6, <1>7, <1>8, <1>9, <1>10 DEF AdvanceSlot

LEMMA NextOrdered == TypeOK /\ PreparedForCommit /\ OrderedInv /\ [Next]_vars => OrderedInv'
<1> USE BallotsAssumption, BallotProtocolAssumption
<1> SUFFICES ASSUME TypeOK, PreparedForCommit, OrderedInv, [Next]_vars PROVE OrderedInv'
  OBVIOUS
<1>1. CASE UNCHANGED vars
  BY Zenon, <1>1 DEF vars, OrderedInv
<1>2. ASSUME NEW n \in Node, AdvanceSlot(n) PROVE OrderedInv'
  BY <1>2, AdvanceSlotOrdered
<1>3. ASSUME NEW n \in Node, ReturnFromEmit(n) PROVE OrderedInv'
  <2>1. FramesRestorable(Tail(stack[n])) /\ Restorable(Top(n).st)
    BY Zenon, <1>3, PopRestorable DEF ReturnFromEmit, Top, TypeOK, OrderedInv
  <2>2. \A o \in Node : FramesRestorable(stack'[o])
    BY Zenon, <1>3, <2>1 DEF ReturnFromEmit, TypeOK, OrderedInv
  <2>3. \A o \in Node : Restorable(lastEmit'[o]) /\ Restorable(lastEnvelope'[o])
    <3>1. CASE UNCHANGED <<lastEnvelope, lastEmit>>
      BY Zenon, <3>1 DEF OrderedInv
    <3>2. CASE /\ lastEnvelope' = [lastEnvelope EXCEPT ![n] = Top(n).st]
               /\ SendLatestEnvelope(n, Top(n).st, Tail(stack[n]))
      <4>1. \A o \in Node : Restorable(lastEmit'[o])
        BY Zenon, <2>1, <3>2, SendRestorable
      <4>2. \A o \in Node : Restorable(lastEnvelope'[o])
        BY Zenon, <2>1, <3>2 DEF OrderedInv, TypeOK
      <4> QED BY Zenon, <4>1, <4>2
    <3> QED BY Zenon, <1>3, <3>1, <3>2 DEF ReturnFromEmit
  <2> QED BY Zenon, <1>3, <2>2, <2>3 DEF ReturnFromEmit, OrderedInv
<1>4. ASSUME NEW n \in Node, ReturnFromBump(n) PROVE OrderedInv'
  <2>1. FramesRestorable(Tail(stack[n]))
    BY Zenon, <1>4, PopRestorable DEF ReturnFromBump, TypeOK, OrderedInv
  <2>2. \A o \in Node : FramesRestorable(stack'[o])
    BY Zenon, <1>4, <2>1 DEF ReturnFromBump, TypeOK, OrderedInv
  <2>3. Ordered(CheckHeardFromQuorum(n, bp[n]))
    BY Zenon, HeardCheckOrdered DEF TypeOK, OrderedInv
  <2>4. \A o \in Node : Ordered(bp'[o])
    BY Zenon, <1>4, <2>3 DEF ReturnFromBump, TypeOK, OrderedInv
  <2> QED BY Zenon, <1>4, <2>2, <2>4 DEF ReturnFromBump, OrderedInv
<1>5. ASSUME NEW n \in Node, NEW m \in Reaching[n], NEW st \in sent[m], Receive(n, m, st)
      PROVE  OrderedInv'
  <2>1. m \in Node /\ st \in Statement
    BY Zenon DEF TypeOK
  <2>2. Record(n, m, st, bp[n].phase, <<>>)
    BY Zenon, <1>5 DEF Receive
  <2>3. <<>> \in Seq(Frame) /\ FramesRestorable(<<>>)
    BY DEF FramesRestorable
  <2>4. \A o \in Node : FramesRestorable(stack'[o])
    BY Zenon, <2>1, <2>2, <2>3, RecordRestorable
  <2> QED BY Zenon, <1>5, <2>4 DEF Receive, OrderedInv
<1>6. BumpFrame \in Frame /\ <<BumpFrame>> \in Seq(Frame) /\ FramesRestorable(<<BumpFrame>>)
  BY FrameTypes DEF FramesRestorable, BumpFrame
<1>7. ASSUME NEW n \in Node, TimerExpires(n) PROVE OrderedInv'
  <2> DEFINE next == (bp[n].b[1] + 1) % (UINT32_MAX + 1)
             s == [bp[n] EXCEPT !.timer = FALSE]
             ballot == AbandonedFor(n, next)
  <2>1. next \in Counter
    BY Zenon, <1>7, NextCounter
  <2>2. \/ CanUpdate(bp[n], ballot) /\ Emit(n, BumpToBallot(s, ballot), <<BumpFrame>>)
        \/ bp' = [bp EXCEPT ![n] = s] /\ UNCHANGED stack
    BY Zenon, <1>7 DEF TimerExpires, CanAbandon
  <2> HIDE DEF next
  <2>3. ballot \in Ballot
    BY <2>1, BumpedType
  <2> HIDE DEF ballot
  <2>4. UNCHANGED <<lastEmit, lastEnvelope>>
    BY <1>7 DEF TimerExpires
  <2>5. /\ s \in State /\ s.phase = bp[n].phase /\ s.b = bp[n].b /\ s.c = bp[n].c
        /\ s.h = bp[n].h /\ s.p = bp[n].p /\ s.pPrime = bp[n].pPrime
    <3>1. bp[n] \in State
      BY Zenon DEF TypeOK
    <3> QED BY Zenon, <3>1 DEF State
  <2> HIDE DEF s
  <2>6. Ordered(s) /\ (CanUpdate(bp[n], ballot) => CanUpdate(s, ballot))
    BY Zenon, <2>5 DEF OrderedInv, Ordered, BallotsOrdered, CanUpdate
  <2>7. CASE CanUpdate(bp[n], ballot) /\ Emit(n, BumpToBallot(s, ballot), <<BumpFrame>>)
    <3>1. BumpToBallot(s, ballot) \in State /\ Ordered(BumpToBallot(s, ballot))
      BY Zenon, <2>3, <2>5, <2>6, <2>7, BumpToBallotType, BumpToBallotOrdered
    <3> QED BY Zenon, <1>6, <2>4, <2>7, <3>1, EmitOrdered
  <2>8. CASE bp' = [bp EXCEPT ![n] = s] /\ UNCHANGED stack
    BY Zenon, <2>4, <2>6, <2>8 DEF OrderedInv, TypeOK
  <2> QED BY Zenon, <2>2, <2>7, <2>8
<1>8. ASSUME NEW n \in Node, NEW value \in Candidates[n], NewCandidate(n, value) PROVE OrderedInv'
  <2> DEFINE ballot == BumpedBallot(bp[n], value, 1)
  <2>1. ballot \in Ballot
    <3>1. 1 \in Counter /\ value \in Value
      BY DEF Counter
    <3> QED BY Zenon, <3>1, BumpedType
  <2>2. \/ bp[n].b = NullBallot /\ Emit(n, BumpToBallot(bp[n], ballot), <<BumpFrame>>)
        \/ UNCHANGED <<bp, stack>>
    BY Zenon, <1>8 DEF NewCandidate
  <2> HIDE DEF ballot
  <2>3. UNCHANGED <<lastEmit, lastEnvelope>>
    BY Zenon, <1>8 DEF NewCandidate
  <2>4. bp[n] \in State /\ Ordered(bp[n]) /\ bp[n].phase # "EXTERNALIZE"
    BY Zenon, <1>8 DEF TypeOK, OrderedInv, NewCandidate, HasNewCandidate
  <2>5. CASE bp[n].b = NullBallot /\ Emit(n, BumpToBallot(bp[n], ballot), <<BumpFrame>>)
    <3>1. CanUpdate(bp[n], ballot)
      BY Zenon, <2>4, <2>5 DEF CanUpdate, State, Phase
    <3>2. BumpToBallot(bp[n], ballot) \in State /\ Ordered(BumpToBallot(bp[n], ballot))
      BY Zenon, <2>1, <2>4, <3>1, BumpToBallotType, BumpToBallotOrdered
    <3> QED BY Zenon, <1>6, <2>3, <2>5, <3>2, EmitOrdered
  <2>6. CASE UNCHANGED <<bp, stack>>
    BY Zenon, <2>3, <2>6 DEF OrderedInv
  <2> QED BY Zenon, <2>2, <2>5, <2>6
<1>9. ASSUME NEW n \in Node, Restart(n) PROVE OrderedInv'
  <2>1. Ordered(StateFromStatement(lastEmit[n])) /\ Restorable(lastEmit[n])
    BY Zenon DEF OrderedInv, Restorable
  <2>2. FramesRestorable(<<>>)
    BY DEF FramesRestorable
  <2>3. /\ bp' = [bp EXCEPT ![n] = StateFromStatement(lastEmit[n])]
        /\ lastEnvelope' = [lastEnvelope EXCEPT ![n] = lastEmit[n]]
        /\ stack' = [stack EXCEPT ![n] = <<>>] /\ lastEmit' = lastEmit
    BY Zenon, <1>9 DEF Restart
  <2> QED BY Zenon, <2>1, <2>2, <2>3 DEF OrderedInv, TypeOK
<1> QED BY Zenon, <1>1, <1>2, <1>3, <1>4, <1>5, <1>7, <1>8, <1>9 DEF Next

\* The assertions of checkInvariants never fail, at any step of any handler and
\* after any restart, in an execution in which what a node accepts as committed
\* it has accepted as prepared.
THEOREM InvariantsHold == Spec /\ []PreparedForCommit => []CheckInvariants
<1>1. Init => OrderedInv
  <2> SUFFICES ASSUME Init PROVE OrderedInv
    OBVIOUS
  <2>1. Restorable(NoStatement)
    BY InitialOrdered DEF Restorable, StateFromStatement, NoStatement
  <2>2. FramesRestorable(<<>>)
    BY DEF FramesRestorable
  <2> QED BY Zenon, <2>1, <2>2, InitialOrdered DEF Init, OrderedInv
<1>2. OrderedInv => CheckInvariants
  BY DEF OrderedInv, Ordered, CheckInvariants
<1> QED BY <1>1, <1>2, NextOrdered, TypeCorrect, PTL DEF Spec
=============================================================================
