------------------------ MODULE BallotProtocolProofs ------------------------
(***************************************************************************)
(* Theorems about BallotProtocol, for every set of nodes, every choice of  *)
(* quorum slices and every bound.                                          *)
(***************************************************************************)
EXTENDS BallotProtocol, WellFoundedInduction, TLAPS

-----------------------------------------------------------------------------
(* Minima and maxima: what the iterations of the code over ordered sets    *)
(* find is a member of the set.                                            *)

LEMMA NatMinimum ==
    ASSUME NEW S \in SUBSET Nat, S # {}
    PROVE  \E x \in S : \A y \in S : x <= y
<1> DEFINE R == {ss \in Nat \X Nat : ss[1] < ss[2]}
<1>1. IsWellFoundedOn(R, Nat)
  BY NatLessThanWellFounded DEF OpToRel
<1>2. PICK x \in S : \A y \in S : ~(<<y, x>> \in R)
  <2> HIDE DEF R
  <2> QED BY Zenon, <1>1, WFMin
<1>3. \A y \in S : ~(y < x)
  BY Zenon, <1>2
<1> QED BY <1>3

LEMMA NatMaximum ==
    ASSUME NEW k \in Nat, NEW S \in SUBSET (0..k), S # {}
    PROVE  \E x \in S : \A y \in S : y <= x
<1> DEFINE T == {d \in Nat : k - d \in S}
<1>1. T \in SUBSET Nat /\ T # {}
  <2>1. PICK x \in S : TRUE
    BY Zenon
  <2>2. k - x \in T
    BY <2>1
  <2> QED BY <2>2
<1>2. PICK d \in T : \A y \in T : d <= y
  <2> HIDE DEF T
  <2> QED BY <1>1, NatMinimum
<1>3. \A y \in S : d <= k - y
  <2> TAKE y \in S
  <2>1. k - y \in T
    OBVIOUS
  <2> QED BY Zenon, <1>2, <2>1
<1> QED BY <1>2, <1>3

LEMMA HighestIsMember ==
    ASSUME NEW S \in SUBSET Ballot, S # {}
    PROVE  HighestOf(S) \in S /\ \A o \in S : LessEq(o, HighestOf(S))
<1> USE BallotsAssumption
<1> DEFINE C == {x[1] : x \in S}
<1>1. C \in SUBSET (0..UINT32_MAX) /\ C # {}
  BY DEF Ballot, Counter
<1>2. PICK k \in C : \A y \in C : y <= k
  <2> HIDE DEF C
  <2> QED BY Zenon, <1>1, NatMaximum
<1> DEFINE V == {x[2] : x \in {y \in S : y[1] = k}}
<1>3. V \in SUBSET (0..MaxValue) /\ V # {}
  BY <1>2 DEF Ballot, Value
<1>4. PICK v \in V : \A y \in V : y <= v
  <2> HIDE DEF V
  <2> QED BY Zenon, <1>3, NatMaximum
<1>5. PICK x \in S : x[1] = k /\ x[2] = v
  BY <1>4
<1>6. \A o \in S : LessEq(o, x)
  <2> SUFFICES ASSUME NEW o \in S PROVE LessEq(o, x)
    OBVIOUS
  <2>1. o[1] \in Nat /\ o[2] \in Nat /\ x[1] \in Nat /\ x[2] \in Nat
    BY DEF Ballot, Counter, Value
  <2>2. o[1] <= x[1]
    BY <1>2, <1>5
  <2>3. o[1] = x[1] => o[2] <= x[2]
    BY <1>4, <1>5
  <2>4. o = <<o[1], o[2]>> /\ x = <<x[1], x[2]>>
    BY DEF Ballot
  <2> QED BY <2>1, <2>2, <2>3, <2>4 DEF LessEq, Less
<1> QED BY <1>6 DEF HighestOf

LEMMA LowestIsMember ==
    ASSUME NEW S \in SUBSET Ballot, S # {}
    PROVE  LowestOf(S) \in S
<1> USE BallotsAssumption
<1> DEFINE C == {x[1] : x \in S}
<1>1. C \in SUBSET Nat /\ C # {}
  BY DEF Ballot, Counter
<1>2. PICK k \in C : \A y \in C : k <= y
  <2> HIDE DEF C
  <2> QED BY <1>1, NatMinimum
<1> DEFINE V == {x[2] : x \in {y \in S : y[1] = k}}
<1>3. V \in SUBSET Nat /\ V # {}
  BY <1>2 DEF Ballot, Value
<1>4. PICK v \in V : \A y \in V : v <= y
  <2> HIDE DEF V
  <2> QED BY <1>3, NatMinimum
<1>5. PICK x \in S : x[1] = k /\ x[2] = v
  BY <1>4
<1>6. \A o \in S : LessEq(x, o)
  <2> SUFFICES ASSUME NEW o \in S PROVE LessEq(x, o)
    OBVIOUS
  <2>1. o[1] \in Nat /\ o[2] \in Nat /\ x[1] \in Nat /\ x[2] \in Nat
    BY DEF Ballot, Counter, Value
  <2>2. x[1] <= o[1]
    BY <1>2, <1>5
  <2>3. o[1] = x[1] => x[2] <= o[2]
    BY <1>4, <1>5
  <2>4. o = <<o[1], o[2]>> /\ x = <<x[1], x[2]>>
    BY DEF Ballot
  <2> QED BY <2>1, <2>2, <2>3, <2>4 DEF LessEq, Less
<1> QED BY <1>6 DEF LowestOf

-----------------------------------------------------------------------------
(* Types of what the setters compute.                                      *)

LEMMA StatementFields ==
    ASSUME NEW st \in Statement
    PROVE  /\ st.type = "PREPARE" => st \in PrepareStatement
           /\ st.type = "CONFIRM" => st \in ConfirmStatement
           /\ st.type = "EXTERNALIZE" => st \in ExternalizeStatement
           /\ st.type \in {"PREPARE", "CONFIRM", "EXTERNALIZE"}
           /\ st # NoStatement
BY DEF Statement, PrepareStatement, ConfirmStatement, ExternalizeStatement, NoStatement

LEMMA NullBallotType == NullBallot \in Ballot
BY BallotsAssumption DEF NullBallot, Ballot, Counter

LEMMA BumpToBallotType ==
    ASSUME NEW s \in State, NEW ballot \in Ballot
    PROVE  BumpToBallot(s, ballot) \in State
BY Zenon, NullBallotType DEF BumpToBallot, State

LEMMA UpdateCurrentType ==
    ASSUME NEW s \in State, NEW ballot \in Ballot
    PROVE  UpdateCurrentIfNeeded(s, ballot) \in State
BY BumpToBallotType DEF UpdateCurrentIfNeeded

LEMMA SetAcceptPreparedType ==
    ASSUME NEW s \in State, NEW ballot \in Ballot
    PROVE  SetAcceptPrepared(s, ballot) \in State
<1>1. SetPrepared(s, ballot) \in State
  BY Zenon DEF SetPrepared, State
<1> QED BY <1>1, NullBallotType DEF SetAcceptPrepared, State

LEMMA SetConfirmPreparedType ==
    ASSUME NEW s \in State, NEW newC \in Ballot, NEW newH \in Ballot
    PROVE  SetConfirmPrepared(s, newC, newH) \in State
<1> DEFINE onBallot == s.b = NullBallot \/ Compatible(s.b, newH)
           s1 == [s EXCEPT !.z = newH[2],
                           !.h = IF onBallot /\ (@ = NullBallot \/ Less(@, newH))
                                 THEN newH ELSE @,
                           !.c = IF onBallot /\ newC # NullBallot THEN newC ELSE @]
<1>1. newH[2] \in Value \cup {0}
  BY DEF Ballot
<1>2. s1 \in State
  BY Zenon, <1>1 DEF State
<1>3. SetConfirmPrepared(s, newC, newH) = UpdateCurrentIfNeeded(s1, newH)
  BY DEF SetConfirmPrepared
<1> HIDE DEF s1
<1> QED BY <1>2, <1>3, UpdateCurrentType

LEMMA SetAcceptCommitType ==
    ASSUME NEW s \in State, NEW c \in Ballot, NEW h \in Ballot
    PROVE  SetAcceptCommit(s, c, h) \in State
<1> DEFINE s1 == [s EXCEPT !.z = h[2], !.c = c, !.h = h]
           s2 == IF s1.b # NullBallot /\ ~LessAndCompatible(h, s1.b)
                 THEN BumpToBallot(s1, h) ELSE s1
           s3 == IF s.phase = "PREPARE"
                 THEN [s2 EXCEPT !.phase = "CONFIRM", !.pPrime = NullBallot] ELSE s1
<1>1. h[2] \in Value \cup {0}
  BY DEF Ballot
<1>2. s1 \in State
  BY Zenon, <1>1 DEF State
<1>3. s2 \in State
  <2> HIDE DEF s1
  <2> QED BY <1>2, BumpToBallotType
<1>4. s3 \in State
  <2> HIDE DEF s1, s2
  <2> QED BY Zenon, <1>2, <1>3, NullBallotType DEF State, Phase
<1>5. SetAcceptCommit(s, c, h) = UpdateCurrentIfNeeded(s3, h)
  BY DEF SetAcceptCommit
<1> HIDE DEF s3
<1> QED BY <1>4, <1>5, UpdateCurrentType

LEMMA SetConfirmCommitType ==
    ASSUME NEW s \in State, NEW c \in Ballot, NEW h \in Ballot
    PROVE  SetConfirmCommit(s, c, h) \in State
<1> DEFINE s1 == [s EXCEPT !.c = c, !.h = h]
<1>1. s1 \in State
  BY Zenon DEF State
<1>2. UpdateCurrentIfNeeded(s1, h) \in State
  <2> HIDE DEF s1
  <2> QED BY <1>1, UpdateCurrentType
<1> QED BY <1>2 DEF SetConfirmCommit, State, Phase

LEMMA CreateStatementType ==
    ASSUME NEW s \in State
    PROVE  CreateStatement(s) \in Statement
<1>1. /\ s.b \in Ballot /\ s.p \in Ballot /\ s.pPrime \in Ballot
      /\ s.c \in Ballot /\ s.h \in Ballot
      /\ s.c[1] \in Counter /\ s.h[1] \in Counter /\ s.p[1] \in Counter
  BY DEF State, Ballot
<1>2. CASE s.phase = "PREPARE"
  BY <1>1, <1>2 DEF CreateStatement, Statement, PrepareStatement
<1>3. CASE s.phase = "CONFIRM"
  BY <1>1, <1>3 DEF CreateStatement, Statement, ConfirmStatement
<1>4. CASE s.phase = "EXTERNALIZE"
  BY <1>1, <1>4 DEF CreateStatement, Statement, ExternalizeStatement
<1> QED BY <1>2, <1>3, <1>4 DEF State, Phase

LEMMA StateFromStatementType ==
    ASSUME NEW st \in StatementOrNone
    PROVE  StateFromStatement(st) \in State
<1> USE BallotsAssumption
<1>0. InitialState \in State
  BY NullBallotType DEF InitialState, State, Phase
<1>1. CASE st.type = "PREPARE"
  <2>1. st \in PrepareStatement
    BY <1>1, StatementFields DEF StatementOrNone, NoStatement
  <2>2. /\ st.b \in Ballot /\ st.p \in Ballot /\ st.pPrime \in Ballot
        /\ <<st.nH, st.b[2]>> \in Ballot /\ <<st.nC, st.b[2]>> \in Ballot
    BY <2>1 DEF PrepareStatement, Ballot
  <2> QED BY Zenon, <1>0, <1>1, <2>2, NullBallotType DEF StateFromStatement, State
<1>2. CASE st.type = "CONFIRM"
  <2>1. st \in ConfirmStatement
    BY <1>2, StatementFields DEF StatementOrNone, NoStatement
  <2>2. /\ st.b \in Ballot /\ <<st.nPrepared, st.b[2]>> \in Ballot
        /\ <<st.nH, st.b[2]>> \in Ballot /\ <<st.nC, st.b[2]>> \in Ballot
    BY <2>1 DEF ConfirmStatement, Ballot
  <2> QED BY Zenon, <1>0, <1>2, <2>2 DEF StateFromStatement, State, Phase
<1>3. CASE st.type = "EXTERNALIZE"
  <2>1. st \in ExternalizeStatement
    BY <1>3, StatementFields DEF StatementOrNone, NoStatement
  <2>2. /\ st.commit \in Ballot /\ <<UINT32_MAX, st.commit[2]>> \in Ballot
        /\ <<st.nH, st.commit[2]>> \in Ballot
    BY <2>1 DEF ExternalizeStatement, Ballot, Counter
  <2> QED BY Zenon, <1>0, <1>3, <2>2 DEF StateFromStatement, State, Phase
<1>4. CASE st.type = "NONE"
  BY <1>0, <1>4 DEF StateFromStatement
<1> QED BY <1>1, <1>2, <1>3, <1>4, StatementFields DEF StatementOrNone, NoStatement

LEMMA CandidatesType ==
    ASSUME NEW hint \in Statement, NEW S \in SUBSET Statement
    PROVE  PrepareCandidates(hint, S) \in SUBSET Ballot
<1> USE BallotsAssumption
<1>1. HintBallots(hint) \in SUBSET Ballot
  <2>1. CASE hint.type = "PREPARE"
    BY <2>1, StatementFields DEF HintBallots, PrepareStatement
  <2>2. CASE hint.type = "CONFIRM"
    BY <2>2, StatementFields DEF HintBallots, ConfirmStatement, Ballot, Counter
  <2>3. CASE hint.type = "EXTERNALIZE"
    BY <2>3, StatementFields DEF HintBallots, ExternalizeStatement, Ballot, Counter
  <2> QED BY <2>1, <2>2, <2>3, StatementFields
<1>2. ASSUME NEW top \in Ballot, NEW st \in Statement
      PROVE  CandidatesOf(top, st) \in SUBSET Ballot
  <2>1. CASE st.type = "PREPARE"
    BY <2>1, StatementFields DEF CandidatesOf, PrepareStatement
  <2>2. CASE st.type = "CONFIRM"
    BY <2>2, StatementFields DEF CandidatesOf, ConfirmStatement, Ballot
  <2>3. CASE st.type = "EXTERNALIZE"
    BY <2>3, StatementFields DEF CandidatesOf
  <2> QED BY <2>1, <2>2, <2>3, StatementFields
<1> QED BY <1>1, <1>2 DEF PrepareCandidates

LEMMA BoundariesType ==
    ASSUME NEW value, NEW S \in SUBSET Statement
    PROVE  CommitBoundaries(value, S) \in SUBSET Counter
<1> USE BallotsAssumption
<1>1. ASSUME NEW st \in Statement
      PROVE  CommitBoundariesOf(value, st) \in SUBSET Counter
  <2>1. CASE st.type = "PREPARE"
    BY <2>1, StatementFields DEF CommitBoundariesOf, PrepareStatement
  <2>2. CASE st.type = "CONFIRM"
    BY <2>2, StatementFields DEF CommitBoundariesOf, ConfirmStatement
  <2>3. CASE st.type = "EXTERNALIZE"
    BY <2>3, StatementFields DEF CommitBoundariesOf, ExternalizeStatement, Ballot, Counter
  <2> QED BY <2>1, <2>2, <2>3, StatementFields
<1> QED BY <1>1 DEF CommitBoundaries

\* findExtendedInterval returns an interval.
LEMMA IntervalType ==
    ASSUME NEW B \in SUBSET Counter, NEW passing
    PROVE  /\ ExtendedInterval(B, passing) \in Counter \X Counter
           /\ ExtendedInterval(B, passing)[1] <= ExtendedInterval(B, passing)[2]
<1> USE BallotsAssumption
<1> DEFINE tops == {x \in B : <<x, x>> \in passing}
           top == CHOOSE x \in tops : \A y \in tops : y <= x
           lows == {x \in B : x <= top /\ \A y \in B :
                       x <= y /\ y <= top => <<y, top>> \in passing}
           low == CHOOSE x \in lows : \A y \in lows : x <= y
<1>1. CASE tops = {}
  BY <1>1 DEF ExtendedInterval, Counter
<1>2. CASE tops # {}
  <2>1. top \in tops
    <3>1. tops \in SUBSET (0..UINT32_MAX)
      BY Zenon DEF Counter
    <3>2. \E x \in tops : \A y \in tops : y <= x
      <4> HIDE DEF tops
      <4> QED BY Zenon, <1>2, <3>1, NatMaximum
    <3> QED BY Zenon, <3>2
  <2>2. ExtendedInterval(B, passing) = <<low, top>>
    BY Zenon, <1>2 DEF ExtendedInterval
  <2>3. B \in SUBSET Nat
    BY DEF Counter
  <2> HIDE DEF top
  <2>4. top \in B /\ <<top, top>> \in passing /\ top \in Nat
    BY <2>1, <2>3
  <2>5. top \in lows
    <3>1. ASSUME NEW y \in B, top <= y, y <= top PROVE <<y, top>> \in passing
      <4>1. y = top
        BY <2>3, <2>4, <3>1
      <4> QED BY <2>4, <4>1
    <3> QED BY <2>4, <3>1
  <2>6. low \in lows
    <3>1. lows \in SUBSET Nat /\ lows # {}
      BY Zenon, <2>3, <2>5
    <3>2. \E x \in lows : \A y \in lows : x <= y
      <4> HIDE DEF lows
      <4> QED BY <3>1, NatMinimum
    <3> QED BY Zenon, <3>2
  <2> HIDE DEF low
  <2>7. low \in B /\ low <= top
    BY <2>6
  <2> QED BY <2>2, <2>4, <2>7
<1> QED BY <1>1, <1>2

-----------------------------------------------------------------------------
(* Type correctness.                                                       *)

LEMMA FrameTypes ==
    /\ \A st \in Statement : \A pc \in 1..5 : AdvanceFrame(st, pc) \in Frame
    /\ \A st \in Statement : \A canEmit \in BOOLEAN : EmitFrame(st, canEmit) \in Frame
    /\ BumpFrame \in Frame
BY DEF Frame, AdvanceFrame, EmitFrame, BumpFrame

LEMMA PushType ==
    ASSUME NEW frame \in Frame, NEW rest \in Seq(Frame)
    PROVE  <<frame>> \o rest \in Seq(Frame)
OBVIOUS

LEMMA PopType ==
    ASSUME NEW frames \in Seq(Frame), frames # <<>>
    PROVE  Head(frames) \in Frame /\ Tail(frames) \in Seq(Frame)
OBVIOUS

LEMMA RecordType ==
    ASSUME TypeOK, NEW n \in Node, NEW m \in Node, NEW st \in Statement,
           NEW phase, NEW rest \in Seq(Frame), Record(n, m, st, phase, rest)
    PROVE  /\ latest' \in [Node -> [Node -> StatementOrNone]]
           /\ stack' \in [Node -> Seq(Frame)]
           /\ fullyValidated' \in [Node -> BOOLEAN]
           /\ thrown' \subseteq Node
<1>1. latest' \in [Node -> [Node -> StatementOrNone]]
  BY DEF Record, TypeOK, StatementOrNone
<1>2. <<AdvanceFrame(st, 1)>> \o rest \in Seq(Frame)
  <2>1. AdvanceFrame(st, 1) \in Frame
    BY FrameTypes
  <2> QED BY <2>1, PushType
<1>3. <<>> \in Seq(Frame)
  OBVIOUS
<1>4. CASE phase = "EXTERNALIZE"
  <2>1. /\ stack' = [stack EXCEPT ![n] = rest]
        /\ fullyValidated' = fullyValidated /\ thrown' = thrown
    BY <1>4 DEF Record
  <2> QED BY <1>1, <2>1 DEF TypeOK
<1>5. CASE phase # "EXTERNALIZE"
  <2>1. fullyValidated' \in [Node -> BOOLEAN]
    BY Zenon, <1>5 DEF Record, TypeOK
  <2>2. \/ stack' = [stack EXCEPT ![n] = <<AdvanceFrame(st, 1)>> \o rest]
        \/ stack' = [stack EXCEPT ![n] = <<>>]
    BY <1>5 DEF Record
  <2>3. stack' \in [Node -> Seq(Frame)]
    BY ZenonT(60), <1>2, <1>3, <2>2 DEF TypeOK
  <2>4. thrown' \subseteq Node
    BY <1>5 DEF Record, TypeOK
  <2> QED BY <1>1, <2>1, <2>3, <2>4
<1> QED BY <1>4, <1>5

LEMMA EmitType ==
    ASSUME TypeOK, NEW n \in Node, NEW s \in State, NEW rest \in Seq(Frame),
           Emit(n, s, rest)
    PROVE  /\ bp' \in [Node -> State]
           /\ latest' \in [Node -> [Node -> StatementOrNone]]
           /\ stack' \in [Node -> Seq(Frame)]
           /\ fullyValidated' \in [Node -> BOOLEAN]
           /\ thrown' \subseteq Node
<1> DEFINE st == CreateStatement(s)
<1>1. st \in Statement
  BY CreateStatementType
<1>2. bp' \in [Node -> State]
  BY DEF Emit, TypeOK
<1>3. <<EmitFrame(st, s.b # NullBallot)>> \o rest \in Seq(Frame)
  <2>1. EmitFrame(st, s.b # NullBallot) \in Frame
    BY Zenon, <1>1, FrameTypes
  <2> QED BY <2>1, PushType
<1> HIDE DEF st
<1>4. CASE st = latest[n][n]
  <2>1. /\ stack' = [stack EXCEPT ![n] = rest]
        /\ latest' = latest /\ fullyValidated' = fullyValidated /\ thrown' = thrown
    BY <1>4 DEF Emit, st
  <2> QED BY <1>2, <2>1 DEF TypeOK
<1>5. CASE st # latest[n][n] /\ UNCHANGED <<latest, fullyValidated>>
                            /\ thrown' = thrown \cup {n} /\ stack' = [stack EXCEPT ![n] = <<>>]
  BY <1>2, <1>5 DEF TypeOK
<1>6. CASE Record(n, n, st, s.phase, <<EmitFrame(st, s.b # NullBallot)>> \o rest)
  BY Zenon, <1>1, <1>2, <1>3, <1>6, RecordType
<1> QED BY Zenon, <1>4, <1>5, <1>6 DEF Emit, st

LEMMA StatementsType ==
    ASSUME TypeOK, NEW n \in Node
    PROVE  Statements(n) \in SUBSET Statement
BY DEF TypeOK, Statements, Heard, StatementOrNone

\* The advanceSlot on top of a stack has a hint, and what Resume makes of the
\* stack is a stack.
LEMMA AdvanceTop ==
    ASSUME TypeOK, NEW n \in Node, InAdvance(n)
    PROVE  /\ Top(n).hint \in Statement
           /\ Tail(stack[n]) \in Seq(Frame)
           /\ \A pc \in 1..5 : Resume(n, pc) \in Seq(Frame)
<1>1. Top(n) \in Frame /\ Tail(stack[n]) \in Seq(Frame)
  BY PopType DEF TypeOK, InAdvance, Top
<1>2. Top(n).hint \in Statement
  BY <1>1 DEF InAdvance, Frame
<1>3. ASSUME NEW pc \in 1..5 PROVE Resume(n, pc) \in Seq(Frame)
  <2>1. AdvanceFrame(Top(n).hint, pc) \in Frame
    BY <1>2, FrameTypes
  <2> QED BY <1>1, <2>1, PushType DEF Resume
<1> QED BY <1>1, <1>2, <1>3

LEMMA AcceptedBallot ==
    ASSUME TypeOK, NEW n \in Node, NEW hint \in Statement, AcceptablePrepared(n, hint) # {}
    PROVE  /\ HighestOf(AcceptablePrepared(n, hint)) \in AcceptablePrepared(n, hint)
           /\ HighestOf(AcceptablePrepared(n, hint)) \in Ballot
<1>1. PrepareCandidates(hint, Statements(n)) \in SUBSET Ballot
  BY StatementsType, CandidatesType
<1>2. AcceptablePrepared(n, hint) \in SUBSET Ballot
  BY Zenon, <1>1 DEF AcceptablePrepared
<1> QED BY <1>2, HighestIsMember

LEMMA ConfirmedBallot ==
    ASSUME TypeOK, NEW n \in Node, NEW hint \in Statement, ConfirmablePrepared(n, hint) # {}
    PROVE  /\ HighestOf(ConfirmablePrepared(n, hint)) \in ConfirmablePrepared(n, hint)
           /\ HighestOf(ConfirmablePrepared(n, hint)) \in Ballot
<1>1. PrepareCandidates(hint, Statements(n)) \in SUBSET Ballot
  BY StatementsType, CandidatesType
<1>2. ConfirmablePrepared(n, hint) \in SUBSET Ballot
  BY <1>1 DEF ConfirmablePrepared
<1> QED BY <1>2, HighestIsMember

\* newC is unset or a ballot between b and newH that is compatible with newH.
LEMMA CommitBallot ==
    ASSUME TypeOK, NEW n \in Node, NEW hint \in Statement, NEW newH \in Ballot
    PROVE  /\ LowestCommit(n, hint, newH) \in Ballot
           /\ LowestCommit(n, hint, newH) # NullBallot
                => /\ LessAndCompatible(LowestCommit(n, hint, newH), newH)
                   /\ bp[n].c = NullBallot
<1> DEFINE aborted(x) == x # NullBallot /\ LessAndIncompatible(newH, x)
           range == {x \in PrepareCandidates(hint, Statements(n)) :
                       LessEq(bp[n].b, x) /\ LessAndCompatible(x, newH)}
           confirmed == {x \in range : \A y \in range : LessEq(x, y) => ConfirmPrepared(n, y)}
<1>1. confirmed \in SUBSET Ballot
  BY StatementsType, CandidatesType
<1>2. confirmed # {} => LowestOf(confirmed) \in confirmed
  <2> HIDE DEF confirmed
  <2> QED BY <1>1, LowestIsMember
<1>3. confirmed # {} => LowestOf(confirmed) \in Ballot /\ LessAndCompatible(LowestOf(confirmed), newH)
  BY Zenon, <1>1, <1>2
<1>4. LowestCommit(n, hint, newH) =
        IF bp[n].c # NullBallot \/ aborted(bp[n].p) \/ aborted(bp[n].pPrime) \/ confirmed = {}
        THEN NullBallot ELSE LowestOf(confirmed)
  BY Zenon DEF LowestCommit
<1> HIDE DEF confirmed, aborted
<1> QED BY <1>3, <1>4, NullBallotType

LEMMA WorkingValueType ==
    ASSUME NEW st \in Statement
    PROVE  WorkingBallot(st)[2] \in Value \cup {0}
<1>1. CASE st.type = "PREPARE"
  BY <1>1, StatementFields DEF WorkingBallot, PrepareStatement, Ballot
<1>2. CASE st.type = "CONFIRM"
  BY <1>2, StatementFields DEF WorkingBallot, ConfirmStatement, Ballot
<1>3. CASE st.type = "EXTERNALIZE"
  BY <1>3, StatementFields DEF WorkingBallot, ExternalizeStatement, Ballot
<1> QED BY <1>1, <1>2, <1>3, StatementFields

LEMMA CommitIntervals ==
    ASSUME TypeOK, NEW n \in Node, NEW hint \in Statement
    PROVE  /\ AcceptableCommit(n, hint) \in Counter \X Counter
           /\ AcceptableCommit(n, hint)[1] <= AcceptableCommit(n, hint)[2]
           /\ ConfirmableCommit(n, hint) \in Counter \X Counter
           /\ ConfirmableCommit(n, hint)[1] <= ConfirmableCommit(n, hint)[2]
<1> USE BallotsAssumption
<1> DEFINE value == WorkingBallot(hint)[2]
           B == CommitBoundaries(value, Statements(n))
           P == {i \in B \X B : AcceptCommit(n, value, i[1], i[2])}
           Q == {i \in B \X B : ConfirmCommit(n, value, i[1], i[2])}
<1>1. B \in SUBSET Counter
  BY StatementsType, BoundariesType
<1>2. AcceptableCommit(n, hint) \in {<<0, 0>>, ExtendedInterval(B, P)}
  BY Zenon DEF AcceptableCommit
<1>3. ConfirmableCommit(n, hint) \in {<<0, 0>>, ExtendedInterval(B, Q)}
  BY Zenon DEF ConfirmableCommit
<1>4. 0 \in Counter
  BY DEF Counter
<1> HIDE DEF B, P, Q
<1> QED BY <1>1, <1>2, <1>3, <1>4, IntervalType

LEMMA BumpCounterType ==
    ASSUME TypeOK, NEW n \in Node
    PROVE  BumpCounter(n) \in Counter
<1> USE BallotsAssumption
<1> DEFINE at(m) == StatementBallotCounter(latest[n][m])
           ahead(k) == isVBlocking(n, {m \in Heard(n) : at(m) > k})
           behind == {at(m) : m \in Heard(n)} \cap {k \in Counter : k > bp[n].b[1] /\ ~ahead(k)}
<1>1. behind \in SUBSET Nat /\ behind \in SUBSET Counter
  BY DEF Counter
<1>2. behind # {} => \E k \in behind : \A o \in behind : k <= o
  <2> HIDE DEF behind
  <2> QED BY <1>1, NatMinimum
<1>3. BumpCounter(n) = IF ahead(bp[n].b[1]) /\ behind # {}
                       THEN CHOOSE k \in behind : \A o \in behind : k <= o ELSE 0
  BY DEF BumpCounter
<1>4. 0 \in Counter
  BY DEF Counter
<1> HIDE DEF behind, ahead
<1> QED BY Zenon, <1>1, <1>2, <1>3, <1>4

LEMMA BumpedType ==
    ASSUME TypeOK, NEW n \in Node, NEW counter \in Counter
    PROVE  /\ AbandonedFor(n, counter) \in Ballot
           /\ \A value \in Value \cup {0} : BumpedBallot(bp[n], value, counter) \in Ballot
<1>1. bp[n].z \in Value \cup {0} /\ bp[n].b[2] \in Value \cup {0}
  BY DEF TypeOK, State, Ballot
<1>2. AbandonValue(n) \in Value \cup {0}
  BY <1>1 DEF AbandonValue, TypeOK
<1> QED BY <1>1, <1>2 DEF AbandonedFor, BumpedBallot, Ballot

LEMMA HeardCheckType ==
    ASSUME NEW n \in Node, NEW s \in State
    PROVE  CheckHeardFromQuorum(n, s) \in State
<1> DEFINE there == {m \in Heard(n) : latest[n][m].type = "PREPARE" => s.b[1] <= latest[n][m].b[1]}
           heard == isQuorum(n, there, Externalizing(n))
<1>1. heard \in BOOLEAN
  BY DEF isQuorum
<1>2. CheckHeardFromQuorum(n, s) =
        IF s.b = NullBallot THEN s
        ELSE [s EXCEPT !.heard = heard,
                       !.timer = heard /\ s.phase # "EXTERNALIZE" /\ (~s.heard \/ @)]
  BY DEF CheckHeardFromQuorum
<1> HIDE DEF heard
<1> QED BY ZenonT(60), <1>1, <1>2 DEF State

LEMMA SendType ==
    ASSUME TypeOK, NEW n \in Node, NEW last \in StatementOrNone, NEW rest,
           SendLatestEnvelope(n, last, rest)
    PROVE  /\ lastEmit' \in [Node -> StatementOrNone]
           /\ sent' \in [Node -> SUBSET Statement]
<1>1. CASE UNCHANGED <<lastEmit, sent>>
  BY <1>1 DEF TypeOK
<1>2. CASE /\ last # NoStatement
           /\ lastEmit' = [lastEmit EXCEPT ![n] = last]
           /\ sent' = [sent EXCEPT ![n] = (IF Delayed THEN @ ELSE {}) \cup {last}]
  <2>1. last \in Statement
    BY <1>2 DEF StatementOrNone
  <2>2. (IF Delayed THEN sent[n] ELSE {}) \cup {last} \in SUBSET Statement
    BY <2>1 DEF TypeOK
  <2> QED BY <1>2, <2>2 DEF TypeOK
<1> QED BY <1>1, <1>2 DEF SendLatestEnvelope

\* Every step of a running advanceSlot keeps the types.
LEMMA AdvanceSlotType ==
    ASSUME TypeOK, NEW n \in Node, AdvanceSlot(n)
    PROVE  TypeOK'
<1> DEFINE hint == Top(n).hint
<1>1. /\ InAdvance(n) /\ hint \in Statement /\ Tail(stack[n]) \in Seq(Frame)
      /\ \A pc \in 1..5 : Resume(n, pc) \in Seq(Frame)
  BY AdvanceTop DEF AdvanceSlot
<1>2. bp[n] \in State
  BY DEF TypeOK
<1>3. WorkingBallot(hint)[2] \in Value \cup {0}
  BY <1>1, WorkingValueType
<1> HIDE DEF hint
<1>4. CASE AttemptAcceptPrepared(n) /\ Pending(n, 1)
  <2> DEFINE ballot == HighestOf(AcceptablePrepared(n, hint))
  <2>1. ballot \in Ballot
    BY <1>1, <1>4, AcceptedBallot DEF Pending, Works, hint
  <2> HIDE DEF ballot
  <2>2. SetAcceptPrepared(bp[n], ballot) \in State /\ Resume(n, 2) \in Seq(Frame)
    BY <1>1, <1>2, <2>1, SetAcceptPreparedType
  <2>3. Emit(n, SetAcceptPrepared(bp[n], ballot), Resume(n, 2))
    BY <1>4 DEF AttemptAcceptPrepared, ballot, hint
  <2>4. UNCHANGED <<lastEnvelope, lastEmit, candidate, sent, externalized, timeouts, restarts>>
    BY <1>4 DEF AttemptAcceptPrepared
  <2>5. /\ bp' \in [Node -> State] /\ latest' \in [Node -> [Node -> StatementOrNone]]
        /\ stack' \in [Node -> Seq(Frame)] /\ fullyValidated' \in [Node -> BOOLEAN]
        /\ thrown' \subseteq Node
    BY <2>2, <2>3, EmitType
  <2> QED BY <2>4, <2>5 DEF TypeOK
<1>5. CASE AttemptConfirmPrepared(n) /\ Pending(n, 2)
  <2> DEFINE newH == HighestOf(ConfirmablePrepared(n, hint))
             newC == LowestCommit(n, hint, newH)
             s == SetConfirmPrepared(bp[n], newC, newH)
  <2>1. newH \in Ballot
    BY <1>1, <1>5, ConfirmedBallot DEF Pending, Works, hint
  <2> HIDE DEF newH
  <2>2. newC \in Ballot
    BY <1>1, <2>1, CommitBallot
  <2> HIDE DEF newC
  <2>3. s \in State /\ Resume(n, 3) \in Seq(Frame)
    BY <1>1, <1>2, <2>1, <2>2, SetConfirmPreparedType
  <2>4. UNCHANGED <<lastEnvelope, lastEmit, candidate, sent, externalized, timeouts, restarts>>
    BY <1>5 DEF AttemptConfirmPrepared
  <2>5. \/ Emit(n, s, Resume(n, 3))
        \/ /\ bp' = [bp EXCEPT ![n] = s]
           /\ stack' = [stack EXCEPT ![n] = Resume(n, 3)]
           /\ UNCHANGED <<latest, fullyValidated, thrown>>
    BY <1>5 DEF AttemptConfirmPrepared, newH, newC, hint
  <2> HIDE DEF s
  <2>6. /\ bp' \in [Node -> State] /\ latest' \in [Node -> [Node -> StatementOrNone]]
        /\ stack' \in [Node -> Seq(Frame)] /\ fullyValidated' \in [Node -> BOOLEAN]
        /\ thrown' \subseteq Node
    <3>1. CASE Emit(n, s, Resume(n, 3))
      BY <2>3, <3>1, EmitType
    <3>2. CASE /\ bp' = [bp EXCEPT ![n] = s]
               /\ stack' = [stack EXCEPT ![n] = Resume(n, 3)]
               /\ UNCHANGED <<latest, fullyValidated, thrown>>
      BY <2>3, <3>2 DEF TypeOK
    <3> QED BY <2>5, <3>1, <3>2
  <2> QED BY <2>4, <2>6 DEF TypeOK
<1>6. CASE AttemptAcceptCommit(n)
  <2> DEFINE i == AcceptableCommit(n, hint)
             value == WorkingBallot(hint)[2]
             s == SetAcceptCommit(bp[n], <<i[1], value>>, <<i[2], value>>)
  <2>1. <<i[1], value>> \in Ballot /\ <<i[2], value>> \in Ballot
    <3>1. i \in Counter \X Counter
      BY <1>1, CommitIntervals
    <3> QED BY <1>3, <3>1 DEF Ballot
  <2>2. s \in State /\ Resume(n, 4) \in Seq(Frame)
    <3> HIDE DEF i, value
    <3> QED BY <1>1, <1>2, <2>1, SetAcceptCommitType
  <2>3. Emit(n, s, Resume(n, 4))
    BY <1>6 DEF AttemptAcceptCommit, hint
  <2>4. UNCHANGED <<lastEnvelope, lastEmit, candidate, sent, externalized, timeouts, restarts>>
    BY <1>6 DEF AttemptAcceptCommit
  <2> HIDE DEF s
  <2>5. /\ bp' \in [Node -> State] /\ latest' \in [Node -> [Node -> StatementOrNone]]
        /\ stack' \in [Node -> Seq(Frame)] /\ fullyValidated' \in [Node -> BOOLEAN]
        /\ thrown' \subseteq Node
    BY <2>2, <2>3, EmitType
  <2> QED BY <2>4, <2>5 DEF TypeOK
<1>7. CASE AttemptConfirmCommit(n)
  <2> DEFINE i == ConfirmableCommit(n, hint)
             value == WorkingBallot(hint)[2]
             s == SetConfirmCommit(bp[n], <<i[1], value>>, <<i[2], value>>)
  <2>1. <<i[1], value>> \in Ballot /\ <<i[2], value>> \in Ballot
    <3>1. i \in Counter \X Counter
      BY <1>1, CommitIntervals
    <3> QED BY <1>3, <3>1 DEF Ballot
  <2>2. s \in State /\ Resume(n, 5) \in Seq(Frame)
    <3> HIDE DEF i, value
    <3> QED BY <1>1, <1>2, <2>1, SetConfirmCommitType
  <2>3. Emit(n, s, Resume(n, 5))
    BY <1>7 DEF AttemptConfirmCommit, hint
  <2>4. UNCHANGED <<lastEnvelope, lastEmit, candidate, sent, timeouts, restarts>>
    BY Zenon, <1>7 DEF AttemptConfirmCommit
  <2>5. externalized' \in [Node -> SUBSET (Value \cup {0})]
    BY ZenonT(60), <1>3, <1>7 DEF AttemptConfirmCommit, hint, TypeOK
  <2> HIDE DEF s
  <2>6. /\ bp' \in [Node -> State] /\ latest' \in [Node -> [Node -> StatementOrNone]]
        /\ stack' \in [Node -> Seq(Frame)] /\ fullyValidated' \in [Node -> BOOLEAN]
        /\ thrown' \subseteq Node
    BY <2>2, <2>3, EmitType
  <2> QED BY Zenon, <2>4, <2>5, <2>6 DEF TypeOK
<1>8. CASE AttemptBump(n)
  <2> DEFINE ballot == AbandonedFor(n, BumpCounter(n))
             rest == <<BumpFrame>> \o Resume(n, 5)
  <2>1. ballot \in Ballot
    BY BumpCounterType, BumpedType
  <2>2. BumpToBallot(bp[n], ballot) \in State
    <3> HIDE DEF ballot
    <3> QED BY <1>2, <2>1, BumpToBallotType
  <2>3. rest \in Seq(Frame)
    <3>1. Resume(n, 5) \in Seq(Frame)
      BY <1>1
    <3> QED BY <3>1, FrameTypes, PushType
  <2>4. Emit(n, BumpToBallot(bp[n], ballot), rest)
    BY <1>8 DEF AttemptBump
  <2>5. UNCHANGED <<lastEnvelope, lastEmit, candidate, sent, externalized, timeouts, restarts>>
    BY <1>8 DEF AttemptBump
  <2> HIDE DEF ballot, rest
  <2>6. /\ bp' \in [Node -> State] /\ latest' \in [Node -> [Node -> StatementOrNone]]
        /\ stack' \in [Node -> Seq(Frame)] /\ fullyValidated' \in [Node -> BOOLEAN]
        /\ thrown' \subseteq Node
    BY <2>2, <2>3, <2>4, EmitType
  <2> QED BY <2>5, <2>6 DEF TypeOK
<1>9. CASE ExitAdvance(n)
  <2>1. bp' \in [Node -> State]
    BY Zenon, <1>2, <1>9, HeardCheckType DEF ExitAdvance, TypeOK
  <2>2. stack' \in [Node -> Seq(Frame)]
    BY Zenon, <1>1, <1>9 DEF ExitAdvance, TypeOK
  <2>3. lastEmit' \in [Node -> StatementOrNone] /\ sent' \in [Node -> SUBSET Statement]
    <3>1. lastEnvelope[n] \in StatementOrNone
      BY DEF TypeOK
    <3> QED BY <1>9, <3>1, SendType DEF ExitAdvance
  <2> QED BY Zenon, <1>9, <2>1, <2>2, <2>3 DEF ExitAdvance, TypeOK
<1> QED BY <1>4, <1>5, <1>6, <1>7, <1>8, <1>9 DEF AdvanceSlot

LEMMA InitType == Init => TypeOK
<1> SUFFICES ASSUME Init PROVE TypeOK
  OBVIOUS
<1>1. InitialState \in State
  BY NullBallotType DEF InitialState, State, Phase
<1>2. <<>> \in Seq(Frame)
  OBVIOUS
<1> QED BY <1>1, <1>2 DEF Init, TypeOK, StatementOrNone

\* The counter after a timeout wraps around at 32 bits.
LEMMA NextCounter ==
    ASSUME TypeOK, NEW n \in Node
    PROVE  (bp[n].b[1] + 1) % (UINT32_MAX + 1) \in Counter
<1> USE BallotsAssumption
<1>1. bp[n].b[1] \in 0..UINT32_MAX
  BY Zenon DEF TypeOK, State, Ballot, Counter
<1>2. \A a, k \in Nat : k > 0 => a % k \in 0..(k - 1)
  OBVIOUS
<1>3. bp[n].b[1] + 1 \in Nat /\ UINT32_MAX + 1 \in Nat /\ UINT32_MAX + 1 > 0
  BY <1>1
<1>4. (bp[n].b[1] + 1) % (UINT32_MAX + 1) \in 0..(UINT32_MAX + 1 - 1)
  BY <1>2, <1>3
<1> QED BY <1>4 DEF Counter

LEMMA NextType == TypeOK /\ [Next]_vars => TypeOK'
<1> USE BallotsAssumption, BallotProtocolAssumption
<1> SUFFICES ASSUME TypeOK, [Next]_vars PROVE TypeOK'
  OBVIOUS
<1>1. CASE UNCHANGED vars
  BY Zenon, <1>1 DEF vars, TypeOK
<1>2. ASSUME NEW n \in Node, AdvanceSlot(n) PROVE TypeOK'
  BY <1>2, AdvanceSlotType
<1>3. ASSUME NEW n \in Node, ReturnFromEmit(n) PROVE TypeOK'
  <2>1. /\ Top(n) \in Frame /\ Tail(stack[n]) \in Seq(Frame)
    BY Zenon, <1>3, PopType DEF ReturnFromEmit, Top, TypeOK
  <2>2. Top(n).st \in StatementOrNone
    BY Zenon, <1>3, <2>1 DEF ReturnFromEmit, Frame, StatementOrNone
  <2>3. stack' \in [Node -> Seq(Frame)]
    BY Zenon, <1>3, <2>1 DEF ReturnFromEmit, TypeOK
  <2>4. /\ lastEnvelope' \in [Node -> StatementOrNone]
        /\ lastEmit' \in [Node -> StatementOrNone]
        /\ sent' \in [Node -> SUBSET Statement]
    <3>1. CASE UNCHANGED <<lastEnvelope, lastEmit, sent>>
      BY Zenon, <3>1 DEF TypeOK
    <3>2. CASE /\ lastEnvelope' = [lastEnvelope EXCEPT ![n] = Top(n).st]
               /\ SendLatestEnvelope(n, Top(n).st, Tail(stack[n]))
      <4>1. lastEnvelope' \in [Node -> StatementOrNone]
        BY Zenon, <2>2, <3>2 DEF TypeOK
      <4> QED BY <2>2, <3>2, <4>1, SendType
    <3> QED BY Zenon, <1>3, <3>1, <3>2 DEF ReturnFromEmit
  <2> QED BY Zenon, <1>3, <2>3, <2>4 DEF ReturnFromEmit, TypeOK
<1>4. ASSUME NEW n \in Node, ReturnFromBump(n) PROVE TypeOK'
  <2>1. Tail(stack[n]) \in Seq(Frame)
    BY Zenon, <1>4, PopType DEF ReturnFromBump, TypeOK
  <2>2. stack' \in [Node -> Seq(Frame)]
    BY Zenon, <1>4, <2>1 DEF ReturnFromBump, TypeOK
  <2>3. CheckHeardFromQuorum(n, bp[n]) \in State
    BY Zenon, HeardCheckType DEF TypeOK
  <2>4. bp' \in [Node -> State]
    BY Zenon, <1>4, <2>3 DEF ReturnFromBump, TypeOK
  <2> QED BY Zenon, <1>4, <2>2, <2>4 DEF ReturnFromBump, TypeOK
<1>5. ASSUME NEW n \in Node, NEW m \in Reaching[n], NEW st \in sent[m], Receive(n, m, st)
      PROVE  TypeOK'
  <2>1. m \in Node /\ st \in Statement
    BY Zenon DEF TypeOK
  <2>2. Record(n, m, st, bp[n].phase, <<>>)
    BY Zenon, <1>5 DEF Receive
  <2>3. <<>> \in Seq(Frame)
    OBVIOUS
  <2>4. /\ latest' \in [Node -> [Node -> StatementOrNone]]
        /\ stack' \in [Node -> Seq(Frame)] /\ fullyValidated' \in [Node -> BOOLEAN]
        /\ thrown' \subseteq Node
    BY Zenon, <2>1, <2>2, <2>3, RecordType
  <2> QED BY Zenon, <1>5, <2>4 DEF Receive, TypeOK
<1>6. ASSUME NEW n \in Node, TimerExpires(n) PROVE TypeOK'
  <2> DEFINE next == (bp[n].b[1] + 1) % (UINT32_MAX + 1)
             s == [bp[n] EXCEPT !.timer = FALSE]
             ballot == AbandonedFor(n, next)
  <2>2. next \in Counter
    BY Zenon, NextCounter
  <2> HIDE DEF next
  <2>3. ballot \in Ballot
    BY Zenon, <2>2, BumpedType
  <2> HIDE DEF ballot
  <2>4. s \in State
    <3>1. bp[n] \in State
      BY Zenon DEF TypeOK
    <3> QED BY Zenon, <3>1 DEF State
  <2>5. <<BumpFrame>> \in Seq(Frame)
    <3>1. BumpFrame \in Frame
      BY Zenon, FrameTypes
    <3> QED BY <3>1
  <2>6. \/ Emit(n, BumpToBallot(s, ballot), <<BumpFrame>>)
        \/ bp' = [bp EXCEPT ![n] = s] /\ UNCHANGED <<latest, stack, fullyValidated, thrown>>
    BY Zenon, <1>6 DEF TimerExpires, next, ballot
  <2> HIDE DEF s
  <2>7. BumpToBallot(s, ballot) \in State
    BY Zenon, <2>3, <2>4, BumpToBallotType
  <2>8. /\ bp' \in [Node -> State] /\ latest' \in [Node -> [Node -> StatementOrNone]]
        /\ stack' \in [Node -> Seq(Frame)] /\ fullyValidated' \in [Node -> BOOLEAN]
        /\ thrown' \subseteq Node
    <3>1. CASE Emit(n, BumpToBallot(s, ballot), <<BumpFrame>>)
      BY Zenon, <2>5, <2>7, <3>1, EmitType
    <3>2. CASE bp' = [bp EXCEPT ![n] = s] /\ UNCHANGED <<latest, stack, fullyValidated, thrown>>
      <4>1. bp' \in [Node -> State]
        BY Zenon, <2>4, <3>2 DEF TypeOK
      <4> QED BY Zenon, <3>2, <4>1 DEF TypeOK
    <3> QED BY Zenon, <2>6, <3>1, <3>2
  <2>9. /\ timeouts' \in Nat
        /\ UNCHANGED <<lastEnvelope, lastEmit, candidate, sent, externalized, restarts>>
    <3>1. timeouts' = timeouts + 1
      BY Zenon, <1>6 DEF TimerExpires
    <3>2. timeouts \in Nat
      BY Zenon DEF TypeOK
    <3>3. UNCHANGED <<lastEnvelope, lastEmit, candidate, sent, externalized, restarts>>
      BY Zenon, <1>6 DEF TimerExpires
    <3> QED BY <3>1, <3>2, <3>3
  <2> QED BY Zenon, <2>8, <2>9 DEF TypeOK
<1>7. ASSUME NEW n \in Node, NEW value \in Candidates[n], NewCandidate(n, value) PROVE TypeOK'
  <2> DEFINE ballot == BumpedBallot(bp[n], value, 1)
  <2>1. value \in Value
    OBVIOUS
  <2>2. ballot \in Ballot
    <3>1. 1 \in Counter
      BY DEF Counter
    <3> QED BY Zenon, <2>1, <3>1, BumpedType
  <2> HIDE DEF ballot
  <2>3. BumpToBallot(bp[n], ballot) \in State
    BY Zenon, <2>2, BumpToBallotType DEF TypeOK
  <2>4. <<BumpFrame>> \in Seq(Frame)
    BY FrameTypes
  <2>5. \/ Emit(n, BumpToBallot(bp[n], ballot), <<BumpFrame>>)
        \/ UNCHANGED <<bp, latest, stack, fullyValidated, thrown>>
    BY Zenon, <1>7 DEF NewCandidate, ballot
  <2>6. /\ bp' \in [Node -> State] /\ latest' \in [Node -> [Node -> StatementOrNone]]
        /\ stack' \in [Node -> Seq(Frame)] /\ fullyValidated' \in [Node -> BOOLEAN]
        /\ thrown' \subseteq Node
    <3>1. CASE Emit(n, BumpToBallot(bp[n], ballot), <<BumpFrame>>)
      BY Zenon, <2>3, <2>4, <3>1, EmitType
    <3>2. CASE UNCHANGED <<bp, latest, stack, fullyValidated, thrown>>
      BY Zenon, <3>2 DEF TypeOK
    <3> QED BY Zenon, <2>5, <3>1, <3>2
  <2> QED BY Zenon, <1>7, <2>1, <2>6 DEF NewCandidate, TypeOK
<1>8. ASSUME NEW n \in Node, Restart(n) PROVE TypeOK'
  <2>1. lastEmit[n] \in StatementOrNone
    BY Zenon DEF TypeOK
  <2>2. StateFromStatement(lastEmit[n]) \in State
    BY <2>1, StateFromStatementType
  <2>3. bp' \in [Node -> State] /\ lastEnvelope' \in [Node -> StatementOrNone]
    BY Zenon, <1>8, <2>1, <2>2 DEF Restart, TypeOK
  <2>4. latest' \in [Node -> [Node -> StatementOrNone]]
    <3>1. [m \in Node |-> IF m = n THEN lastEmit[n] ELSE NoStatement] \in [Node -> StatementOrNone]
      BY Zenon, <2>1 DEF StatementOrNone
    <3> QED BY Zenon, <1>8, <3>1 DEF Restart, TypeOK
  <2>5. stack' \in [Node -> Seq(Frame)]
    <3>1. <<>> \in Seq(Frame)
      OBVIOUS
    <3>2. stack' = [stack EXCEPT ![n] = <<>>]
      BY Zenon, <1>8 DEF Restart
    <3> QED BY Zenon, <3>1, <3>2 DEF TypeOK
  <2>6. fullyValidated' \in [Node -> BOOLEAN] /\ candidate' \in [Node -> Value \cup {0}]
    BY Zenon, <1>8 DEF Restart, TypeOK
  <2>7. UNCHANGED <<lastEmit, sent, externalized, thrown, timeouts>> /\ restarts' = restarts + 1
    BY Zenon, <1>8 DEF Restart
  <2>8. restarts' \in Nat
    <3>1. restarts \in Nat
      BY Zenon DEF TypeOK
    <3> QED BY <2>7, <3>1
  <2> QED BY Zenon, <2>3, <2>4, <2>5, <2>6, <2>7, <2>8 DEF TypeOK
<1> QED BY Zenon, <1>1, <1>2, <1>3, <1>4, <1>5, <1>6, <1>7, <1>8 DEF Next

\* Type correctness: in every execution of the ballot protocol the ballots,
\* statements and call stacks of every node are well formed; in particular the
\* counters of the code stay within 32 bits.
THEOREM TypeCorrect == Spec => []TypeOK
BY InitType, NextType, PTL DEF Spec

-----------------------------------------------------------------------------
(* A node emits its statements in order.                                   *)

LEMMA LessTransitive ==
    ASSUME NEW a \in Ballot, NEW b \in Ballot, NEW c \in Ballot
    PROVE  /\ Less(a, b) /\ Less(b, c) => Less(a, c)
           /\ ~Less(a, a)
           /\ a = b \/ Less(a, b) \/ Less(b, a)
<1>1. /\ a[1] \in Nat /\ a[2] \in Nat /\ b[1] \in Nat /\ b[2] \in Nat /\ c[1] \in Nat /\ c[2] \in Nat
      /\ a = <<a[1], a[2]>> /\ b = <<b[1], b[2]>>
  BY BallotsAssumption DEF Ballot, Counter, Value
<1> QED BY <1>1 DEF Less

\* isNewerStatement is transitive.
LEMMA NewerTransitive ==
    ASSUME NEW a \in StatementOrNone, NEW b \in StatementOrNone, NEW c \in StatementOrNone,
           IsNewerStatement(a, b), IsNewerStatement(b, c)
    PROVE  IsNewerStatement(a, c)
<1>1. CASE a.type = "NONE"
  BY Zenon, <1>1 DEF IsNewerStatement
<1>2. CASE a.type # "NONE" /\ a.type # b.type
  <2>1. b.type \in {"CONFIRM", "EXTERNALIZE"} /\ c.type \in {"CONFIRM", "EXTERNALIZE"}
    BY Zenon, <1>2 DEF IsNewerStatement
  <2> QED BY Zenon, <1>2, <2>1 DEF IsNewerStatement
<1>3. CASE a.type = "PREPARE" /\ b.type = "PREPARE"
  <2>1. CASE c.type # "PREPARE"
    BY Zenon, <1>3, <2>1 DEF IsNewerStatement
  <2>2. CASE c.type = "PREPARE"
    <3>1. a \in PrepareStatement /\ b \in PrepareStatement /\ c \in PrepareStatement
      BY <1>3, <2>2, StatementFields DEF StatementOrNone, NoStatement
    <3>2. /\ a.b \in Ballot /\ b.b \in Ballot /\ c.b \in Ballot
          /\ a.p \in Ballot /\ b.p \in Ballot /\ c.p \in Ballot
          /\ a.pPrime \in Ballot /\ b.pPrime \in Ballot /\ c.pPrime \in Ballot
          /\ a.nH \in Int /\ b.nH \in Int /\ c.nH \in Int
      BY <3>1 DEF PrepareStatement, Counter
    <3>3. /\ Less(a.b, b.b) /\ Less(b.b, c.b) => Less(a.b, c.b)
          /\ Less(a.p, b.p) /\ Less(b.p, c.p) => Less(a.p, c.p)
          /\ Less(a.pPrime, b.pPrime) /\ Less(b.pPrime, c.pPrime) => Less(a.pPrime, c.pPrime)
      BY Zenon, <3>2, LessTransitive
    <3>4. a.nH < b.nH /\ b.nH < c.nH => a.nH < c.nH
      BY <3>2
    <3> QED BY Zenon, <1>3, <2>2, <3>3, <3>4 DEF IsNewerStatement
  <2> QED BY <2>1, <2>2
<1>4. CASE a.type = "CONFIRM" /\ b.type = "CONFIRM"
  <2>1. CASE c.type # "CONFIRM"
    BY Zenon, <1>4, <2>1 DEF IsNewerStatement
  <2>2. CASE c.type = "CONFIRM"
    <3>1. a \in ConfirmStatement /\ b \in ConfirmStatement /\ c \in ConfirmStatement
      BY <1>4, <2>2, StatementFields DEF StatementOrNone, NoStatement
    <3>2. /\ a.b \in Ballot /\ b.b \in Ballot /\ c.b \in Ballot
          /\ a.nPrepared \in Int /\ b.nPrepared \in Int /\ c.nPrepared \in Int
          /\ a.nH \in Int /\ b.nH \in Int /\ c.nH \in Int
      BY <3>1 DEF ConfirmStatement, Counter
    <3>3. Less(a.b, b.b) /\ Less(b.b, c.b) => Less(a.b, c.b)
      BY Zenon, <3>2, LessTransitive
    <3>4. /\ a.nPrepared < b.nPrepared /\ b.nPrepared < c.nPrepared => a.nPrepared < c.nPrepared
          /\ a.nH < b.nH /\ b.nH < c.nH => a.nH < c.nH
      BY <3>2
    <3> QED BY Zenon, <1>4, <2>2, <3>3, <3>4 DEF IsNewerStatement
  <2> QED BY <2>1, <2>2
<1>5. a.type \in {"NONE", "PREPARE", "CONFIRM", "EXTERNALIZE"}
  BY StatementFields DEF StatementOrNone, NoStatement
<1>6. ~(a.type = "EXTERNALIZE")
  BY Zenon DEF IsNewerStatement
<1> QED BY Zenon, <1>1, <1>2, <1>3, <1>4, <1>5, <1>6

\* What was sent is no newer than mLastEnvelopeEmit, which is no newer than
\* mLastEnvelope.
UpTo(old, st) == old = st \/ IsNewerStatement(old, st)
OrderInv ==
    \A n \in Node : /\ \A st \in sent[n] : UpTo(st, lastEmit[n])
                    /\ UpTo(lastEmit[n], lastEnvelope[n])

InOrder == \A n \in Node : \A st \in sent'[n] \ sent[n] : \A old \in sent[n] :
              IsNewerStatement(old, st)

\* Sending a statement that is no older than mLastEnvelope keeps the order.
LEMMA SendInOrder ==
    ASSUME TypeOK, OrderInv, NEW n \in Node, NEW last \in StatementOrNone, NEW rest,
           UpTo(lastEnvelope[n], last),
           SendLatestEnvelope(n, last, rest),
           lastEnvelope' = [lastEnvelope EXCEPT ![n] = last]
    PROVE  OrderInv' /\ InOrder
<1>1. lastEmit[n] \in StatementOrNone /\ lastEnvelope[n] \in StatementOrNone
  BY Zenon DEF TypeOK
<1>2. UpTo(lastEmit[n], last)
  BY Zenon, <1>1, NewerTransitive DEF OrderInv, UpTo
<1>3. lastEnvelope'[n] = last /\ \A m \in Node \ {n} : lastEnvelope'[m] = lastEnvelope[m]
  BY Zenon DEF TypeOK
<1>4. CASE UNCHANGED <<lastEmit, sent>>
  BY Zenon, <1>2, <1>3, <1>4 DEF OrderInv, InOrder, UpTo
<1>5. CASE /\ last # NoStatement /\ last # lastEmit[n]
           /\ lastEmit' = [lastEmit EXCEPT ![n] = last]
           /\ sent' = [sent EXCEPT ![n] = (IF Delayed THEN @ ELSE {}) \cup {last}]
  <2>1. /\ lastEmit'[n] = last
        /\ \A m \in Node \ {n} : lastEmit'[m] = lastEmit[m] /\ sent'[m] = sent[m]
        /\ sent'[n] \subseteq sent[n] \cup {last}
    BY Zenon, <1>5 DEF TypeOK
  <2>2. \A st \in sent[n] : IsNewerStatement(st, last)
    <3> SUFFICES ASSUME NEW st \in sent[n] PROVE IsNewerStatement(st, last)
      BY Zenon
    <3>1. st \in StatementOrNone /\ UpTo(st, lastEmit[n])
      BY Zenon DEF TypeOK, OrderInv, StatementOrNone
    <3>2. IsNewerStatement(lastEmit[n], last)
      BY Zenon, <1>2, <1>5 DEF UpTo
    <3> QED BY Zenon, <1>1, <3>1, <3>2, NewerTransitive DEF UpTo
  <2>3. OrderInv'
    BY Zenon, <1>3, <2>1, <2>2 DEF OrderInv, UpTo
  <2>4. InOrder
    BY Zenon, <2>1, <2>2 DEF InOrder
  <2> QED BY <2>3, <2>4
<1> QED BY Zenon, <1>4, <1>5 DEF SendLatestEnvelope

LEMMA NextInOrder == TypeOK /\ OrderInv /\ [Next]_vars => OrderInv' /\ InOrder
<1> SUFFICES ASSUME TypeOK, OrderInv, [Next]_vars PROVE OrderInv' /\ InOrder
  OBVIOUS
<1>1. CASE UNCHANGED <<lastEnvelope, lastEmit, sent>>
  BY Zenon, <1>1 DEF OrderInv, InOrder, UpTo
<1>2. ASSUME NEW n \in Node, AdvanceSlot(n) PROVE OrderInv' /\ InOrder
  <2>1. CASE ExitAdvance(n)
    <3>1. lastEnvelope[n] \in StatementOrNone /\ UpTo(lastEnvelope[n], lastEnvelope[n])
      BY Zenon DEF TypeOK, UpTo
    <3>2. lastEnvelope' = [lastEnvelope EXCEPT ![n] = lastEnvelope[n]]
      BY Zenon, <2>1 DEF ExitAdvance, TypeOK
    <3> QED BY Zenon, <2>1, <3>1, <3>2, SendInOrder DEF ExitAdvance
  <2>2. CASE ~ExitAdvance(n)
    <3>1. UNCHANGED <<lastEnvelope, lastEmit, sent>>
      BY Zenon, <1>2, <2>2 DEF AdvanceSlot, AttemptAcceptPrepared, AttemptConfirmPrepared,
                        AttemptAcceptCommit, AttemptConfirmCommit, AttemptBump
    <3> QED BY <1>1, <3>1
  <2> QED BY <2>1, <2>2
<1>3. ASSUME NEW n \in Node, ReturnFromEmit(n) PROVE OrderInv' /\ InOrder
  <2>1. CASE UNCHANGED <<lastEnvelope, lastEmit, sent>>
    BY <1>1, <2>1
  <2>2. CASE /\ IsNewerStatement(lastEnvelope[n], Top(n).st)
             /\ lastEnvelope' = [lastEnvelope EXCEPT ![n] = Top(n).st]
             /\ SendLatestEnvelope(n, Top(n).st, Tail(stack[n]))
    <3>1. Top(n) \in Frame
      BY Zenon, <1>3, PopType DEF ReturnFromEmit, Top, TypeOK
    <3>2. Top(n).st \in StatementOrNone
      BY Zenon, <1>3, <3>1 DEF ReturnFromEmit, Frame, StatementOrNone
    <3>3. UpTo(lastEnvelope[n], Top(n).st)
      BY <2>2 DEF UpTo
    <3> QED BY Zenon, <2>2, <3>2, <3>3, SendInOrder
  <2> QED BY Zenon, <1>3, <2>1, <2>2 DEF ReturnFromEmit
<1>4. ASSUME NEW n \in Node, Restart(n) PROVE OrderInv' /\ InOrder
  <2>1. /\ lastEnvelope' = [lastEnvelope EXCEPT ![n] = lastEmit[n]]
        /\ UNCHANGED <<lastEmit, sent>>
    BY Zenon, <1>4 DEF Restart
  <2> QED BY Zenon, <2>1 DEF OrderInv, InOrder, UpTo, TypeOK
<1>5. ASSUME NEW n \in Node,
             \/ ReturnFromBump(n)
             \/ \E m \in Reaching[n] : \E st \in sent[m] : Receive(n, m, st)
             \/ TimerExpires(n)
             \/ \E value \in Candidates[n] : NewCandidate(n, value)
      PROVE  OrderInv' /\ InOrder
  <2>1. UNCHANGED <<lastEnvelope, lastEmit, sent>>
    BY Zenon, <1>5 DEF ReturnFromBump, Receive, TimerExpires, NewCandidate
  <2> QED BY <1>1, <2>1
<1>6. CASE UNCHANGED vars
  BY Zenon, <1>1, <1>6 DEF vars
<1> QED BY Zenon, <1>2, <1>3, <1>4, <1>5, <1>6 DEF Next

\* A node never goes back on what it told the others: in every execution each
\* statement it emits is newer, by isNewerStatement, than all it emitted
\* before, across nested handlers, crashes in the middle of one and restarts.
THEOREM EmitsStatementsInOrder == Spec => EmitsInOrder
<1>1. Init => OrderInv
  BY Zenon DEF Init, OrderInv, UpTo
<1>2. TypeOK /\ OrderInv /\ [Next]_vars => [InOrder]_vars
  BY NextInOrder
<1>3. TypeOK /\ OrderInv /\ [Next]_vars => OrderInv'
  BY NextInOrder
<1>4. Spec => [][InOrder]_vars
  BY <1>1, <1>2, <1>3, TypeCorrect, PTL DEF Spec
<1> QED BY <1>4 DEF EmitsInOrder, InOrder
=============================================================================
