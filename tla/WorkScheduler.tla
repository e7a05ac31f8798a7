--------------------------- MODULE WorkScheduler ---------------------------
(***************************************************************************)
(* The tree of work of src/work: the state machine of BasicWork, children  *)
(* of Work and BatchWork, WorkSequence, ConditionalWork, commands that run *)
(* a process (historywork/RunCommandWork.cpp) and the WorkScheduler at the *)
(* root.  All of it runs on the main thread: a crank of the root is one    *)
(* step, a timer, a process exit or a call from outside another.           *)
(*                                                                         *)
(* onRun and onAbort of a command have several outcomes, so the operators  *)
(* below that crank give the set of states they may lead to.               *)
(***************************************************************************)
EXTENDS Integers, FiniteSets, Sequences, SequencesExt

CONSTANTS
    Kind,          \* [work -> "scheduler" | "batch" | "sequence" | "conditional" | "command"]
    Parts,         \* [work -> sequence of the works it is made of]
    Gate,          \* [work -> the work whose success a conditional work awaits]
    MaxRetries,    \* [work -> mMaxRetries]
    StopAtFirstFailure, \* [work -> BOOLEAN], of sequences
    MaxConcurrent, \* MAX_CONCURRENT_SUBPROCESSES
    Root,          \* the work scheduler
    MayShutdown    \* whether the application may shut down

Work == DOMAIN Kind
NoWork == "none"

ASSUME WorkAssumption ==
    /\ Root \in Work /\ Kind[Root] = "scheduler" /\ NoWork \notin Work
    /\ Parts \in [Work -> Seq(Work)]
    /\ MaxRetries \in [Work -> Nat]
    /\ MaxConcurrent \in Nat \ {0}

\* The work whose wakeUp the notification callback of w calls.
Parent(w) == CHOOSE p \in Work : \E i \in DOMAIN Parts[p] : Parts[p][i] = w

VARIABLES
    works,      \* [Work -> state of the work]
    scheduled,  \* mScheduled: a crank of the root is posted
    stopping    \* WorkScheduler::shutdown was called

vars == <<works, scheduled, stopping>>

\* The process of a command, as the process manager tracks it: "running" also
\* while it waits for its turn, "polite" and "forced" once it was sent SIGTERM
\* and SIGKILL, which says nothing of when it exits.  exitEvent: the command
\* still refers to it.
Signalled == {"polite", "forced"}

InitialWork ==
    [state |-> "PENDING", retries |-> 0, retryTimer |-> FALSE, waitTimer |-> FALSE,
     children |-> <<>>, next |-> 1, abortChildren |-> FALSE, batch |-> {}, yielded |-> 0,
     pos |-> 1, executing |-> FALSE, started |-> FALSE, condition |-> TRUE,
     process |-> "none", exitEvent |-> FALSE, done |-> FALSE, ec |-> FALSE, threw |-> FALSE]

\* WorkScheduler::create starts and cranks the root, which has nothing to do.
Init ==
    /\ works = [w \in Work |-> IF w = Root THEN [InitialWork EXCEPT !.state = "WAITING"]
                                ELSE InitialWork]
    /\ scheduled = FALSE
    /\ stopping = FALSE

-----------------------------------------------------------------------------
(* BasicWork.                                                              *)

IsDone(s) == s.state \in {"SUCCESS", "FAILURE", "ABORTED"}

\* getState
PublicState(s) ==
    CASE s.state \in {"RUNNING", "PENDING", "ABORTING"} -> "RUNNING"
      [] s.state = "WAITING" -> "WAITING"
      [] OTHER -> s.state

ALLOWED_TRANSITIONS ==
    {<<"PENDING", "RUNNING">>, <<"PENDING", "ABORTING">>, <<"RUNNING", "RUNNING">>,
     <<"RUNNING", "WAITING">>, <<"RUNNING", "SUCCESS">>, <<"RUNNING", "FAILURE">>,
     <<"RUNNING", "RETRYING">>, <<"RUNNING", "ABORTING">>, <<"WAITING", "RUNNING">>,
     <<"WAITING", "ABORTING">>, <<"RETRYING", "WAITING">>, <<"SUCCESS", "PENDING">>,
     <<"FAILURE", "PENDING">>, <<"ABORTING", "ABORTING">>, <<"ABORTING", "ABORTED">>,
     <<"ABORTED", "PENDING">>}

\* An exception or a failed assertion in w, unless ok.
Check(S, w, ok) == [S EXCEPT ![w].threw = @ \/ ~ok]

AllDone(S, seq) == \A i \in DOMAIN seq : IsDone(S[seq[i]])

\* onReset of the different kinds of work.  A command lets go of its process,
\* which may live on.
OnReset(S, w) ==
    CASE Kind[w] \in {"scheduler", "batch"} ->
            [Check(S, w, AllDone(S, S[w].children)) EXCEPT
                ![w].children = <<>>, ![w].next = 1, ![w].abortChildren = FALSE,
                ![w].batch = {}, ![w].yielded = 0]
      [] Kind[w] = "sequence" ->
            [Check(S, w, AllDone(S, SubSeq(Parts[w], 1, S[w].pos - 1))) EXCEPT
                ![w].pos = 1, ![w].executing = FALSE]
      [] Kind[w] = "conditional" -> [S EXCEPT ![w].started = FALSE]
      [] Kind[w] = "command" ->
            [S EXCEPT ![w].done = FALSE, ![w].ec = FALSE, ![w].exitEvent = FALSE]

ResetKeepingTimer(S, w) == OnReset(S, w)

\* reset: cancelling the retry timer calls its handler, which asserts that the
\* work waits or aborts.
Reset(S, w) ==
    LET ok == S[w].retryTimer => S[w].state \in {"WAITING", "ABORTED", "ABORTING"}
    IN  OnReset([Check(S, w, ok) EXCEPT ![w].retryTimer = FALSE], w)

\* setState, with waitForRetry where it enters RETRYING.
SetState(S, w, wanted) ==
    LET old == S[w].state
        st == IF wanted = "FAILURE" /\ S[w].retries < MaxRetries[w] THEN "RETRYING" ELSE wanted
        S1 == IF old = "PENDING" /\ st = "RUNNING"
              THEN [Reset(S, w) EXCEPT ![w].retries = 0] ELSE S
        S2 == IF st \in {"FAILURE", "RETRYING", "ABORTED"} THEN Reset(S1, w) ELSE S1
    IN  IF <<old, st>> \notin ALLOWED_TRANSITIONS THEN Check(S, w, FALSE)
        ELSE IF st = "RETRYING"
        THEN [Check(S2, w, ~S2[w].retryTimer) EXCEPT ![w].retryTimer = TRUE, ![w].state = "WAITING"]
        ELSE [S2 EXCEPT ![w].state = st]

StartWork(S, w) ==
    SetState(IF S[w].state = "PENDING" THEN S ELSE SetState(S, w, "PENDING"), w, "RUNNING")

WakeUpWithoutNotify(S, w) ==
    IF S[w].state = "WAITING"
    THEN [SetState(S, w, "RUNNING") EXCEPT ![w].waitTimer = FALSE] ELSE S

\* wakeUp and the notification callbacks it calls, up to the root.
RECURSIVE WakeUp(_, _)
WakeUp(S, w) ==
    IF S[w].state # "WAITING" THEN S
    ELSE LET awake == [SetState(S, w, "RUNNING") EXCEPT ![w].waitTimer = FALSE]
         IN  IF w = Root THEN awake ELSE WakeUp(awake, Parent(w))

-----------------------------------------------------------------------------
(* Shutdown, which goes down the tree before the works abort.              *)

RECURSIVE Shutdown(_, _)
ShutdownAll(S, ws) == FoldLeft(LAMBDA T, c : IF IsDone(T[c]) THEN T ELSE Shutdown(T, c), S, ws)

ShutdownParts(S, w) ==
    CASE Kind[w] \in {"scheduler", "batch"} -> ShutdownAll(S, S[w].children)
      [] Kind[w] = "sequence" ->
            IF S[w].executing THEN Shutdown(S, Parts[w][S[w].pos]) ELSE S
      [] Kind[w] = "conditional" -> IF S[w].started THEN Shutdown(S, Parts[w][1]) ELSE S
      [] Kind[w] = "command" -> S

\* shutdown of w
Shutdown(S, w) ==
    LET T == ShutdownParts(S, w)
    IN  IF IsDone(T[w]) THEN T
        ELSE SetState([T EXCEPT ![w].waitTimer = FALSE], w, "ABORTING")

-----------------------------------------------------------------------------
(* Work and its children.                                                  *)

\* yieldNextRunningChild: from next on, children that are done are erased and
\* others that do not run skipped; past the last child a round is over.
RECURSIVE Yield(_, _, _)
Yield(S, kids, i) ==
    IF i > Len(kids) THEN [child |-> NoWork, children |-> kids, next |-> 1]
    ELSE IF PublicState(S[kids[i]]) = "RUNNING"
    THEN [child |-> kids[i], children |-> kids, next |-> i + 1]
    ELSE IF IsDone(S[kids[i]]) THEN Yield(S, RemoveAt(kids, i), i)
    ELSE Yield(S, kids, i + 1)

\* addWork: addChild, start the child and wake up.
AddWork(S, w, c) ==
    LET T == [S EXCEPT ![w].children = Append(@, c), ![w].next = IF S[w].children = <<>> THEN 1 ELSE @]
    IN  WakeUp(StartWork(T, c), w)

AnyRunning(S, kids) == \E i \in DOMAIN kids : PublicState(S[kids[i]]) = "RUNNING"
AllSuccessful(S, kids) == \A i \in DOMAIN kids : S[kids[i]].state = "SUCCESS"
AnyFailed(S, kids) == \E i \in DOMAIN kids : S[kids[i]].state = "FAILURE"

WorkStatusOfLast(S, kids) == PublicState(S[kids[Len(kids)]])

\* getWorkStatus
WorkStatus(S, kids) ==
    CASE AllSuccessful(S, kids) -> "SUCCESS"
      [] ~AllSuccessful(S, kids) /\ AnyFailed(S, kids) -> "FAILURE"
      [] OTHER -> IF AnyRunning(S, kids) THEN "RUNNING" ELSE "WAITING"

\* addMoreWorkIfNeeded
RECURSIVE AddMoreWork(_, _)
AddMoreWork(S, w) ==
    IF Cardinality(S[w].batch) >= MaxConcurrent \/ S[w].yielded = Len(Parts[w]) THEN S
    ELSE LET c == Parts[w][S[w].yielded + 1]
             T == [S EXCEPT ![w].yielded = @ + 1, ![w].batch = @ \cup {c}]
         IN  AddMoreWork(AddWork(T, w, c), w)

\* doWork of WorkScheduler and BatchWork: the state after it and its result.
DoWork(S, w) ==
    LET kids == S[w].children
        T == AddMoreWork([S EXCEPT ![w].batch = {c \in @ : S[c].state # "SUCCESS"}], w)
        now == T[w].children
    IN  IF Kind[w] = "scheduler"
        THEN <<S, IF AnyRunning(S, kids) THEN "RUNNING" ELSE "WAITING">>
        ELSE IF AnyFailed(S, kids) THEN <<S, "FAILURE">>
        ELSE <<T, CASE AllSuccessful(T, now) -> "SUCCESS"
                    [] ~AllSuccessful(T, now) /\ ~AnyRunning(T, now) -> "WAITING"
                    [] OTHER -> "RUNNING">>

\* The end of a round in Work::onRun.
RunSelf(S, w) ==
    LET r == DoWork(S, w)
        T == r[1]
        kids == T[w].children
    IN  CASE r[2] = "SUCCESS" ->
                <<[Check(T, w, AllSuccessful(T, kids)) EXCEPT ![w].children = <<>>, ![w].next = 1],
                  "SUCCESS">>
          [] r[2] = "FAILURE" /\ ~AllDone(T, kids) ->
                <<[ShutdownAll(T, kids) EXCEPT ![w].abortChildren = TRUE], "RUNNING">>
          [] OTHER -> r

-----------------------------------------------------------------------------
(* crankWork.                                                              *)

RECURSIVE Crank(_, _)

\* onRun of a command: the result of the process, or a process is started, or
\* cannot be; there may be nothing to run.
RunCommand(S, w) ==
    IF S[w].done THEN {<<S, IF S[w].ec THEN "FAILURE" ELSE "SUCCESS">>}
    ELSE {<<[S EXCEPT ![w].process = "running", ![w].exitEvent = TRUE], "WAITING">>,
          <<S, "FAILURE">>, <<S, "SUCCESS">>}

RunSequenceWithoutWaiting(S, w) ==
    LET c == Parts[w][S[w].pos]
    IN  IF S[w].pos > Len(Parts[w]) THEN {<<S, WorkStatus(S, Parts[w])>>}
        ELSE IF ~S[w].executing
        THEN {<<T, "RUNNING">> : T \in Crank([StartWork(S, c) EXCEPT ![w].executing = TRUE], c)}
        ELSE IF IsDone(S[c]) THEN {<<[S EXCEPT ![w].executing = FALSE, ![w].pos = @ + 1], "RUNNING">>}
        ELSE {<<T, "RUNNING">> : T \in Crank(S, c)}

\* WorkSequence::onRun
RECURSIVE RunSequence(_, _)
RunSequence(S, w) ==
    LET c == Parts[w][S[w].pos]
        st == PublicState(S[c])
    IN  IF S[w].pos > Len(Parts[w]) THEN {<<S, WorkStatus(S, Parts[w])>>}
        ELSE IF ~S[w].executing
        THEN {<<T, "RUNNING">> : T \in Crank([StartWork(S, c) EXCEPT ![w].executing = TRUE], c)}
        ELSE IF st = "SUCCESS" \/ (st = "FAILURE" /\ ~StopAtFirstFailure[w])
        THEN RunSequence([S EXCEPT ![w].executing = FALSE, ![w].pos = @ + 1], w)
        ELSE IF st # "RUNNING" THEN {<<S, st>>}
        ELSE {<<T, "RUNNING">> : T \in Crank(S, c)}

\* ConditionalWork::onRun; the condition is dropped once it is satisfied.
RunConditional(S, w) ==
    LET c == Parts[w][1]
        T == IF S[w].started THEN S
             ELSE [StartWork(S, c) EXCEPT ![w].started = TRUE, ![w].condition = FALSE]
    IN  IF ~S[w].started /\ ~S[w].condition THEN {<<Check(S, w, FALSE), "WAITING">>}
        ELSE IF ~S[w].started /\ S[Gate[w]].state # "SUCCESS"
        THEN {<<[S EXCEPT ![w].waitTimer = TRUE], "WAITING">>}
        ELSE {<<U, PublicState(U[c])>> : U \in Crank(T, c)}

AbortAwaitingSuccess(S, w) == {<<S, S[w].done /\ ~S[w].ec>>}

\* tryProcessShutdown: a process that waits for its turn is dropped, one that
\* runs is sent a signal, a stronger one every time; sending it may fail.
\* Nobody waits for the exit.
TryProcessShutdown(S, w) ==
    LET Tried(process, sent) == <<[S EXCEPT ![w].process = process], sent>>
    IN  CASE S[w].process = "running" ->
                {Tried("none", TRUE), Tried("polite", TRUE), Tried("polite", FALSE)}
          [] S[w].process = "polite" -> {Tried("forced", TRUE), Tried("forced", FALSE)}
          [] S[w].process = "forced" -> {<<S, TRUE>>}

\* onAbort of a command
AbortCommand(S, w) ==
    IF S[w].exitEvent /\ S[w].process # "none" THEN TryProcessShutdown(S, w) ELSE {<<S, TRUE>>}

\* onAbort: pairs of a state and whether aborting is done.
OnAbort(S, w) ==
    LET y == Yield(S, S[w].children, S[w].next)
        T == [S EXCEPT ![w].children = y.children, ![w].next = y.next]
        Part == Parts[w][S[w].pos]
    IN  CASE Kind[w] \in {"scheduler", "batch"} ->
                IF y.child = NoWork THEN {<<T, AllDone(T, y.children)>>}
                ELSE {<<U, FALSE>> :
                         U \in Crank(Check(T, w, T[y.child].state = "ABORTING"), y.child)}
          [] Kind[w] = "sequence" ->
                IF S[w].executing /\ ~IsDone(S[Part])
                THEN {<<U, FALSE>> : U \in Crank(S, Part)} ELSE {<<S, TRUE>>}
          [] Kind[w] = "conditional" ->
                IF S[w].started /\ ~IsDone(S[Parts[w][1]])
                THEN {<<U, FALSE>> : U \in Crank(S, Parts[w][1])} ELSE {<<S, TRUE>>}
          [] Kind[w] = "command" -> AbortCommand(S, w)

\* Work::onRun
RunChildren(S, w) ==
    LET y == Yield(S, S[w].children, S[w].next)
        T == [S EXCEPT ![w].children = y.children, ![w].next = y.next]
    IN  IF S[w].abortChildren
        THEN {<<a[1], IF a[2] THEN "FAILURE" ELSE "RUNNING">> : a \in OnAbort(S, w)}
        ELSE IF y.child # NoWork THEN {<<U, "RUNNING">> : U \in Crank(T, y.child)}
        ELSE {RunSelf(T, w)}

OnRun(S, w) ==
    CASE Kind[w] \in {"scheduler", "batch"} -> RunChildren(S, w)
      [] Kind[w] = "sequence" -> RunSequence(S, w)
      [] Kind[w] = "conditional" -> RunConditional(S, w)
      [] Kind[w] = "command" -> RunCommand(S, w)

\* crankWork: only a work that runs or aborts may be cranked.
Crank(S0, w) ==
    LET S == Check(S0, w, ~IsDone(S0[w]) /\ S0[w].state # "WAITING")
    IN  IF S[w].state = "ABORTING"
        THEN {SetState(a[1], w, IF a[2] THEN "ABORTED" ELSE "ABORTING") : a \in OnAbort(S, w)}
        ELSE {SetState(r[1], w, r[2]) : r \in OnRun(S, w)}

-----------------------------------------------------------------------------
(* The main thread.                                                        *)

\* The root asks to be scheduled when it wakes up (scheduleOne).
Woken(S) ==
    scheduled' = (scheduled \/ (works[Root].state = "WAITING" /\ S[Root].state = "RUNNING"))

\* scheduleWork, for each work of the scheduler once.
ScheduleWork(w) ==
    /\ \E i \in DOMAIN Parts[Root] : Parts[Root][i] = w
    /\ works[w].state = "PENDING"
    /\ ~IsDone(works[Root]) /\ works[Root].state # "ABORTING"
    /\ works' = AddWork(works, Root, w)
    /\ Woken(works')
    /\ UNCHANGED stopping

\* The posted crank; it posts another one while there is something to run.
CrankRoot ==
    /\ scheduled
    /\ works' \in Crank(works, Root)
    /\ scheduled' = (PublicState(works'[Root]) = "RUNNING")
    /\ UNCHANGED stopping

\* The handler of the retry timer.
RetryTimerFires(w) ==
    /\ works[w].retryTimer /\ works[w].state \notin {"ABORTED", "ABORTING"}
    /\ works' = IF works[w].state = "WAITING"
                THEN WakeUp([works EXCEPT ![w].retries = @ + 1, ![w].retryTimer = FALSE], w)
                ELSE Check(works, w, FALSE)
    /\ Woken(works')
    /\ UNCHANGED stopping

\* The waiting timer of setupWaitingCallback.
WaitTimerFires(w) ==
    /\ works[w].waitTimer /\ works[w].state = "WAITING"
    /\ works' = WakeUp(works, w)
    /\ Woken(works')
    /\ UNCHANGED stopping

ExitsUnnoticed(w, ec) ==
    /\ works[w].process # "none"
    /\ works' = [works EXCEPT ![w].process = "none",
                              ![w].done = ~IsDone(works[w]), ![w].ec = ec]
    /\ UNCHANGED <<scheduled, stopping>>

\* A process exits; RunCommandWork takes its result unless it is done or shut
\* the process down, which ended the wait for it.
ProcessExits(w, ec) ==
    /\ works[w].process # "none"
    /\ LET S == [works EXCEPT ![w].process = "none"]
       IN  works' = IF IsDone(works[w]) \/ works[w].process \in Signalled THEN S
                    ELSE WakeUp([S EXCEPT ![w].done = TRUE, ![w].ec = ec], w)
    /\ Woken(works')
    /\ UNCHANGED stopping

\* WorkScheduler::shutdown
ShutdownRoot ==
    /\ MayShutdown /\ ~stopping /\ ~IsDone(works[Root])
    /\ works' = Shutdown(works, Root)
    /\ scheduled' = TRUE
    /\ stopping' = TRUE

Next ==
    \/ CrankRoot
    \/ \E w \in Work : \/ ScheduleWork(w)
                       \/ RetryTimerFires(w)
                       \/ WaitTimerFires(w)
                       \/ \E ec \in BOOLEAN : ProcessExits(w, ec)
    \/ ShutdownRoot

Spec == Init /\ [][Next]_vars

\* The timers that the event loop will fire and the processes that run; one
\* that was sent a signal may ignore it.
RetryTimers == {w \in Work : works[w].retryTimer /\ works[w].state \notin {"ABORTED", "ABORTING"}}
WaitTimers == {w \in Work : works[w].waitTimer /\ works[w].state = "WAITING"}
Processes == {w \in Work : works[w].process = "running"}

\* The event loop runs what is posted, timers expire and processes exit: weak
\* fairness, with the guards of the actions written out.
FairSpec ==
    /\ Spec
    /\ <>[]scheduled => []<><<CrankRoot>>_vars
    /\ <>[](RetryTimers # {}) => []<><<\E w \in Work : RetryTimerFires(w)>>_vars
    /\ <>[](WaitTimers # {}) => []<><<\E w \in Work : WaitTimerFires(w)>>_vars
    /\ <>[](Processes # {}) =>
          []<><<\E w \in Processes, ec \in BOOLEAN : ProcessExits(w, ec)>>_vars

-----------------------------------------------------------------------------
(* Properties.                                                             *)

\* No assertion of the work classes fails, no illegal transition is attempted
\* and no timer fires in the wrong state, whenever events and shutdown come.
NoThrow == \A w \in Work : ~works[w].threw

\* No wake-up is lost: a work that wants to run has a crank posted and runs
\* below works that want to run.
RunnableIsScheduled ==
    \A w \in Work : works[w].state \in {"RUNNING", "ABORTING"} =>
        /\ scheduled
        /\ w # Root => works[Parent(w)].state \in {"RUNNING", "ABORTING"}

\* A batch succeeds only when all its works did, although children that are
\* done are erased before it is; so does a sequence.
SuccessIsEarned ==
    \A w \in Work : works[w].state = "SUCCESS" /\ Kind[w] \in {"batch", "sequence", "conditional"}
        => AllSuccessful(works, Parts[w])

\* When a work is done nothing below it goes on by itself: its timers are off, its
\* parts are done or were never started, and a process that is left of a command
\* was told to stop.  (It may take its time: tryProcessShutdown "does not
\* guarantee that the process _has exited_ yet".)
DoneMeansStopped ==
    \A w \in Work : IsDone(works[w]) =>
        /\ works[w].process # "running" /\ ~works[w].retryTimer /\ ~works[w].waitTimer
        /\ \A i \in DOMAIN Parts[w] :
              IsDone(works[Parts[w][i]]) \/ works[Parts[w][i]].state = "PENDING"

\* "onReset is expected to restore work's state to its initial condition"
\* (work/BasicWork.h): a conditional work that was reset has its condition.
ResetRestores ==
    \A w \in Work : Kind[w] = "conditional" /\ ~works[w].started => works[w].condition

\* Shutdown ends: the root and with it every work aborts or was done.
ShutdownCompletes ==
    stopping ~> \A w \in Work : IsDone(works[w]) \/ works[w].state = "PENDING"

\* Every work that is scheduled gets done, through failures and retries.
WorkGetsDone ==
    \A i \in DOMAIN Parts[Root] :
        works[Parts[Root][i]].state = "RUNNING" ~> IsDone(works[Parts[Root][i]])
=============================================================================
