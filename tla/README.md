# A TLA+ model of stellar-core

This directory specifies parts of stellar-core in TLA+, checks the
specifications with TLC on small instances and proves theorems about them with
TLAPS. The modules are written from the sources in `src/`; `PROJECT.json` maps
every definition to the lines it stands for and lists the runs, the theorems,
the hazards each property is meant to catch and, for each property, a mutation
of the modelled code that the property detects.

## The system and the modules

A stellar-core process closes ledgers. For each ledger (a *slot*) the SCP
library lets the nodes nominate values and then vote on ballots; the overlay
floods the messages, under flow control; this fork adds to the overlay a small
consensus protocol of its own; a node that fell behind catches up from history
archives with a tree of work items, and a node with a writable archive writes
checkpoints of its ledgers and publishes them.

| Module | Code | What it describes |
| --- | --- | --- |
| `Ballots`, `BallotProtocol` | `scp/BallotProtocol.cpp`, `scp/Slot.cpp` | the ballot protocol of one slot |
| `NominationProtocol` | `scp/NominationProtocol.cpp`, `scp/Slot.cpp` | the nomination protocol of one slot |
| `Quorums` | `scp/Slot.cpp`, `scp/LocalNode.cpp` | quorums and v-blocking sets over given slices |
| `LocalNode` | `scp/LocalNode.cpp`, `scp/QuorumSetUtils.cpp` | nested quorum sets, by the recursive procedures |
| `CustomConsensus` | `overlay/OverlayManagerImpl.cpp`, `overlay/Floodgate.cpp` | the PROPOSE/PREPARE/COMMIT and COLLECT/SEND/ECHO/READY messages |
| `FlowControl`, `CreditWindow` | `overlay/FlowControl*.cpp`, `overlay/Peer.cpp`, `overlay/TCPPeer.cpp` | both ends of a connection, and what flow control promises |
| `WorkScheduler` | `work/*.cpp`, `historywork/RunCommandWork.cpp`, `process/ProcessManagerImpl.cpp` | the tree of work and its scheduler |
| `CatchupRange` | `catchup/CatchupRange.cpp`, `history/HistoryManager.h`, `ledger/CheckpointRange.cpp` | which ledgers and checkpoints a catchup needs |
| `CheckpointBuilder` | `history/CheckpointBuilder.cpp`, `history/HistoryManagerImpl.cpp`, `ledger/LedgerManagerImpl.cpp` | the files of checkpoints, their publication and recovery after a crash |

Modules named `MC...` instantiate these for TLC, with one `.cfg` per question;
modules named `...Proofs` hold theorems and their proofs.

### BallotProtocol

A handler (an envelope, the ballot timer, a new composite candidate) runs to
completion on the main thread, but it calls itself: `advanceSlot` calls the
`attempt...` functions, which emit a statement, which is processed as the node's
own and calls `advanceSlot` again. State that is read before such a call and
used after it is the classic hazard here. So the call stack is part of the
state: `stack[n]` holds the frames of the running handler, every action is a
piece of a handler between two calls, and no other handler of the same node
starts while its stack is not empty.

`bp[n]` holds phase, current ballot *b*, the prepared ballots *p* and *p'*, *h*,
*c*, the value override *z* and the timer. `latest[n]` is `mLatestEnvelopes`,
`lastEnvelope[n]` and `lastEmit[n]` are `mLastEnvelope` and `mLastEnvelopeEmit`,
`sent[n]` what went out. A message is delivered when the receiver has not a
newer one; with `Delayed` an old statement that was overtaken may still arrive,
which covers loss, duplication and reordering. A crash may come at any step and
loses everything but what was persisted when the node last emitted; `Restart`
restores it as `setStateFromEnvelope` does. Counters wrap at `UINT32_MAX`.

Validation verdicts are constants per node and value, since the driver
(the herder) decides them; nomination appears as `NewCandidate`, which may hand
any value of `Candidates[n]` to the node.

### NominationProtocol

`nom[n]` holds votes, accepted values, candidates, the composite value, round,
round leaders, the last statement and the timer; the call stack is state for
the same reason as above. Hashes of values and priorities of nodes, which the code computes from
SHA-256, are constants, total per round. `stopNomination` is called by the
ballot protocol and may come at any time for the nodes in `MayStop`; a restart
restores `mLastEnvelope`.

### LocalNode and Quorums

`LocalNode` keeps the recursion and the unsigned counters of
`isQuorumSliceInternal`, `isVBlockingInternal`, `findClosestVBlocking`,
`isQuorumSetSane` and `normalizeQSetSimplify`; it is compared with the definitions by
slices that `Quorums` uses, so that the protocols can be checked over slices.

### CustomConsensus

Each process keeps `g_txn`, the map from view and block hash to the votes; a
flag of `TxnState` is the set of keys for which it is set. `Floodgate`
forwards a broadcast to every authenticated peer it has not seen it from;
connections may drop and return, and what was under way is lost.

A block is the sequence of transaction counts of its chain, which takes SHA-256
as injective. COLLECT is sent by clients only. `maxView` bounds the views whose
proposals are made and handled, `calm` a client that asks only while no votes
are in flight; each network of the run sets its own bounds.

### FlowControl and CreditWindow

Each end has a main thread and an overlay thread. The overlay thread reads,
takes local capacity and posts messages in batches to the main thread; the main
thread processes them, and at the end of each gives back capacity and perhaps
sends `SEND_MORE_EXTENDED`. Both may take messages from the outbound queue,
under the mutex. The write queue, the socket and the network are one queue per
direction.

What is one step and why: `endMessageProcessing` and the test of
`isThrottled` after it are under one lock; what the main thread posts to the
overlay thread keeps its order; taking the next batch to send commutes with
the end of a message's processing, so appending to the channel at once loses no
behaviour.

`CreditWindow` is the promise for one direction: messages and bytes move between
the sender's credit, the wire, the receiver that is busy with them, what is
withheld until a batch is full and what was granted. `FlowControl` implements it
in each direction under a refinement mapping (`ImplementsCreditWindow`).

### WorkScheduler

A crank of the root is one step, as it is one callback on the main thread; the
other steps are the retry timer, the waiting timer, the exit of a process and
calls from outside (`shutdown`, adding work). A command may fail or succeed.
Its process is state of its own, apart from the command's handle on it
(`exitEvent`): `onAbort` calls `tryProcessShutdown`, which drops a process that
waits for its turn, or sends SIGTERM and, when called again, SIGKILL. Sending may
fail, in which case the command is cranked again; once a signal is sent the
command is done, whether or not the process ever exits.

### CatchupRange

Functions of 32-bit numbers, with wrap-around kept: checkpoint arithmetic, the
five cases of `calculateCatchupRange` and the range of checkpoints to download.

### CheckpointBuilder

The thread that closes ledgers and startup write files; the main thread uploads
and deletes them. What a thread does is a sequence of steps, each one operation
on a file or the commit to the database: `applyLedger`, `restoreCheckpoint`,
`CompleteSteps` and `DeleteSteps` give these sequences in the order of the code,
`todo` and `publish` hold what is left of them, and the two threads interleave
between steps. `dirty` and `final` are the files under temporary and final names,
each with the ledgers of its records; `queueDirty` and `queue` the publish queue.
`Crash` stops the process between any two steps, or in the middle of writing a
record (`Torn`); what is in memory (`open`, `mPublishWasDisabled`, the steps left)
is lost, files and committed ledgers stay. `Recover` is one turn of `cleanup`.

The node starts from genesis, or with publishing just enabled at ledger `start`,
in which case the checkpoint it is in is skipped (`ensureOpen`). Checkpoint
arithmetic is that of `CatchupRange`, which its proofs cover.

Files survive a crash of the process as they were written; loss of power is not
modelled. It would need more: `appendLedgerHeader` flushes the header and does
not fsync it (`CheckpointBuilder.cpp:173`), although the header file says files are
"fsynced on every write" (`CheckpointBuilder.h:23`), so a committed ledger whose
header is lost makes `cleanup` refuse to start.

## What TLC checks

Every run below ends within two minutes on two cores; the numbers are distinct
states.

| Run | Instance | Properties |
| --- | --- | --- |
| `ballot_pair` (194,099) | two nodes that need each other, either value nominated on each, one value n1 cannot fully validate, a timeout, a crash, late statements | `NoException`, `EmitsInOrder`, `EmitsOnlyValidated` |
| `ballot_star` (490,904) | quorums {n1,n3} and {n2,n3}; n3 may time out and crash | `PreparedForCommit`, `TimerRuns`, `CounterNeverWraps`, `CheckInvariants`, `AcceptedCommitsAgree`, `Agreement` |
| `ballot_crash` (334,394) | three nodes, n1 crashes once, fairness | `Termination` |
| `nomination` (104,912) | three nodes, three rounds, one without a new leader, fairness | `CandidatesAccepted`, `EventuallyCandidate` |
| `nomination_restart` (58,457) | two nodes, a value one refuses and a variant it takes, two restarts | `NoException`, `TimerRuns`, `CompositeIsCurrent`, `EmitsInOrder` |
| `quorum_sets` (221,476) | every sane quorum set over four nodes and two levels of inner sets; every flat quorum set for three voters | `SliceMatches`, `VBlockingMatches`, `QuorumMatches`, `ClosestIsClosest`, `NormalizeKeepsSlices`, `ExtraChecksIntersect` |
| `custom` (253,190) | four processes; three with two views and repeated proposals; two with a lost connection and a collecting client; three of which two report the same block to a client | `CommitCertified`, `CommittedExtendsCommitted`, `CollectedWasPrepared`, `EventuallyCommits` |
| `work` (151,430) | a batch of three sequences with processes that fail, a condition, a retry, shutdown at any step | `NoThrow`, `RunnableIsScheduled`, `SuccessIsEarned`, `DoneMeansStopped`, `ShutdownCompletes`, `WorkGetsDone` |
| `flow_control` (227,693) | two ends with room for two messages; transactions, statements, adverts and demands, an upgrade | `NoThrow`, `ImplementsCreditWindow`, `EventuallyDelivered` |
| `checkpoint` (77,881) | eight ledgers in checkpoints of three, two of them empty, three crashes, a failed publication, fairness | `NoThrow`, `FinalIsWhole`, `PublishedIsWhole`, `EventuallyPublished` |
| `work_reset`, `checkpoint_first_ledger` | see Findings | `ResetRestores`, `FinalAlwaysValid` (both violated) |

Why the bounds are enough for the questions asked. Two conflicting values and
one timeout are what it takes for a second ballot to prepare against the first
(p and p' both set, c cleared); in `ballot_star` the one node in both quorums
can lose its memory between the two, which is where agreement could fail. A
`UINT32_MAX` of 9 leaves room above every counter that one timeout can reach,
so that wrapping would be seen as a violation and not met by the bound.
Nomination needs a round that adds no leader followed by one that does, hence
three rounds. In `flow_control` each end has a window of two messages and four
bytes, a batch of two, and more than that to send; the four scenarios share one
run. The work tree holds each class of work once in each role: a conditional
work whose gate is another branch, a sequence that goes on after failure and is
retried as a whole, and more sequences than may run at a time. Eight ledgers in
checkpoints of three are three checkpoints: one that starts with the genesis
ledger, one the deletion of published files reaches back to, and one that is
written while they are published. The third crash can hit the recovery from the
second, which hit the recovery from the first.

In `custom` the four processes are the smallest network with f = 1, and two
processes that prepared one block are what it takes for the SENDs of two origins
of one value to meet; that network has f = 0, and the theorem
`CollectedValuesWerePrepared` covers the others.

In `checkpoint` a crash may come at any step. One kind leaves records that
`cleanup` does not drop, and the history variable `exposed` remembers it: the
four properties of the run hold until it happens, and none of them holds after
it (see Findings). The run does not follow a node past it (`FollowExposed`),
`checkpoint_first_ledger` does.

Deadlock checking is off in the runs that have bounds: when these are used up
and everything is delivered nothing is left to do.

### Fairness

`BallotProtocol`, `NominationProtocol`, `CustomConsensus` and `FlowControl`
assume only that work that is left is eventually followed by a step
(`FairSpec`): a handler that runs goes on, a statement in flight that the
receiver would use arrives, a candidate that nomination has is handed over, an
armed timer of nomination expires, the tick timer fires, a thread that has
something to do does it. That is what the event loop and a connection that
stays up provide. Ballot timeouts, restarts, lost connections and upgrades are
never forced. `WorkScheduler` assumes weak fairness of a posted crank, of armed
timers and of the exit of processes that were not sent a signal; one that was
may ignore it. `CheckpointBuilder` assumes that a process
that stopped is started again, that a thread goes on with what it began, and that
`publishQueuedHistory` runs while something is queued: it is called at startup,
after every ledger and when a publication is over. Uploads fail finitely often;
crashes and new ledgers are never forced.

`Termination` is checked with no ballot timeout, so the crash is what it has to
survive; unbounded timeouts with growing durations, on which SCP relies in
general, need real time and are not modelled.

## What is proved

TLAPS checks the following for every value of the constants: any set of nodes
and slices, any values, rounds, timeouts and restarts, any capacity and size.

* `BallotProtocolProofs`. `TypeCorrect`: `Spec => []TypeOK`.
  `EmitsStatementsInOrder`: a node never emits a statement that is not newer
  than all it emitted, across nested handlers and crashes. The statement made
  last and the one emitted last differ while handlers are nested, so the
  inductive invariant `OrderInv` says that what was sent is at most
  `lastEmit`, and that at most `lastEnvelope`; the order of statements is shown
  to be transitive case by case over the statement types.
* `BallotInvariantProofs`. `InvariantsHold`: the assertions of
  `checkInvariants` (h, c, p, p' and b in order and compatible) hold at every
  step. They have to hold of a state restored from a statement as well, so the
  invariant `OrderedInv` adds that every statement in `lastEmit`,
  `lastEnvelope` and on the stack restores to an ordered state. The hypothesis
  `[]PreparedForCommit` (what is accepted as committed was accepted as prepared)
  is a fact about quorums; `ballot_star` checks it.
* `NominationProofs`. `CandidatesAreAccepted`: a candidate has a quorum each of
  whose other members emitted that it accepted the value. `EmissionsGrow`: a
  node's nomination statements only grow, across restarts. The invariant adds
  that what was heard was sent, and that what was sent is below the last
  statement made.
* `CustomConsensusProofs`. `CollectedValuesWerePrepared`: what is collected for
  an origin was prepared by it, in every network. The invariant says it of every
  SEND, ECHO and READY in flight. `CommitsAreCertified`: while no connection is
  lost, a block is committed only if 2f+1 processes prepared it; the invariant
  adds that whoever is counted as a voter voted, and that a first COMMIT rests
  on 2f+1 PREPAREs however often it was amplified.
* `CreditWindowProofs`. `WindowConserves`: credit, wire, busy, withheld and
  granted add up to the capacity. From it `WindowNeverOverrun` (the receiver is
  never sent more than it has room for) and `WindowNeverStuck` (with nothing
  under way there is credit for a message of any size that leaves a byte batch
  free, whatever is withheld). The assumption `WindowAssumption` is that a batch
  is no larger than the capacity.
* `CatchupRangeProofs`. `LedgerInCheckpoint`, `CatchupSound`, `DownloadSound`,
  `CatchupDownloads`: every ledger is in its checkpoint, a catchup reaches its
  target without a gap and with the count asked for, and the checkpoints
  downloaded hold all that is verified. The hypothesis `Widths` is that a
  checkpoint has 8 or 64 ledgers and that 64 divides the number of 32-bit
  values; the two theorems on downloads ask for ledgers two checkpoints below
  the last 32-bit number, above which the arithmetic of `CheckpointRange` wraps.

Only model-checked: liveness under fairness; the procedures of `LocalNode` and
the work tree of `WorkScheduler`, which are recursive; `Agreement`, whose proof
needs quorum intersection across all slots of the call stack; that
`FlowControl` implements `CreditWindow`, whose mapping sums over queues;
`CommittedExtendsCommitted`; `CheckpointBuilder`, beyond the arithmetic it takes from
`CatchupRange`.

## Findings

* `checkpoint_first_ledger`. "If a crash before commit occurrs on a first ledger
  in a checkpoint, the dirty file is simply deleted on startup"
  (`src/src/history/CheckpointBuilder.h:43`). `cleanup` deletes it only where the
  final file of the checkpoint before it exists (`CheckpointBuilder.cpp:231`).
  That file is gone once it is published and deleted, and never existed if
  publishing was enabled at the boundary. The records of the rolled back ledger
  then stay, the ledger is closed again, and the final file holds them twice, or
  a record written in part in its middle; "final checkpoint files are always
  valid (and do not contain uncommitted data)" (`CheckpointBuilder.h:27`) does
  not hold. From there it gets worse: the file is published as it is, and two
  more crashes (after the commit of that ledger, and after the next startup
  truncated the file to nothing) make every later startup throw "Corrupt
  checkpoint file", so that the checkpoint is never published. TLC shows each of
  these when `NoThrow`, `PublishedIsWhole` and `EventuallyPublished` are stated
  without `exposed`, with `FollowExposed = TRUE`.
* Seen while modelling `restoreCheckpoint`, with no effect on the properties: it
  means to remove temporary files of the publish queue that are after the last
  closed ledger and removes them by name without the directory
  (`HistoryManagerImpl.cpp:753`, `Fs.cpp:335`). They stay, and are overwritten when
  the ledger is closed again.
* Ballot protocol, seen with `TimerRuns` in runs that restart. `bumpState` says
  it uses "the value that we saw confirmed prepared or that we at least voted to
  commit to"
  (`src/src/scp/BallotProtocol.cpp:372`), from `mValueOverride`.
  `setStateFromEnvelope` restores c and h but not `mValueOverride`, so after a
  restart the node bumps with nomination's composite value. `updateCurrentValue`
  then refuses the ballot: safety is kept, but the node stays on its old ballot,
  and the timer that expired is not set again while it hears from a quorum at
  its counter. `TimerRuns` is therefore stated for nodes that did not restart.
* `work_reset`. `onReset` "is expected to restore work's state to its initial
  condition" (`src/src/work/BasicWork.h:179`). `ConditionalWork` drops its
  condition once it held, as documented ("it will actually be deleted once it
  returns true once", `ConditionalWork.h:13`), and `onReset` does not bring it
  back, so a sequence that is retried after the conditioned work failed calls an
  empty function.
* Flow control, seen with `UpgradesEarly = TRUE`: the capacity is set when
  HELLO is received and announced when AUTH is; an upgrade of the transaction
  size between the two enlarges it twice for the other end (`FlowControl.cpp:35`,
  `Peer.cpp:1928`, `HerderImpl.cpp:2260`), which breaks `NoThrow` and
  `ImplementsCreditWindow`. The run excludes it (`UpgradesEarly = FALSE`):
  upgrades come once in a while and a handshake takes a moment.

## Not modelled

Within the modelled parts: JSON, logging and metrics; node weights and the
variants of the quorum set functions that leave out a node; in nomination, the
change of a slot's `mFullyValidated` (constant `Validating`); the purge of
flood records (`clearBelow`) in `CustomConsensus`; in flow control, the mode
with a configured byte capacity, the loss of the connection and a decrease of
the transaction size; `WorkWithCallback`; of checkpoints, what records hold,
buckets, the SCP history file, compression, several archives, loss of power and
file operations that fail.

Other subsystems are listed in `PROJECT.json` with the reason. In short:
ledger state, transactions and the bucket list are sequential code over data
that would have to be enumerated; the herder's transaction queue and transaction
sets order values that are opaque here; handshake, peer management, database and
cryptography are interfaces to the operating system or to libraries, and the
modules take what they promise as given.
