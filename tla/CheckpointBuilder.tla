--------------------------- MODULE CheckpointBuilder ---------------------------
(***************************************************************************)
(* How a node writes checkpoints and publishes them, and how it recovers   *)
(* after a crash (history/CheckpointBuilder.cpp, HistoryManagerImpl.cpp    *)
(* and the calls of ledger/LedgerManagerImpl.cpp).                         *)
(*                                                                         *)
(* For each checkpoint three files (results, transactions and headers) are *)
(* written ledger by ledger under a temporary name, and a fourth names the *)
(* checkpoint in the publish queue; all get their final names after the    *)
(* last ledger of the checkpoint is committed.  One thread closes ledgers, *)
(* another publishes; the process may stop between any two operations on   *)
(* files.                                                                  *)
(***************************************************************************)
EXTENDS CatchupRange, Sequences, SequencesExt

CONSTANTS
    First,        \* ledgers that may be the last closed one at the first start
    Empty,        \* ledgers without transactions
    MaxLedger,    \* bound: ledgers closed
    MaxCrash,     \* bound: crashes
    MaxFail,      \* bound: publications that fail
    FollowExposed \* bound: whether a node is followed after a crash that left
                  \* records which cleanup does not drop

ASSUME CheckpointAssumption ==
    /\ Frequency \in Nat \ {0, 1} /\ UINT32_MAX > MaxLedger + 2 * Frequency
    /\ First \subseteq 1..MaxLedger /\ GENESIS_LEDGER_SEQ \in Empty
    /\ MaxLedger \in Nat /\ MaxCrash \in Nat /\ MaxFail \in Nat

Kind == {"results", "transactions", "headers"}

VARIABLES
    lcl,         \* the last committed ledger, in the database
    dirty,       \* files under temporary names: <<kind, checkpoint>> to records
    final,       \* files under final names
    queueDirty,  \* checkpoints with a temporary file in the publish queue
    queue,       \* checkpoints with a final file in the publish queue
    node,        \* state of the process: "down", "starting", "up" or "failed"
    todo,        \* what the thread that closes ledgers has yet to do
    open,        \* the checkpoint whose files are open (mOpen), or 0
    mPublishWasDisabled,
    publish,     \* what the main thread has yet to do to publish a checkpoint
    publishing,  \* the checkpoint of mPublishWork, or 0
    deleting,    \* currentCheckpoint of deletePublishedFiles, or 0
    archive,     \* files in the archive
    published,   \* checkpoints whose state is in the archive
    start,       \* the last closed ledger at the first start
    exposed,     \* whether a crash left records that cleanup will not drop
    crashes, fails

files == <<dirty, final>>
queues == <<queueDirty, queue>>
builder == <<open, mPublishWasDisabled>>
publisher == <<publish, publishing, deleting, archive, published, fails>>
vars == <<lcl, files, queues, node, todo, builder, publisher, start, exposed, crashes>>

\* A record is the ledger it is of; Torn is one that was written in part.
Torn == 0

Without(f, keys) == [x \in DOMAIN f \ keys |-> f[x]]
With(f, key, records) == [x \in DOMAIN f \cup {key} |-> IF x = key THEN records ELSE f[x]]

isFirstLedgerInCheckpoint(ledger) == firstLedgerInCheckpointContaining(ledger) = ledger
-----------------------------------------------------------------------------
(* The steps of a thread, in the order of the code.                        *)

Step(op, kind) == [op |-> op, kind |-> kind]

\* A mutant of CompleteSteps: the checkpoint is queued before its files are.
QueuesFirst ==
    <<Step("finalize", "queue"), Step("rename", "results"), Step("rename", "transactions"),
      Step("rename", "headers")>>

\* checkpointComplete and the rest of maybeCheckpointComplete.
CompleteSteps ==
    <<Step("rename", "results"), Step("rename", "transactions"), Step("rename", "headers"),
      Step("finalize", "queue")>>

maybeCheckpointComplete(ledger) ==
    IF isLastLedgerInCheckpoint(ledger) THEN CompleteSteps ELSE <<>>

\* A mutant of restoreCheckpoint that leaves checkpoints as they are.
OnlyRecovers ==
    <<Step("recover", "results"), Step("recover", "transactions"), Step("recover", "headers")>>

\* restoreCheckpoint, with cleanup.  The temporary files of the queue that are
\* after lcl stay: they are removed by their names without the directory.
restoreCheckpoint ==
    <<Step("recover", "results"), Step("recover", "transactions"), Step("recover", "headers")>>
    \o maybeCheckpointComplete(lcl)

\* ensureOpen returns false: the checkpoint was not written from its beginning.
SkipsCheckpoint(ledger) ==
    open = 0 /\ mPublishWasDisabled /\ ~isFirstLedgerInCheckpoint(ledger)

ensureOpen ==
    IF open # 0 THEN <<>>
    ELSE <<Step("open", "results"), Step("open", "transactions"), Step("open", "headers")>>

appendTransactionSet(ledger) ==
    IF ledger \in Empty THEN <<>>
    ELSE <<Step("append", "results"), Step("append", "transactions")>>

appendLedgerHeader == <<Step("append", "headers")>>

maybeQueueHistoryCheckpoint(ledger) ==
    IF isLastLedgerInCheckpoint(ledger) THEN <<Step("enqueue", "queue")>> ELSE <<>>

\* applyLedger, as far as it concerns history.
applyLedger(ledger) ==
    (IF SkipsCheckpoint(ledger) THEN <<>>
     ELSE ensureOpen \o appendTransactionSet(ledger) \o appendLedgerHeader)
    \o maybeQueueHistoryCheckpoint(ledger)
    \o <<Step("commit", "ledger")>>
    \o maybeCheckpointComplete(ledger)

\* One turn of the loop of deletePublishedFiles.
DeleteSteps ==
    <<Step("deleteDirty", "results"), Step("deleteDirty", "transactions"),
      Step("deleteDirty", "headers"), Step("delete", "results"), Step("delete", "transactions"),
      Step("delete", "headers"), Step("dequeue", "queue")>>
-----------------------------------------------------------------------------
(* The state before the node is started with a writable archive: it never  *)
(* wrote a checkpoint, or it just made the genesis ledger.                 *)

GenesisFiles ==
    [x \in Kind \X {checkpointContainingLedger(GENESIS_LEDGER_SEQ)} |->
        IF x[1] = "headers" THEN <<GENESIS_LEDGER_SEQ>> ELSE <<>>]

Init ==
    /\ start \in First \cup {0}
    /\ lcl = IF start = 0 THEN GENESIS_LEDGER_SEQ ELSE start
    /\ dirty = IF start = 0 THEN GenesisFiles ELSE <<>>
    /\ final = <<>> /\ queueDirty = {} /\ queue = {}
    /\ node = "down" /\ todo = <<>>
    /\ open = 0 /\ mPublishWasDisabled = FALSE
    /\ publish = <<>> /\ publishing = 0 /\ deleting = 0
    /\ archive = <<>> /\ published = {}
    /\ exposed = FALSE /\ crashes = 0 /\ fails = 0
-----------------------------------------------------------------------------
(* The thread that closes ledgers, and startup.                            *)

Does(op) == todo # <<>> /\ Head(todo).op = op

\* Startup is over when nothing is left to do.
Done ==
    /\ todo' = Tail(todo)
    /\ node' = IF Tail(todo) = <<>> THEN "up" ELSE node
    /\ UNCHANGED <<start, exposed, crashes>>

\* An exception ends the process, and every later startup does the same.
Throw == node' = "failed" /\ todo' = <<>> /\ UNCHANGED <<start, exposed, crashes>>

Restart ==
    /\ node = "down" /\ node' = "starting"
    /\ exposed => FollowExposed
    /\ todo' = restoreCheckpoint
    /\ UNCHANGED <<lcl, files, queues, builder, publisher, start, exposed, crashes>>

\* The record at which recover stops copying: one it cannot read, or one of a
\* ledger after lcl.
StopsAt(records) ==
    SelectInSeq(records, LAMBDA r : r = Torn \/ r > lcl)

\* A mutant of Truncated that drops only what cannot be read.
DropsTorn(records) == SelectSeq(records, LAMBDA r : r # Torn)

Truncated(records) ==
    IF StopsAt(records) = 0 THEN records ELSE SubSeq(records, 1, StopsAt(records) - 1)

\* A mutant of IsCorrupt that expects lcl at the end of every file.
IsCorruptAtGap(kind, records) ==
    StopsAt(records) = 0 /\ (records = <<>> \/ Last(records) # lcl)

\* recover throws: all was read and the headers do not end at lcl.
IsCorrupt(kind, records) ==
    kind = "headers" /\ StopsAt(records) = 0 /\ (records = <<>> \/ Last(records) # lcl)

Recover ==
    /\ Does("recover")
    /\ LET kind == Head(todo).kind
           cp == checkpointContainingLedger(lcl)
           file == <<kind, cp>>
           next == <<kind, checkpointContainingLedger(cp + 1)>>
       IN  \/ /\ file \in DOMAIN final
              /\ dirty' = Without(dirty, {next})
              /\ Done /\ UNCHANGED mPublishWasDisabled
           \/ /\ file \notin DOMAIN final \cup DOMAIN dirty
              /\ mPublishWasDisabled' = TRUE
              /\ Done /\ UNCHANGED dirty
           \/ /\ file \in DOMAIN dirty \ DOMAIN final
              /\ IF IsCorrupt(kind, dirty[file])
                 THEN Throw /\ UNCHANGED dirty
                 ELSE Done /\ dirty' = With(dirty, file, Truncated(dirty[file]))
              /\ UNCHANGED mPublishWasDisabled
    /\ UNCHANGED <<lcl, final, queues, open, publisher>>

CloseLedger ==
    /\ node = "up" /\ todo = <<>> /\ lcl < MaxLedger
    /\ todo' = applyLedger(lcl + 1)
    /\ UNCHANGED <<lcl, files, queues, node, builder, publisher, start, exposed, crashes>>

\* Files are opened to append and made if they do not exist.
Open ==
    /\ Does("open") /\ Done
    /\ LET cp == checkpointContainingLedger(lcl + 1)
           file == <<Head(todo).kind, cp>>
       IN  /\ dirty' = IF file \in DOMAIN dirty THEN dirty ELSE With(dirty, file, <<>>)
           /\ open' = IF Head(todo).kind = "headers" THEN cp ELSE 0
    /\ mPublishWasDisabled' = FALSE
    /\ UNCHANGED <<lcl, final, queues, publisher>>

AppendRecord ==
    /\ Does("append") /\ Done
    /\ LET file == <<Head(todo).kind, open>>
       IN  dirty' = With(dirty, file, Append(dirty[file], lcl + 1))
    /\ UNCHANGED <<lcl, final, queues, builder, publisher>>

Enqueue ==
    /\ Does("enqueue") /\ Done
    /\ queueDirty' = queueDirty \cup {lcl + 1}
    /\ UNCHANGED <<lcl, files, queue, builder, publisher>>

Commit ==
    /\ Does("commit") /\ Done
    /\ lcl' = lcl + 1
    /\ UNCHANGED <<files, queues, builder, publisher>>

\* checkpointComplete closes the streams, and renames.
Rename ==
    /\ Does("rename") /\ Done
    /\ LET file == <<Head(todo).kind, lcl>>
           renames == file \in DOMAIN dirty \ DOMAIN final
       IN  /\ final' = IF renames THEN With(final, file, dirty[file]) ELSE final
           /\ dirty' = IF renames THEN Without(dirty, {file}) ELSE dirty
    /\ open' = 0
    /\ UNCHANGED <<lcl, queues, mPublishWasDisabled, publisher>>

Finalize ==
    /\ Does("finalize") /\ Done
    /\ LET renames == lcl \in queueDirty \ queue
       IN  /\ queue' = IF renames THEN queue \cup {lcl} ELSE queue
           /\ queueDirty' = IF renames THEN queueDirty \ {lcl} ELSE queueDirty
    /\ UNCHANGED <<lcl, files, builder, publisher>>
-----------------------------------------------------------------------------
(* The main thread, which publishes.                                       *)

applying == <<lcl, node, todo, builder, start, exposed, crashes>>

publishQueuedHistory ==
    /\ node = "up" /\ publishing = 0 /\ queue # {}
    /\ publishing' = CHOOSE cp \in queue : \A other \in queue : cp <= other
    /\ publish' = <<Step("upload", "files"), Step("upload", "state")>>
    /\ UNCHANGED <<files, queues, deleting, archive, published, fails, applying>>

Publishing(op) == publish # <<>> /\ Head(publish).op = op

\* PutFilesWork: the files that exist.
UploadFiles ==
    /\ Publishing("upload") /\ Head(publish).kind = "files"
    /\ LET uploaded == {x \in DOMAIN final : x[2] = publishing}
       IN  archive' = [x \in DOMAIN archive \cup uploaded |->
                          IF x \in uploaded THEN final[x] ELSE archive[x]]
    /\ publish' = Tail(publish)
    /\ UNCHANGED <<files, queues, publishing, deleting, published, fails, applying>>

\* PutHistoryArchiveStateWork, after which the files are deleted.
UploadState ==
    /\ Publishing("upload") /\ Head(publish).kind = "state"
    /\ published' = published \cup {publishing}
    /\ publish' = DeleteSteps /\ deleting' = publishing
    /\ UNCHANGED <<files, queues, publishing, archive, fails, applying>>

PublishFails ==
    /\ Publishing("upload") /\ fails < MaxFail
    /\ fails' = fails + 1
    /\ publish' = <<>> /\ publishing' = 0
    /\ UNCHANGED <<files, queues, deleting, archive, published, applying>>

Delete ==
    /\ LET file == <<Head(publish).kind, deleting>>
       IN  \/ Publishing("deleteDirty") /\ dirty' = Without(dirty, {file}) /\ UNCHANGED final
           \/ Publishing("delete") /\ final' = Without(final, {file}) /\ UNCHANGED dirty
    /\ publish' = Tail(publish)
    /\ UNCHANGED <<queues, publishing, deleting, archive, published, fails, applying>>

\* The loop goes on with the checkpoint before while that one has files.
GoesOn ==
    deleting >= Frequency
        /\ \E kind \in Kind : <<kind, deleting - Frequency>> \in DOMAIN dirty \cup DOMAIN final

Dequeue ==
    /\ Publishing("dequeue")
    /\ queue' = queue \ {publishing}
    /\ publish' = IF GoesOn THEN DeleteSteps ELSE <<>>
    /\ deleting' = IF GoesOn THEN deleting - Frequency ELSE 0
    /\ publishing' = IF GoesOn THEN publishing ELSE 0
    /\ UNCHANGED <<files, queueDirty, archive, published, fails, applying>>
-----------------------------------------------------------------------------
\* lcl is the last ledger of its checkpoint, a record of the next one is in a
\* file, and the file of lcl's checkpoint that would make cleanup delete it is
\* gone or never was: the record stays although its ledger is rolled back.
Exposes(written) ==
    LET cp == checkpointContainingLedger(lcl)
        next == checkpointContainingLedger(cp + 1)
    IN  lcl = cp /\ \E kind \in Kind : /\ <<kind, cp>> \notin DOMAIN final
                                       /\ <<kind, next>> \in DOMAIN written
                                       /\ written[<<kind, next>>] # <<>>

\* The process stops, perhaps in the middle of writing a record.
Crash(torn) ==
    /\ node \in {"starting", "up"} /\ crashes < MaxCrash
    /\ torn => Does("append")
    /\ LET written == <<Head(todo).kind, open>>
       IN  dirty' = IF torn THEN With(dirty, written, Append(dirty[written], Torn)) ELSE dirty
    /\ exposed' = (exposed \/ Exposes(dirty'))
    /\ node' = "down" /\ todo' = <<>>
    /\ open' = 0 /\ mPublishWasDisabled' = FALSE
    /\ publish' = <<>> /\ publishing' = 0 /\ deleting' = 0
    /\ crashes' = crashes + 1
    /\ UNCHANGED <<lcl, final, queues, archive, published, fails, start>>
-----------------------------------------------------------------------------
Closes ==
    \/ Recover
    \/ Open \/ AppendRecord \/ Enqueue \/ Commit \/ Rename \/ Finalize

Publishes ==
    \/ publishQueuedHistory
    \/ UploadFiles \/ UploadState \/ PublishFails \/ Delete \/ Dequeue

Next ==
    \/ Restart \/ Closes \/ CloseLedger \/ Publishes
    \/ \E torn \in BOOLEAN : Crash(torn)

Spec == Init /\ [][Next]_vars

\* A process that stopped is started again, a thread goes on with what it
\* began, and publishQueuedHistory is called at startup, after every ledger
\* and again when a publication is over.
FairSpec == Spec /\ WF_vars(Restart) /\ WF_vars(Closes) /\ WF_vars(Publishes)
-----------------------------------------------------------------------------
(* Properties.                                                             *)

Checkpoints == {checkpointContainingLedger(l) : l \in 1..MaxLedger}

\* What belongs in a file: the ledgers of the checkpoint in order, the ones
\* without transactions only among the headers.
History(kind, cp) ==
    LET first == firstLedgerInCheckpointContaining(cp)
    IN  SelectSeq([i \in 1..(cp - first + 1) |-> first + i - 1],
                  LAMBDA l : kind = "headers" \/ l \notin Empty)

\* Startup succeeds after a crash at any step of a close, a startup or a
\* publication, and after a crash in the startup that follows: the headers reach
\* the last committed ledger, so cleanup does not find a corrupt checkpoint.
\* This and the next three hold unless a crash exposes a record (Exposes), after
\* which none of the four does.
NoThrow == ~exposed => node # "failed"

\* "final checkpoint files are always valid (and do not contain uncommitted
\* data)" (history/CheckpointBuilder.h): they hold the records of all their
\* ledgers, each once, and were renamed after the last of them was committed.
FinalAlwaysValid ==
    \A x \in DOMAIN final : final[x] = History(x[1], x[2]) /\ x[2] <= lcl

\* Files with final names are valid, whichever steps the crashes come between
\* and in the middle of which record, unless a record was exposed.
FinalIsWhole == ~exposed => FinalAlwaysValid

\* A checkpoint in the archive that was begun after the node was first started
\* has all of its files there, whole, although files are deleted one by one and
\* a publication may be repeated after a crash between two deletions; unless a
\* record was exposed.
PublishedIsWhole ==
    ~exposed => \A cp \in published :
        start < firstLedgerInCheckpointContaining(cp) =>
            \A kind \in Kind : /\ <<kind, cp>> \in DOMAIN archive
                               /\ archive[<<kind, cp>>] = History(kind, cp)

\* Every checkpoint whose last ledger is committed is published in the end,
\* whether the node crashed before it was queued, while files were renamed or
\* in a publication, unless a record was exposed.
EventuallyPublished ==
    \A cp \in Checkpoints : lcl >= cp /\ start < cp ~> cp \in published \/ exposed
=============================================================================
