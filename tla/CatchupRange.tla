----------------------------- MODULE CatchupRange -----------------------------
(***************************************************************************)
(* Which ledgers a catchup applies and which checkpoints it downloads      *)
(* (catchup/CatchupRange.cpp, history/HistoryManager.h, ledger/            *)
(* CheckpointRange.cpp), in arithmetic of the width of uint32_t.           *)
(***************************************************************************)
EXTENDS Integers

CONSTANTS UINT32_MAX, Frequency   \* getCheckpointFrequency

Uint32 == 0..UINT32_MAX
Wrap(n) == n % (UINT32_MAX + 1)

GENESIS_LEDGER_SEQ == 1
CURRENT == 0
-----------------------------------------------------------------------------
\* A checkpoint is named by its last ledger; the first one has no ledger 0.
checkpointContainingLedger(ledger) == Wrap(((ledger \div Frequency) + 1) * Frequency - 1)

isLastLedgerInCheckpoint(ledger) == checkpointContainingLedger(ledger) = ledger

sizeOfCheckpointContaining(ledger) == IF ledger < Frequency THEN Frequency - 1 ELSE Frequency

firstLedgerInCheckpointContaining(ledger) ==
    Wrap(checkpointContainingLedger(ledger) - (sizeOfCheckpointContaining(ledger) - 1))

lastLedgerBeforeCheckpointContaining(ledger) ==
    Wrap(checkpointContainingLedger(ledger) - sizeOfCheckpointContaining(ledger))
-----------------------------------------------------------------------------
LedgerRange(first, count) == [mFirst |-> first, mCount |-> count]

\* last(), for a range that is not empty.
LastOf(range) == Wrap(range.mFirst + range.mCount - 1)

\* The constructors of CatchupRange, apart from the checks.
ReplayOnly(replay) == [mApplyBuckets |-> FALSE, at |-> 0, replay |-> replay]
BucketsOnly(at) == [mApplyBuckets |-> TRUE, at |-> at, replay |-> LedgerRange(0, 0)]
BucketsAndReplay(at, replay) == [mApplyBuckets |-> TRUE, at |-> at, replay |-> replay]

\* checkCatchupPreconditions does not throw.
Preconditions(lcl, toLedger) ==
    /\ lcl >= GENESIS_LEDGER_SEQ
    /\ toLedger > lcl
    /\ toLedger > GENESIS_LEDGER_SEQ
    /\ toLedger # CURRENT

calculateCatchupRange(lcl, count, toLedger) ==
    LET init == GENESIS_LEDGER_SEQ
        fullReplayCount == Wrap(toLedger - lcl)
        fullReplay == LedgerRange(Wrap(lcl + 1), fullReplayCount)
        targetStart == Wrap(toLedger - count + 1)
        firstInCheckpoint == firstLedgerInCheckpointContaining(targetStart)
        applyBucketsAt == lastLedgerBeforeCheckpointContaining(targetStart)
    IN  IF lcl > init \/ count >= fullReplayCount THEN ReplayOnly(fullReplay)
        ELSE IF count = 0 /\ isLastLedgerInCheckpoint(toLedger) THEN BucketsOnly(toLedger)
        ELSE IF firstInCheckpoint = init THEN ReplayOnly(fullReplay)
        ELSE BucketsAndReplay(applyBucketsAt,
                 LedgerRange(firstInCheckpoint, Wrap(toLedger - applyBucketsAt)))

\* The assertions of CatchupRange::checkInvariants and of LedgerRange.
checkInvariants(r) ==
    LET replays == r.replay.mCount > 0
    IN  /\ r.mApplyBuckets \/ replays
        /\ replays => r.replay.mFirst # 0
        /\ ~r.mApplyBuckets => r.at = 0
        /\ r.mApplyBuckets /\ replays => r.at # 0 /\ Wrap(r.at + 1) = r.replay.mFirst
        /\ ~replays => r.replay.mFirst = 0

\* CatchupRange::last
lastOfCatchup(r) == IF r.replay.mCount # 0 THEN LastOf(r.replay) ELSE r.at

getFullRangeIncludingBucketApply(r) ==
    IF r.mApplyBuckets THEN LedgerRange(r.at, Wrap(r.replay.mCount + 1)) ELSE r.replay

\* CheckpointRange of a range that is not empty.
CheckpointRange(range) ==
    LET first == checkpointContainingLedger(range.mFirst)
        last == checkpointContainingLedger(LastOf(range))
    IN  [mFirst |-> first, mCount |-> Wrap(1 + Wrap(last - first) \div Frequency)]

limit(cr) == Wrap(cr.mFirst + cr.mCount * Frequency)
lastCheckpoint(cr) == Wrap(cr.mFirst + (cr.mCount - 1) * Frequency)

\* The assertions of CheckpointRange's constructor.
checkCheckpointRange(cr) ==
    /\ cr.mFirst > 0
    /\ (cr.mFirst + 1) % Frequency = 0
    /\ limit(cr) >= cr.mFirst
    /\ (limit(cr) + 1) % Frequency = 0
    /\ lastCheckpoint(cr) >= cr.mFirst
    /\ (lastCheckpoint(cr) + 1) % Frequency = 0
-----------------------------------------------------------------------------
\* A ledger is in its checkpoint, whose size, first ledger and predecessor fit
\* (lastLedgerBeforeCheckpointContaining asserts last >= size).
CheckpointOf(ledger) ==
    LET first == firstLedgerInCheckpointContaining(ledger)
        last == checkpointContainingLedger(ledger)
        size == sizeOfCheckpointContaining(ledger)
    IN  /\ first <= ledger /\ ledger <= last
        /\ last >= size /\ last - first + 1 = size
        /\ lastLedgerBeforeCheckpointContaining(ledger) = first - 1
        /\ first > GENESIS_LEDGER_SEQ => isLastLedgerInCheckpoint(first - 1)

\* Whatever is asked for, the assertions hold; the catchup starts right after the
\* last closed ledger or with the buckets of a later checkpoint, goes on without
\* a gap to the ledger asked for, and replays at least the ledgers asked for (or
\* all there are) and less than a checkpoint more when it applies buckets.
CatchupIsSound(lcl, count, toLedger) ==
    LET r == calculateCatchupRange(lcl, count, toLedger)
    IN  /\ checkInvariants(r)
        /\ lastOfCatchup(r) = toLedger
        /\ ~r.mApplyBuckets => r.replay.mFirst = lcl + 1
        /\ r.mApplyBuckets => r.at > lcl /\ isLastLedgerInCheckpoint(r.at)
        /\ r.replay.mCount >= count \/ r.replay.mCount = toLedger - lcl
        /\ r.mApplyBuckets => r.replay.mCount < count + Frequency

\* The checkpoints downloaded for a range are its first ledger's, its last
\* ledger's and all between them, and the assertions hold.
DownloadIsSound(range) ==
    LET cr == CheckpointRange(range)
    IN  /\ checkCheckpointRange(cr)
        /\ cr.mFirst = checkpointContainingLedger(range.mFirst)
        /\ lastCheckpoint(cr) = checkpointContainingLedger(LastOf(range))
        /\ \A ledger \in range.mFirst..LastOf(range) :
              \E k \in 0..(cr.mCount - 1) :
                  checkpointContainingLedger(ledger) = cr.mFirst + k * Frequency
===============================================================================
