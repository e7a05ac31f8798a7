-------------------------- MODULE CatchupRangeProofs --------------------------
(***************************************************************************)
(* Catchup ranges are sound for every last closed ledger, count and target *)
(* of 32 bits, with the two checkpoint frequencies of the program.         *)
(***************************************************************************)
EXTENDS CatchupRange, TLAPS

\* 64 ledgers, or 8 with ARTIFICIALLY_ACCELERATE_TIME_FOR_TESTING.
\* Of the width of uint32_t only that 64 divides its range is needed.
Widths ==
    /\ Frequency \in {8, 64}
    /\ UINT32_MAX \in Nat /\ UINT32_MAX >= 127 /\ (UINT32_MAX + 1) % 64 = 0

LEMMA WrapSmall == ASSUME Widths, NEW n \in Uint32 PROVE Wrap(n) = n
BY DEF Widths, Uint32, Wrap

\* The checkpoint of a ledger, without the wrap-around.
LEMMA CheckpointBounds ==
    ASSUME Widths, NEW ledger \in Uint32
    PROVE  LET last == checkpointContainingLedger(ledger)
           IN  /\ last \in Uint32
               /\ last = ((ledger \div Frequency) + 1) * Frequency - 1
               /\ ledger <= last /\ last < ledger + Frequency
               /\ Frequency - 1 <= last
               /\ (last + 1) % Frequency = 0
<1>1. CASE Frequency = 8
  BY <1>1 DEF Widths, Uint32, Wrap, checkpointContainingLedger
<1>2. CASE Frequency = 64
  BY <1>2 DEF Widths, Uint32, Wrap, checkpointContainingLedger
<1> QED
  BY <1>1, <1>2 DEF Widths

LEMMA FirstBounds ==
    ASSUME Widths, NEW ledger \in Uint32 \ {0}
    PROVE  LET first == firstLedgerInCheckpointContaining(ledger)
               before == lastLedgerBeforeCheckpointContaining(ledger)
           IN  /\ first \in Uint32 /\ first >= 1
               /\ first <= ledger /\ ledger < first + Frequency
               /\ before = first - 1
               /\ first # 1 => first >= Frequency /\ isLastLedgerInCheckpoint(before)
<1>1. CASE Frequency = 8
  BY <1>1
     DEF Widths, Uint32, Wrap, checkpointContainingLedger, sizeOfCheckpointContaining,
         firstLedgerInCheckpointContaining, lastLedgerBeforeCheckpointContaining,
         isLastLedgerInCheckpoint
<1>2. CASE Frequency = 64
  BY <1>2
     DEF Widths, Uint32, Wrap, checkpointContainingLedger, sizeOfCheckpointContaining,
         firstLedgerInCheckpointContaining, lastLedgerBeforeCheckpointContaining,
         isLastLedgerInCheckpoint
<1> QED
  BY <1>1, <1>2 DEF Widths

\* Every ledger but 0 lies in the checkpoint that the functions of
\* HistoryManager compute for it, up to the last 32-bit ledger number.
THEOREM LedgerInCheckpoint ==
    ASSUME Widths, NEW ledger \in Uint32 \ {0}
    PROVE  CheckpointOf(ledger)
<1>1. CASE Frequency = 8
  BY <1>1 DEF Widths, Uint32, Wrap, CheckpointOf, checkpointContainingLedger, sizeOfCheckpointContaining,
     firstLedgerInCheckpointContaining, lastLedgerBeforeCheckpointContaining, isLastLedgerInCheckpoint,
     GENESIS_LEDGER_SEQ
<1>2. CASE Frequency = 64
  BY <1>2 DEF Widths, Uint32, Wrap, CheckpointOf, checkpointContainingLedger, sizeOfCheckpointContaining,
     firstLedgerInCheckpointContaining, lastLedgerBeforeCheckpointContaining, isLastLedgerInCheckpoint,
     GENESIS_LEDGER_SEQ
<1> QED
  BY <1>1, <1>2 DEF Widths

\* The five cases of calculateCatchupRange, of which 1, 2 and 4 are alike.
IsReplay(r, lcl, toLedger) == r = ReplayOnly(LedgerRange(lcl + 1, toLedger - lcl))
IsBuckets(r, count, toLedger) ==
    r = BucketsOnly(toLedger) /\ count = 0 /\ isLastLedgerInCheckpoint(toLedger)
IsBoth(r, at, lcl, count, toLedger) ==
    /\ r = BucketsAndReplay(at, LedgerRange(at + 1, toLedger - at))
    /\ lcl < at /\ at < toLedger /\ isLastLedgerInCheckpoint(at)
    /\ count <= toLedger - at /\ toLedger - at < count + Frequency

LEMMA CatchupCases ==
    ASSUME Widths, NEW lcl \in Uint32, NEW count \in Uint32, NEW toLedger \in Uint32,
           Preconditions(lcl, toLedger)
    PROVE  LET r == calculateCatchupRange(lcl, count, toLedger)
           IN  \/ IsReplay(r, lcl, toLedger)
               \/ IsBuckets(r, count, toLedger)
               \/ \E at \in Uint32 : IsBoth(r, at, lcl, count, toLedger)
<1> DEFINE r == calculateCatchupRange(lcl, count, toLedger)
           full == LedgerRange(Wrap(lcl + 1), Wrap(toLedger - lcl))
           start == Wrap(toLedger - count + 1)
           first == firstLedgerInCheckpointContaining(start)
           at == lastLedgerBeforeCheckpointContaining(start)
           replays == lcl > GENESIS_LEDGER_SEQ \/ count >= Wrap(toLedger - lcl)
<1>1. full = LedgerRange(lcl + 1, toLedger - lcl) /\ toLedger - lcl \in Uint32
  BY WrapSmall DEF Preconditions, GENESIS_LEDGER_SEQ, Uint32, Widths
<1>2. CASE \/ replays
           \/ first = GENESIS_LEDGER_SEQ /\ ~(count = 0 /\ isLastLedgerInCheckpoint(toLedger))
  BY <1>1, <1>2 DEF calculateCatchupRange, IsReplay
<1>3. CASE ~replays /\ count = 0 /\ isLastLedgerInCheckpoint(toLedger)
  BY <1>3 DEF calculateCatchupRange, IsBuckets
<1>4. CASE /\ ~replays /\ ~(count = 0 /\ isLastLedgerInCheckpoint(toLedger))
           /\ first # GENESIS_LEDGER_SEQ
  <2>1. lcl = 1 /\ count < toLedger - 1
    BY <1>1, <1>4, WrapSmall DEF Preconditions, GENESIS_LEDGER_SEQ, Uint32, Widths
  <2>2. start = toLedger - count + 1 /\ start \in Uint32 \ {0}
    <3>1. CASE count = 0
      <4>1. /\ toLedger < checkpointContainingLedger(toLedger)
            /\ checkpointContainingLedger(toLedger) \in Uint32
        BY <1>4, <3>1, CheckpointBounds DEF isLastLedgerInCheckpoint, Uint32, Widths
      <4> QED
        BY <2>1, <3>1, <4>1, WrapSmall DEF Uint32, Widths
    <3>2. CASE count > 0
      BY <2>1, <3>2, WrapSmall DEF Uint32, Widths
    <3> QED
      BY <3>1, <3>2 DEF Uint32, Widths
  <2>3. /\ at = first - 1 /\ first <= start /\ start < first + Frequency
        /\ first \in Uint32 /\ first >= Frequency /\ isLastLedgerInCheckpoint(at)
    BY <1>4, <2>2, FirstBounds DEF GENESIS_LEDGER_SEQ
  <2>4. r = BucketsAndReplay(at, LedgerRange(first, Wrap(toLedger - at)))
    BY <1>4 DEF calculateCatchupRange
  <2> HIDE DEF at, first, start, r
  <2>5. at # toLedger
    <3>1. CASE count = 0
      BY <1>4, <2>3, <3>1
    <3>2. CASE count > 0
      BY <2>2, <2>3, <3>2 DEF Uint32, Widths
    <3> QED
      BY <3>1, <3>2 DEF Uint32, Widths
  <2>6. at \in Uint32 /\ toLedger - at \in Uint32 /\ lcl < at /\ at < toLedger
    BY <2>1, <2>2, <2>3, <2>5 DEF Uint32, Widths
  <2>7. count <= toLedger - at /\ toLedger - at < count + Frequency
    BY <2>2, <2>3, <2>6 DEF Uint32, Widths
  <2>8. first = at + 1 /\ Wrap(toLedger - at) = toLedger - at
    BY <2>3, <2>6, WrapSmall DEF Uint32, Widths
  <2>9. IsBoth(r, at, lcl, count, toLedger)
    BY <2>3, <2>4, <2>6, <2>7, <2>8 DEF IsBoth
  <2> QED
    BY <2>6, <2>9 DEF r
<1> HIDE DEF replays, first
<1>5. \/ replays
      \/ first = GENESIS_LEDGER_SEQ /\ ~(count = 0 /\ isLastLedgerInCheckpoint(toLedger))
      \/ ~replays /\ count = 0 /\ isLastLedgerInCheckpoint(toLedger)
      \/ /\ ~replays /\ ~(count = 0 /\ isLastLedgerInCheckpoint(toLedger))
         /\ first # GENESIS_LEDGER_SEQ
  BY Zenon
<1> QED
  BY Zenon, <1>2, <1>3, <1>4, <1>5, Zenon

\* Catchup never asserts, leaves no gap, reaches its target and replays what was
\* asked for: calculateCatchupRange in each of its five cases.
THEOREM CatchupSound ==
    ASSUME Widths, NEW lcl \in Uint32, NEW count \in Uint32, NEW toLedger \in Uint32,
           Preconditions(lcl, toLedger)
    PROVE  CatchupIsSound(lcl, count, toLedger)
<1> DEFINE r == calculateCatchupRange(lcl, count, toLedger)
<1>0. lcl >= 1 /\ lcl < toLedger
  BY DEF Preconditions, GENESIS_LEDGER_SEQ, Uint32, Widths
<1>1. \/ IsReplay(r, lcl, toLedger) \/ IsBuckets(r, count, toLedger)
      \/ \E at \in Uint32 : IsBoth(r, at, lcl, count, toLedger)
  BY CatchupCases
<1> SUFFICES /\ checkInvariants(r)
             /\ lastOfCatchup(r) = toLedger
             /\ ~r.mApplyBuckets => r.replay.mFirst = lcl + 1
             /\ r.mApplyBuckets => r.at > lcl /\ isLastLedgerInCheckpoint(r.at)
             /\ r.replay.mCount >= count \/ r.replay.mCount = toLedger - lcl
             /\ r.mApplyBuckets => r.replay.mCount < count + Frequency
  BY DEF CatchupIsSound
<1> HIDE DEF r
<1>2. CASE IsReplay(r, lcl, toLedger)
  <2>1. /\ r.mApplyBuckets = FALSE /\ r.at = 0
        /\ r.replay.mFirst = lcl + 1 /\ r.replay.mCount = toLedger - lcl
    BY <1>2 DEF IsReplay, ReplayOnly, LedgerRange
  <2>2. LastOf(r.replay) = toLedger
    BY <2>1, WrapSmall DEF LastOf, Uint32, Widths
  <2> QED
    BY <1>0, <2>1, <2>2 DEF checkInvariants, lastOfCatchup, Uint32, Widths
<1>3. CASE IsBuckets(r, count, toLedger)
  <2>1. r.mApplyBuckets = TRUE /\ r.at = toLedger /\ r.replay.mFirst = 0 /\ r.replay.mCount = 0
    BY <1>3 DEF IsBuckets, BucketsOnly, LedgerRange
  <2> QED
    BY <1>0, <1>3, <2>1 DEF IsBuckets, checkInvariants, lastOfCatchup, Uint32, Widths
<1>4. ASSUME NEW at \in Uint32, IsBoth(r, at, lcl, count, toLedger)
      PROVE  /\ checkInvariants(r)
             /\ lastOfCatchup(r) = toLedger
             /\ r.mApplyBuckets /\ r.at > lcl /\ isLastLedgerInCheckpoint(r.at)
             /\ r.replay.mCount >= count
             /\ r.replay.mCount < count + Frequency
  <2>1. /\ r.mApplyBuckets = TRUE /\ r.at = at
        /\ r.replay.mFirst = at + 1 /\ r.replay.mCount = toLedger - at
    BY <1>4 DEF IsBoth, BucketsAndReplay, LedgerRange
  <2>2. LastOf(r.replay) = toLedger
    BY <1>4, <2>1, WrapSmall DEF LastOf, Uint32, Widths
  <2>3. Wrap(at + 1) = at + 1
    BY <1>4, WrapSmall DEF IsBoth, Uint32, Widths
  <2> QED
    BY <1>0, <1>4, <2>1, <2>2, <2>3 DEF IsBoth, checkInvariants, lastOfCatchup, Uint32, Widths
<1> QED
  BY <1>1, <1>2, <1>3, <1>4

\* Checkpoints are multiples of the frequency apart.
LEMMA CheckpointDistance ==
    ASSUME Widths, NEW x \in Uint32, NEW y \in Uint32, x <= y
    PROVE  LET k == (checkpointContainingLedger(y) - checkpointContainingLedger(x)) \div Frequency
           IN  /\ k \in Nat /\ k < UINT32_MAX
               /\ checkpointContainingLedger(y) = checkpointContainingLedger(x) + k * Frequency
<1> DEFINE u == x \div Frequency
           v == y \div Frequency
<1>1. /\ checkpointContainingLedger(x) = (u + 1) * Frequency - 1
      /\ checkpointContainingLedger(y) = (v + 1) * Frequency - 1
  BY CheckpointBounds
<1>2. u \in Nat /\ v \in Nat /\ u <= v /\ v - u < UINT32_MAX
  <2>1. CASE Frequency = 8
    BY <2>1 DEF Uint32, Widths
  <2>2. CASE Frequency = 64
    BY <2>2 DEF Uint32, Widths
  <2> QED
    BY <2>1, <2>2 DEF Widths
<1> HIDE DEF u, v
<1>3. CASE Frequency = 8
  BY <1>1, <1>2, <1>3
<1>4. CASE Frequency = 64
  BY <1>1, <1>2, <1>4
<1> QED
  BY <1>3, <1>4 DEF Widths

\* Of a range the checkpoints are downloaded that hold its ledgers, the first to
\* the last without a gap; below the end of the 32-bit numbers, where limit()
\* would wrap, no assertion of CheckpointRange fails.
THEOREM DownloadSound ==
    ASSUME Widths, NEW range \in [mFirst : Uint32 \ {0}, mCount : Uint32 \ {0}],
           range.mFirst + range.mCount - 1 <= UINT32_MAX - 2 * Frequency
    PROVE  DownloadIsSound(range)
<1> DEFINE lo == range.mFirst
           hi == range.mFirst + range.mCount - 1
           cr == CheckpointRange(range)
           low == checkpointContainingLedger(lo)
           high == checkpointContainingLedger(hi)
           n == 1 + (high - low) \div Frequency
<1>1. lo \in Uint32 /\ hi \in Uint32 /\ lo <= hi /\ hi + 2 * Frequency <= UINT32_MAX
  BY DEF Uint32, Widths
<1>2. LastOf(range) = hi
  BY <1>1, WrapSmall DEF LastOf
<1> HIDE DEF hi
<1>3. /\ low \in Uint32 /\ low > 0 /\ (low + 1) % Frequency = 0
      /\ high \in Uint32 /\ high < hi + Frequency /\ (high + 1) % Frequency = 0
  <2>1. low \in Uint32 /\ Frequency - 1 <= low /\ (low + 1) % Frequency = 0
    BY <1>1, CheckpointBounds
  <2>2. high \in Uint32 /\ high < hi + Frequency /\ (high + 1) % Frequency = 0
    BY <1>1, CheckpointBounds
  <2>3. low > 0
    BY <2>1 DEF Uint32, Widths
  <2> QED
    BY <2>1, <2>2, <2>3
<1>4. n \in Uint32 /\ n >= 1 /\ high = low + (n - 1) * Frequency
  <2> DEFINE d == (high - low) \div Frequency
  <2>1. d \in Nat /\ d < UINT32_MAX /\ high = low + d * Frequency
    BY <1>1, CheckpointDistance
  <2> HIDE DEF d
  <2>2. n = 1 + d
    BY DEF d
  <2> QED
    BY <2>1, <2>2 DEF Uint32, Widths
<1>5. low <= high
  BY <1>3, <1>4 DEF Uint32, Widths
<1>6. cr.mFirst = low /\ cr.mCount = n
  <2>1. Wrap(high - low) = high - low
    BY <1>3, <1>5, WrapSmall DEF Uint32, Widths
  <2>2. Wrap(n) = n
    BY <1>4, WrapSmall
  <2> QED
    BY <1>2, <2>1, <2>2 DEF CheckpointRange
<1> HIDE DEF cr, low, high, n, lo
<1>7. lastCheckpoint(cr) = high /\ limit(cr) = high + Frequency
  <2>1. low + n * Frequency = high + Frequency
    BY <1>3, <1>4 DEF Uint32, Widths
  <2>2. high + Frequency \in Uint32
    BY <1>1, <1>3 DEF Uint32, Widths
  <2> QED
    BY Zenon, <1>3, <1>4, <1>6, <2>1, <2>2, WrapSmall DEF lastCheckpoint, limit
<1>8. checkCheckpointRange(cr)
  <2>1. (high + Frequency + 1) % Frequency = 0
    BY <1>3 DEF Uint32, Widths
  <2> QED
    BY <1>3, <1>5, <1>6, <1>7, <2>1 DEF checkCheckpointRange, Widths, Uint32
<1>9. ASSUME NEW ledger \in lo..hi
      PROVE  \E k \in 0..(n - 1) : checkpointContainingLedger(ledger) = low + k * Frequency
  <2> DEFINE mid == checkpointContainingLedger(ledger)
             k == (mid - low) \div Frequency
             m == (high - mid) \div Frequency
  <2>0. ledger \in Uint32 /\ lo <= ledger /\ ledger <= hi
    BY <1>1 DEF Uint32, Widths
  <2>1. k \in Nat /\ mid = low + k * Frequency
    BY <1>1, <2>0, CheckpointDistance DEF low
  <2>2. m \in Nat /\ high = mid + m * Frequency
    BY <1>1, <2>0, CheckpointDistance DEF high
  <2> HIDE DEF mid, k, m
  <2>3. k <= n - 1
    <3>1. CASE Frequency = 8
      BY <1>3, <1>4, <2>1, <2>2, <3>1 DEF Uint32, Widths
    <3>2. CASE Frequency = 64
      BY <1>3, <1>4, <2>1, <2>2, <3>2 DEF Uint32, Widths
    <3> QED
      BY <3>1, <3>2 DEF Widths
  <2> QED
    BY <1>4, <2>1, <2>3 DEF mid, Uint32, Widths
<1> QED
  BY <1>2, <1>6, <1>7, <1>8, <1>9 DEF DownloadIsSound, lo, low, high, cr

\* A catchup downloads all the ledgers it verifies, the one whose buckets it
\* applies included (CatchupWork::downloadVerifyLedgerChain).
THEOREM CatchupDownloads ==
    ASSUME Widths, NEW lcl \in Uint32, NEW count \in Uint32, NEW toLedger \in Uint32,
           Preconditions(lcl, toLedger), toLedger <= UINT32_MAX - 2 * Frequency
    PROVE  DownloadIsSound(getFullRangeIncludingBucketApply(
                               calculateCatchupRange(lcl, count, toLedger)))
<1> DEFINE r == calculateCatchupRange(lcl, count, toLedger)
           range == getFullRangeIncludingBucketApply(r)
<1>0. lcl >= 1 /\ lcl < toLedger
  BY DEF Preconditions, GENESIS_LEDGER_SEQ, Uint32, Widths
<1>1. \/ IsReplay(r, lcl, toLedger) \/ IsBuckets(r, count, toLedger)
      \/ \E at \in Uint32 : IsBoth(r, at, lcl, count, toLedger)
  BY CatchupCases
<1> HIDE DEF r
<1>2. ASSUME NEW f \in Uint32 \ {0}, f <= toLedger, range = LedgerRange(f, toLedger - f + 1)
      PROVE  DownloadIsSound(range)
  <2>1. range \in [mFirst : Uint32 \ {0}, mCount : Uint32 \ {0}]
    BY <1>2 DEF LedgerRange, Uint32, Widths
  <2>2. range.mFirst + range.mCount - 1 = toLedger
    BY <1>2 DEF LedgerRange, Uint32, Widths
  <2> HIDE DEF range
  <2> QED
    BY <2>1, <2>2, DownloadSound
<1>3. CASE IsReplay(r, lcl, toLedger)
  <2>1. range = LedgerRange(lcl + 1, toLedger - lcl)
    BY <1>3 DEF IsReplay, ReplayOnly, getFullRangeIncludingBucketApply
  <2>2. toLedger - lcl = toLedger - (lcl + 1) + 1 /\ lcl + 1 \in Uint32 \ {0} /\ lcl + 1 <= toLedger
    BY <1>0 DEF Uint32, Widths
  <2> HIDE DEF range
  <2> QED
    BY <1>2, <2>1, <2>2 DEF range, r
<1>4. CASE IsBuckets(r, count, toLedger)
  <2>1. range = LedgerRange(toLedger, toLedger - toLedger + 1)
    <3>1. range = LedgerRange(toLedger, Wrap(0 + 1))
      BY <1>4 DEF IsBuckets, BucketsOnly, LedgerRange, getFullRangeIncludingBucketApply
    <3>2. Wrap(0 + 1) = toLedger - toLedger + 1
      BY WrapSmall DEF Uint32, Widths
    <3> QED
      BY <3>1, <3>2
  <2>2. toLedger \in Uint32 \ {0} /\ toLedger <= toLedger
    BY <1>0 DEF Uint32, Widths
  <2> HIDE DEF range
  <2> QED
    BY <1>2, <2>1, <2>2 DEF range, r
<1>5. ASSUME NEW at \in Uint32, IsBoth(r, at, lcl, count, toLedger)
      PROVE  DownloadIsSound(range)
  <2>1. range = LedgerRange(at, Wrap(toLedger - at + 1))
    BY <1>5 DEF IsBoth, BucketsAndReplay, LedgerRange, getFullRangeIncludingBucketApply
  <2>2. Wrap(toLedger - at + 1) = toLedger - at + 1 /\ at \in Uint32 \ {0} /\ at <= toLedger
    BY <1>0, <1>5, WrapSmall DEF IsBoth, Uint32, Widths
  <2> HIDE DEF range
  <2> QED
    BY <1>2, <2>1, <2>2 DEF range
<1> QED
  BY <1>1, <1>3, <1>4, <1>5 DEF r
===============================================================================
