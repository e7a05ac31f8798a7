------------------------------ MODULE FlowControl ------------------------------
(***************************************************************************)
(* Flow control of flooded messages between the two ends of a connection   *)
(* (overlay/FlowControl.cpp, FlowControlCapacity.cpp and the calls of      *)
(* Peer.cpp and TCPPeer.cpp).  Each end holds credit for what it may send, *)
(* which the other end replenishes with SEND_MORE as it processes, and     *)
(* stops reading when it has too much to process.                          *)
(*                                                                         *)
(* A process has a main thread (Main below) and an overlay thread          *)
(* (Overlay), whose steps interleave where no mutex forbids it.  The write *)
(* queue, the socket and the network are one queue, chan.                  *)
(***************************************************************************)
EXTENDS Integers, Sequences, SequencesExt

CONSTANTS
    a, b,                                \* the two ends
    Scenario,                            \* what the two may have to send, see setting
    PEER_READING_CAPACITY,
    PEER_FLOOD_READING_CAPACITY,
    FLOW_CONTROL_SEND_MORE_BATCH_SIZE,
    INITIAL_PEER_FLOOD_READING_CAPACITY_BYTES,
    INITIAL_FLOW_CONTROL_SEND_MORE_BATCH_SIZE_BYTES,
    OUTBOUND_TX_QUEUE_BYTE_LIMIT,
    QueueLimit,                          \* getLastMaxTxSetSizeOps
    checkpointSeq,
    UpgradesEarly                        \* may p upgrade before it is authenticated?

Peer == {a, b}
Other(p) == IF p = a THEN b ELSE a

FloodKinds == {"SCP", "TX", "DEMAND", "ADVERT"}

\* Messages are records with fields id, kind, size, hashes and slot; the ones
\* not flooded have kind "FETCH" or are AUTH or SEND_MORE_EXTENDED messages.
SendMore(msgs, bytes) ==
    [id |-> 0, kind |-> "SEND_MORE", size |-> 1, hashes |-> 0, slot |-> 0,
     numMessages |-> msgs, numBytes |-> bytes]

Auth == [id |-> 0, kind |-> "AUTH", size |-> 1, hashes |-> 0, slot |-> 0]

isFloodMessage(m) == m.kind \in FloodKinds

ASSUME CapacityAssumption ==
    /\ FLOW_CONTROL_SEND_MORE_BATCH_SIZE \in 1..PEER_FLOOD_READING_CAPACITY
    /\ PEER_FLOOD_READING_CAPACITY \in Nat
    /\ PEER_READING_CAPACITY \in Nat
    /\ PEER_READING_CAPACITY > PEER_FLOOD_READING_CAPACITY
    /\ INITIAL_PEER_FLOOD_READING_CAPACITY_BYTES \in Nat
    /\ INITIAL_FLOW_CONTROL_SEND_MORE_BATCH_SIZE_BYTES \in
           1..INITIAL_PEER_FLOOD_READING_CAPACITY_BYTES

VARIABLES
    setting,        \* outbox[p]: what p sends; maxTxSize: the rising values of
                    \* mMaxTxSize; maxSlot[p]: the last slot p forgets
    unsent,         \* messages p has yet to send
    authenticated,  \* has p handled the other's AUTH message?
    upgrades,       \* ledger upgrades p has applied: its index into MaxTxSize
    minSlot,        \* herder's getMinLedgerSeqToRemember
    queues,         \* mOutboundQueues; entries are [msg, sent], sent for mBeingSent
    counts,         \* mTxQueueByteCount, mDemandQueueTxHashCount, mAdvert...
    outbound,       \* mOutboundCapacity of the two capacities
    noCapacity,     \* is mNoOutboundCapacity set?
    batchPosted,    \* is a getNextBatchToSend posted to the overlay thread?
    writing,        \* flooded messages whose async_write has not completed
    local,          \* mCapacity of the two capacities and the byte limit
    processed,      \* mFloodDataProcessed(Bytes), mTotalMsgsProcessed
    reader,         \* what the reading of p waits for or does
    chan,           \* messages on their way to p
    inbox,          \* messages p has read and not processed
    threw           \* has an assertion of p failed, or p dropped the other?

sendVars == <<queues, counts, outbound, noCapacity, batchPosted>>
recvVars == <<local, processed, reader, inbox>>
vars == <<setting, unsent, authenticated, upgrades, minSlot, sendVars, writing, recvVars, chan, threw>>

getMaxTxSize(p) == setting.maxTxSize[upgrades[p]]

\* getFlowControlBytesTotal, with the default configuration.
FlowControlBytesTotal(maxTxSize) ==
    IF INITIAL_PEER_FLOOD_READING_CAPACITY_BYTES
         - INITIAL_FLOW_CONTROL_SEND_MORE_BATCH_SIZE_BYTES >= maxTxSize
    THEN INITIAL_PEER_FLOOD_READING_CAPACITY_BYTES
    ELSE maxTxSize + INITIAL_FLOW_CONTROL_SEND_MORE_BATCH_SIZE_BYTES

\* HELLO was processed, AUTH was read.
Init ==
    /\ setting \in Scenario
    /\ unsent = setting.outbox
    /\ authenticated = [p \in Peer |-> FALSE]
    /\ upgrades = [p \in Peer |-> 1]
    /\ minSlot = [p \in Peer |-> 1]
    /\ queues = [p \in Peer |-> [k \in FloodKinds |-> <<>>]]
    /\ counts = [p \in Peer |-> [k \in FloodKinds |-> 0]]
    /\ outbound = [p \in Peer |-> [msgs |-> 0, bytes |-> 0]]
    /\ noCapacity = [p \in Peer |-> TRUE]
    /\ batchPosted = [p \in Peer |-> FALSE]
    /\ writing = [p \in Peer |-> <<>>]
    /\ local = [p \in Peer |-> [total |-> PEER_READING_CAPACITY - 1,
                                msgs |-> PEER_FLOOD_READING_CAPACITY,
                                bytes |-> FlowControlBytesTotal(setting.maxTxSize[1]),
                                limit |-> FlowControlBytesTotal(setting.maxTxSize[1])]]
    /\ processed = [p \in Peer |-> [msgs |-> 0, bytes |-> 0,
                                    total |-> 1 % PEER_READING_CAPACITY]]
    /\ reader = [p \in Peer |-> "header"]
    /\ chan = [p \in Peer |-> <<>>]
    /\ inbox = [p \in Peer |-> <<>>]
    /\ threw = [p \in Peer |-> FALSE]
-----------------------------------------------------------------------------
(* The sending side.                                                       *)

\* sendAuthenticatedMessage of messages that flow control lets through.
Send(p, msgs) ==
    /\ chan' = [chan EXCEPT ![Other(p)] = @ \o msgs]
    /\ writing' = [writing EXCEPT ![p] = @ \o SelectSeq(msgs, isFloodMessage)]

Cost(m) == CASE m.kind = "TX" -> m.size
             [] m.kind = "SCP" -> 0
             [] OTHER -> m.hashes

\* The queue is over its limit and dropped as a whole.
IsOverLimit(kind, queue, count) ==
    CASE kind = "TX" -> Len(queue) > QueueLimit \/ count > OUTBOUND_TX_QUEUE_BYTE_LIMIT
      [] kind = "SCP" -> FALSE
      [] OTHER -> count > QueueLimit

\* isNewerNominationOrBallotSt(old, new)
IsNewer(old, new) == old.slot = new.slot /\ old.id < new.id

IsForgotten(p, m) == m.slot < minSlot[p] /\ m.slot # checkpointSeq

\* The SCP queue without the statements of forgotten slots, its last statement
\* in the place of the first older one; what is being sent stays.
TrimScp(p, queue) ==
    LET last == queue[Len(queue)]
        older == {i \in 1..(Len(queue) - 1) :
                    /\ ~queue[i].sent /\ ~IsForgotten(p, queue[i].msg)
                    /\ IsNewer(queue[i].msg, last.msg)}
        first == CHOOSE i \in older : \A j \in older : i <= j
        Kept(e) == e.sent \/ ~IsForgotten(p, e.msg)
    IN  IF older = {} THEN SelectSeq(queue, Kept)
        ELSE SelectSeq(SubSeq([queue EXCEPT ![first] = last], 1, Len(queue) - 1), Kept)

\* addMsgAndMaybeTrimQueue, with the batch sendMessage posts.
AddMsgAndMaybeTrimQueue(p, m) ==
    LET queue == Append(queues[p][m.kind], [msg |-> m, sent |-> FALSE])
        count == counts[p][m.kind] + Cost(m)
        dropped == IsOverLimit(m.kind, queue, count)
    IN  IF m.kind = "TX" /\ m.size > getMaxTxSize(p)
        THEN UNCHANGED <<queues, counts>>
        ELSE /\ queues' = [queues EXCEPT ![p][m.kind] =
                             IF dropped THEN <<>>
                             ELSE IF m.kind = "SCP" THEN TrimScp(p, queue) ELSE queue]
             /\ counts' = [counts EXCEPT ![p][m.kind] = IF dropped THEN 0 ELSE count]

\* Main: Peer::sendMessage
SendMessage(p, m) ==
    /\ m \in unsent[p] /\ authenticated[p]
    /\ unsent' = [unsent EXCEPT ![p] = @ \ {m}]
    /\ IF isFloodMessage(m)
       THEN /\ AddMsgAndMaybeTrimQueue(p, m)
            /\ batchPosted' = [batchPosted EXCEPT ![p] = TRUE]
            /\ UNCHANGED <<chan, writing>>
       ELSE /\ Send(p, <<m>>)
            /\ UNCHANGED <<queues, counts, batchPosted>>
    /\ UNCHANGED <<setting, authenticated, upgrades, minSlot, outbound, noCapacity, recvVars,
                   threw>>

hasOutboundCapacity(credit, m) == credit.msgs >= 1 /\ credit.bytes >= m.size

Lock(credit, m) == [msgs |-> credit.msgs - 1, bytes |-> credit.bytes - m.size]

\* The queues in the order of priority.
InPriority(qs) == qs["SCP"] \o qs["TX"] \o qs["DEMAND"] \o qs["ADVERT"]

\* One entry of getNextBatchToSend's loops: the first message of a queue there
\* is no capacity for ends that queue, also when it is already being sent.
TakeEntry(acc, e) ==
    IF e.msg.kind \in acc.blocked THEN acc
    ELSE IF ~hasOutboundCapacity(acc.credit, e.msg)
         THEN [acc EXCEPT !.blocked = @ \cup {e.msg.kind}]
    ELSE IF e.sent THEN acc
    ELSE [acc EXCEPT !.credit = Lock(@, e.msg), !.batch = Append(@, e.msg)]

\* Overlay: getNextBatchToSend
GetNextBatchToSend(p) ==
    LET res == FoldLeft(TakeEntry,
                        [credit |-> outbound[p], blocked |-> {}, batch |-> <<>>],
                        InPriority(queues[p]))
        taken == ToSet(res.batch)
        Mark(e) == [e EXCEPT !.sent = @ \/ e.msg \in taken]
    IN  /\ batchPosted[p]
        /\ batchPosted' = [batchPosted EXCEPT ![p] = FALSE]
        /\ queues' = [queues EXCEPT ![p] = [k \in FloodKinds |->
                        [i \in DOMAIN @[k] |-> Mark(@[k][i])]]]
        /\ outbound' = [outbound EXCEPT ![p] = res.credit]
        /\ noCapacity' = [noCapacity EXCEPT ![p] = @ \/ res.blocked # {}]
        /\ Send(p, res.batch)
        /\ UNCHANGED <<setting, unsent, authenticated, upgrades, minSlot, counts, recvVars, threw>>

\* One message of processSentMessages: it leaves its queue if it is at the front.
PopSent(acc, m) ==
    LET queue == acc.queues[m.kind]
    IN  IF queue = <<>> \/ queue[1].msg # m THEN acc
        ELSE [queues |-> [acc.queues EXCEPT ![m.kind] = Tail(@)],
              counts |-> [acc.counts EXCEPT ![m.kind] = @ - Cost(m)],
              ok |-> acc.ok /\ acc.counts[m.kind] >= Cost(m)]

\* Overlay: the handler of async_write, with processSentMessages, for the n
\* messages messageSender had put into one write.
WriteCompletes(p, n) ==
    LET res == FoldLeft(PopSent, [queues |-> queues[p], counts |-> counts[p], ok |-> TRUE],
                        SubSeq(writing[p], 1, n))
    IN  /\ n \in 1..Len(writing[p])
        /\ writing' = [writing EXCEPT ![p] = SubSeq(@, n + 1, Len(@))]
        /\ queues' = [queues EXCEPT ![p] = res.queues]
        /\ counts' = [counts EXCEPT ![p] = res.counts]
        /\ threw' = [threw EXCEPT ![p] = @ \/ ~res.ok]
        /\ UNCHANGED <<setting, unsent, authenticated, upgrades, minSlot, outbound, noCapacity,
                       batchPosted, recvVars, chan>>
-----------------------------------------------------------------------------
(* The receiving side.                                                     *)

canRead(l) == l.total > 0

\* lockLocalCapacity of messages and of bytes succeeds.
CanLock(l, m) == canRead(l) /\ (isFloodMessage(m) => l.msgs >= 1 /\ l.bytes >= m.size)

LockLocal(l, m) ==
    IF isFloodMessage(m)
    THEN [l EXCEPT !.total = @ - 1, !.msgs = @ - 1, !.bytes = @ - m.size]
    ELSE [l EXCEPT !.total = @ - 1]

ReleaseLocal(l, m) ==
    IF isFloodMessage(m)
    THEN [l EXCEPT !.total = @ + 1, !.msgs = @ + 1, !.bytes = @ + m.size]
    ELSE [l EXCEPT !.total = @ + 1]

checkCapacityInvariants(l) ==
    /\ l.total <= PEER_READING_CAPACITY
    /\ l.msgs <= PEER_FLOOD_READING_CAPACITY
    /\ l.bytes <= l.limit

EndsBatchOfMessages(msgs, bytes) == msgs = FLOW_CONTROL_SEND_MORE_BATCH_SIZE

\* Enough is processed to tell the sender with a SEND_MORE.
EndsBatch(msgs, bytes) ==
    \/ msgs = FLOW_CONTROL_SEND_MORE_BATCH_SIZE
    \/ bytes >= INITIAL_FLOW_CONTROL_SEND_MORE_BATCH_SIZE_BYTES

\* endMessageProcessing: the new capacity and counters, the SEND_MORE to send,
\* and whether a full batch of reads is processed.
EndMessageProcessing(l, r, m) ==
    LET l1 == ReleaseLocal(l, m)
        msgs == r.msgs + (IF isFloodMessage(m) THEN 1 ELSE 0)
        bytes == r.bytes + (IF isFloodMessage(m) THEN m.size ELSE 0)
        more == EndsBatch(msgs, bytes)
        full == r.total + 1 = PEER_READING_CAPACITY
    IN  [local |-> l1,
         processed |-> [msgs |-> IF more THEN 0 ELSE msgs,
                        bytes |-> IF more THEN 0 ELSE bytes,
                        total |-> IF full THEN 0 ELSE r.total + 1],
         sendMore |-> IF more THEN <<SendMore(msgs, bytes)>> ELSE <<>>,
         full |-> full,
         ok |-> checkCapacityInvariants(l1) /\ msgs <= FLOW_CONTROL_SEND_MORE_BATCH_SIZE]

\* recvMessage and recvAuthenticatedMessage: m is posted to the main thread
\* unless an equal message from another peer is (checkScheduledAndCache).
RecvAuthenticatedMessage(acc, m, scheduled) ==
    LET locked == LockLocal(acc.local, m)
        res == EndMessageProcessing(locked, acc.processed, m)
        ok == acc.ok /\ CanLock(acc.local, m)
    IN  IF scheduled
        THEN [local |-> res.local, processed |-> res.processed, inbox |-> acc.inbox,
              sendMore |-> acc.sendMore \o res.sendMore, ok |-> ok /\ res.ok]
        ELSE [acc EXCEPT !.local = locked, !.inbox = Append(@, m), !.ok = ok]

\* The states of p as it reads the messages on their way to it, of which the
\* ones in known are already scheduled.
Reading(p, n, known) ==
    LET read[i \in 0..n] ==
          IF i = 0
          THEN [local |-> local[p], processed |-> processed[p], inbox |-> inbox[p],
                sendMore |-> <<>>, ok |-> TRUE]
          ELSE RecvAuthenticatedMessage(read[i - 1], chan[p][i], i \in known)
    IN  read

Known(p, n) == SUBSET {i \in 1..n : chan[p][i].kind \in {"SCP", "TX"}}

\* p has read n messages and goes on to the given state of its reader.
HasRead(p, n, res, to) ==
    /\ chan' = [chan EXCEPT ![p] = SubSeq(@, n + 1, Len(@)), ![Other(p)] = @ \o res.sendMore]
    /\ local' = [local EXCEPT ![p] = res.local]
    /\ processed' = [processed EXCEPT ![p] = res.processed]
    /\ inbox' = [inbox EXCEPT ![p] = res.inbox]
    /\ reader' = [reader EXCEPT ![p] = to]
    /\ threw' = [threw EXCEPT ![p] = @ \/ ~res.ok]
    /\ UNCHANGED <<setting, unsent, authenticated, upgrades, minSlot, sendVars, writing>>

\* Overlay: readBodyHandler up to recvMessage, after which no mutex is held.
ReadBody(p, known) ==
    /\ reader[p] = "header" /\ chan[p] # <<>>
    /\ HasRead(p, 1, Reading(p, 1, known)[1], "body")

ReadOn(l, to) == to

\* maybeThrottleRead, the reader's next state otherwise being to.
MaybeThrottleRead(l, to) == IF canRead(l) THEN to ELSE "throttled"

\* Overlay: the rest of readBodyHandler, with scheduleRead.
FinishReadBody(p) ==
    /\ reader[p] = "body"
    /\ reader' = [reader EXCEPT ![p] = MaybeThrottleRead(local[p], "start")]
    /\ UNCHANGED <<setting, unsent, authenticated, upgrades, minSlot, sendVars, writing,
                   local, processed, inbox, chan, threw>>

\* Overlay: startRead reads the n messages that are buffered, or until it is
\* throttled, with mStateMutex held, and then issues an async_read.
StartRead(p, n, known) ==
    LET read == Reading(p, n, known)
    IN  /\ reader[p] = "start"
        /\ \A i \in 1..(n - 1) : canRead(read[i].local)
        /\ HasRead(p, n, [read[n] EXCEPT !.ok = @ /\ canRead(local[p])],
                   MaybeThrottleRead(read[n].local, "header"))

\* The queue of the main thread's scheduler m is put on.
Category(m) == CASE m.kind = "SEND_MORE" -> "CTRL"
                 [] m.kind \in {"SCP", "FETCH"} -> m.kind
                 [] OTHER -> "TX"

isSendMoreValid(m) == m.numBytes # 0

RecvSendMoreQuietly(p, m) ==
    IF m.kind = "SEND_MORE" /\ isSendMoreValid(m)
    THEN /\ outbound' = [outbound EXCEPT ![p] =
                           [msgs |-> @.msgs + m.numMessages, bytes |-> @.bytes + m.numBytes]]
         /\ noCapacity' = [noCapacity EXCEPT ![p] = FALSE]
         /\ UNCHANGED batchPosted
    ELSE UNCHANGED <<outbound, noCapacity, batchPosted>>

\* recvSendMore, with maybeReleaseCapacity and the batch the handler posts.
RecvSendMore(p, m) ==
    IF m.kind = "SEND_MORE" /\ isSendMoreValid(m)
    THEN /\ outbound' = [outbound EXCEPT ![p] =
                           [msgs |-> @.msgs + m.numMessages, bytes |-> @.bytes + m.numBytes]]
         /\ noCapacity' = [noCapacity EXCEPT ![p] = FALSE]
         /\ batchPosted' = [batchPosted EXCEPT ![p] = TRUE]
    ELSE UNCHANGED <<outbound, noCapacity, batchPosted>>

\* Peer::endMessageProcessing of m after the handler of m sent the messages out.
FinishMessage(p, m, out, handled) ==
    LET res == EndMessageProcessing(local[p], processed[p], m)
    IN  /\ local' = [local EXCEPT ![p] = res.local]
        /\ processed' = [processed EXCEPT ![p] = res.processed]
        /\ Send(p, out \o res.sendMore)
        /\ reader' = [reader EXCEPT ![p] =
                        IF @ = "throttled" /\ res.full THEN "start" ELSE @]
        /\ threw' = [threw EXCEPT ![p] = @ \/ ~handled \/ ~res.ok]

\* Main: recvMessage of a message, or its being dropped by the scheduler, and
\* endMessageProcessing in the destructor of its CapacityTrackedMessage.
ProcessMessage(p, i) ==
    LET m == inbox[p][i]
    IN  /\ authenticated[p] /\ i \in DOMAIN inbox[p]
        /\ \A j \in 1..(i - 1) : Category(inbox[p][j]) # Category(m)
        /\ RecvSendMore(p, m)
        /\ inbox' = [inbox EXCEPT ![p] = RemoveAt(@, i)]
        /\ FinishMessage(p, m, <<>>, m.kind = "SEND_MORE" => isSendMoreValid(m))
        /\ UNCHANGED <<setting, unsent, authenticated, upgrades, minSlot, queues, counts>>
-----------------------------------------------------------------------------
(* Handshake and ledgers.                                                  *)

\* Main: recvAuth, which sends the initial credit; what was read after AUTH is
\* processed after it.
RecvAuth(p) ==
    LET credit == SendMore(PEER_FLOOD_READING_CAPACITY, FlowControlBytesTotal(getMaxTxSize(p)))
    IN  /\ ~authenticated[p]
        /\ authenticated' = [authenticated EXCEPT ![p] = TRUE]
        /\ FinishMessage(p, Auth, <<credit>>, TRUE)
        /\ UNCHANGED <<setting, unsent, upgrades, minSlot, sendVars, inbox>>

\* Main: maybeHandleUpgrade, which tells the authenticated peers.
MaybeHandleUpgrade(p) ==
    LET diff == setting.maxTxSize[upgrades[p] + 1] - getMaxTxSize(p)
    IN  /\ upgrades[p] < Len(setting.maxTxSize)
        /\ UpgradesEarly \/ authenticated[p]
        /\ upgrades' = [upgrades EXCEPT ![p] = @ + 1]
        /\ IF authenticated[p]
           THEN /\ local' = [local EXCEPT ![p].bytes = @ + diff, ![p].limit = @ + diff]
                /\ Send(p, <<SendMore(0, diff)>>)
           ELSE UNCHANGED <<local, chan, writing>>
        /\ UNCHANGED <<setting, unsent, authenticated, minSlot, sendVars, processed, reader, inbox,
                       threw>>

\* Main: a ledger closes and p forgets a slot.
ForgetSlot(p) ==
    /\ minSlot[p] < setting.maxSlot[p]
    /\ minSlot' = [minSlot EXCEPT ![p] = @ + 1]
    /\ UNCHANGED <<setting, unsent, authenticated, upgrades, sendVars, writing, recvVars, chan, threw>>

Main(p) ==
    \/ \E m \in unsent[p] : SendMessage(p, m)
    \/ \E i \in DOMAIN inbox[p] : ProcessMessage(p, i)
    \/ RecvAuth(p)
    \/ MaybeHandleUpgrade(p)
    \/ ForgetSlot(p)

Overlay(p) ==
    \/ GetNextBatchToSend(p)
    \/ \E n \in DOMAIN writing[p] : WriteCompletes(p, n)
    \/ chan[p] # <<>> /\ \E known \in Known(p, 1) : ReadBody(p, known)
    \/ FinishReadBody(p)
    \/ \E n \in 0..Len(chan[p]) : \E known \in Known(p, n) : StartRead(p, n, known)

\* After a failed assertion or a drop the connection is over.
Next == (\A p \in Peer : ~threw[p]) /\ \E p \in Peer : Main(p) \/ Overlay(p)

Spec == Init /\ [][Next]_vars

WorkLeft ==
    \E p \in Peer :
        \/ ~authenticated[p] \/ batchPosted[p]
        \/ writing[p] # <<>> \/ inbox[p] # <<>>
        \/ reader[p] \in {"body", "start"}
        \/ reader[p] = "header" /\ chan[p] # <<>>

\* The two threads go on while there is something for them to do; nothing makes
\* a peer send or upgrade.
FairSpec == Spec /\ (<>[]WorkLeft => []<><<TRUE>>_vars)
-----------------------------------------------------------------------------
\* No assertion of flow control fails and no end drops the other for sending
\* what it cannot take ("unexpected flood message, peer at capacity"), however
\* the threads of both interleave.
NoThrow == \A p \in Peer : ~threw[p]

\* When both ends allow the same sizes everything queued is sent, read and
\* processed, and neither end still waits for capacity: a batch withheld by the
\* receiver, an entry being sent that blocks its queue, or reading stopped for
\* lack of capacity never gets the connection stuck ("preventing the system
\* from getting stuck").
EventuallyDelivered ==
    <>[](upgrades[a] = upgrades[b]) =>
        <>[](\A p \in Peer : /\ \A k \in FloodKinds : queues[p][k] = <<>>
                             /\ chan[p] = <<>> /\ inbox[p] = <<>> /\ ~noCapacity[p])

\* The messages and bytes that the messages of a sequence count for.
Total(msgs, Count(_)) ==
    LET total[i \in 0..Len(msgs)] ==
          IF i = 0 THEN [msgs |-> 0, bytes |-> 0]
          ELSE [msgs |-> total[i - 1].msgs + Count(msgs[i])[1],
                bytes |-> total[i - 1].bytes + Count(msgs[i])[2]]
    IN  total[Len(msgs)]

Flooded(m) == IF isFloodMessage(m) THEN <<1, m.size>> ELSE <<0, 0>>
Granted(m) == IF m.kind = "SEND_MORE" THEN <<m.numMessages, m.numBytes>> ELSE <<0, 0>>

\* The state of the direction from p to q.
Wire(q) == Total(chan[q], Flooded)
Busy(q) == Total(inbox[q], Flooded)
Withheld(q) == [msgs |-> processed[q].msgs, bytes |-> processed[q].bytes]
Returning(p) == Total(chan[p] \o inbox[p], Granted)

AToB == INSTANCE CreditWindow WITH
    MsgCapacity <- PEER_FLOOD_READING_CAPACITY,
    MsgBatch <- FLOW_CONTROL_SEND_MORE_BATCH_SIZE,
    ByteBatch <- INITIAL_FLOW_CONTROL_SEND_MORE_BATCH_SIZE_BYTES,
    opened <- authenticated[b], limit <- local[b].limit, credit <- outbound[a],
    wire <- Wire(b), busy <- Busy(b), withheld <- Withheld(b), granted <- Returning(a)

BToA == INSTANCE CreditWindow WITH
    MsgCapacity <- PEER_FLOOD_READING_CAPACITY,
    MsgBatch <- FLOW_CONTROL_SEND_MORE_BATCH_SIZE,
    ByteBatch <- INITIAL_FLOW_CONTROL_SEND_MORE_BATCH_SIZE_BYTES,
    opened <- authenticated[a], limit <- local[a].limit, credit <- outbound[b],
    wire <- Wire(a), busy <- Busy(a), withheld <- Withheld(a), granted <- Returning(b)

\* In both directions the connection is a credit window: what is granted, sent,
\* read and acknowledged is neither lost nor made up, whatever is queued,
\* trimmed, already known or upgraded meanwhile.
ImplementsCreditWindow == AToB!Spec /\ BToA!Spec
================================================================================
