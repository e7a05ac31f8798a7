------------------------------ MODULE CreditWindow ------------------------------
(***************************************************************************)
(* What flow control promises for one direction of a connection: messages  *)
(* and bytes move between a sender's credit, the wire, the receiver that   *)
(* processes them and the acknowledgements that return them as credit.     *)
(***************************************************************************)
EXTENDS Integers

CONSTANTS MsgCapacity, MsgBatch, ByteBatch

VARIABLES
    opened,     \* has the receiver granted its capacity?
    limit,      \* the bytes the receiver can hold
    credit,     \* what the sender may send
    wire,       \* sent and not yet read
    busy,       \* read and not yet processed
    withheld,   \* processed and not yet acknowledged
    granted     \* acknowledged, not yet known to the sender

vars == <<opened, limit, credit, wire, busy, withheld, granted>>

Amount == [msgs : Nat, bytes : Nat]
Nothing == [msgs |-> 0, bytes |-> 0]
Plus(x, y) == [msgs |-> x.msgs + y.msgs, bytes |-> x.bytes + y.bytes]
Minus(x, y) == [msgs |-> x.msgs - y.msgs, bytes |-> x.bytes - y.bytes]
AtMost(x, y) == x.msgs <= y.msgs /\ x.bytes <= y.bytes

Init ==
    /\ opened = FALSE
    /\ limit \in Nat
    /\ credit = Nothing /\ wire = Nothing /\ busy = Nothing
    /\ withheld = Nothing /\ granted = Nothing

\* The receiver grants all it can hold.
Open ==
    /\ ~opened /\ opened' = TRUE
    /\ granted' = Plus(granted, [msgs |-> MsgCapacity, bytes |-> limit])
    /\ UNCHANGED <<limit, credit, wire, busy, withheld>>

\* Messages are sent for which there is credit.
Send ==
    /\ credit' \in Amount /\ AtMost(credit', credit)
    /\ wire' = Plus(wire, Minus(credit, credit'))
    /\ UNCHANGED <<opened, limit, busy, withheld, granted>>

\* The amount x is processed; less than a batch stays withheld and the rest
\* is granted.
Acknowledge(x) ==
    LET sum == Plus(withheld, x)
    IN  /\ withheld' \in [msgs : 0..(MsgBatch - 1), bytes : 0..(ByteBatch - 1)]
        /\ AtMost(withheld', sum)
        /\ granted' = Plus(granted, Minus(sum, withheld'))

\* Messages are read; what is already known needs no processing.
Read ==
    LET read == Minus(wire, wire')
        new == Minus(busy', busy)
    IN  /\ wire' \in Amount /\ AtMost(wire', wire)
        /\ busy' \in Amount /\ AtMost(busy, busy') /\ AtMost(new, read)
        /\ Acknowledge(Minus(read, new))
        /\ UNCHANGED <<opened, limit, credit>>

Process ==
    /\ busy' \in Amount /\ AtMost(busy', busy)
    /\ Acknowledge(Minus(busy, busy'))
    /\ UNCHANGED <<opened, limit, credit, wire>>

\* The sender gets an acknowledgement.
Grant ==
    /\ granted' \in Amount /\ AtMost(granted', granted)
    /\ credit' = Plus(credit, Minus(granted, granted'))
    /\ UNCHANGED <<opened, limit, wire, busy, withheld>>

\* The receiver can hold more bytes and grants them.
Grow ==
    /\ opened
    /\ limit' \in Nat /\ limit <= limit'
    /\ granted' = Plus(granted, [msgs |-> 0, bytes |-> limit' - limit])
    /\ UNCHANGED <<opened, credit, wire, busy, withheld>>

Next == Open \/ Send \/ Read \/ Process \/ Grant \/ Grow

Spec == Init /\ [][Next]_vars
-----------------------------------------------------------------------------
Capacity == [msgs |-> MsgCapacity, bytes |-> limit]

Sum == Plus(Plus(Plus(credit, wire), Plus(busy, withheld)), granted)

\* Once the receiver has granted its capacity, all of it is credit, on its way,
\* being processed or on its way back; before that there is none.  (Credit is
\* neither lost nor made up by lockOutboundCapacity, releaseOutboundCapacity,
\* endMessageProcessing and handleTxSizeIncrease together.)
Conserved == Sum = IF opened THEN Capacity ELSE Nothing

\* The sender never gets the receiver to hold more than it has capacity for:
\* lockLocalCapacity succeeds on every message that was sent.
NeverOverrun == AtMost(Plus(wire, busy), IF opened THEN Capacity ELSE Nothing)

\* With nothing under way the sender has credit for a message of any size the
\* receiver leaves room for beside a batch of bytes (getFlowControlBytesTotal),
\* although the receiver may withhold almost a batch of acknowledgements.
NeverStuck ==
    opened /\ wire = Nothing /\ busy = Nothing /\ granted = Nothing
        => credit.msgs >= 1 /\ credit.bytes > limit - ByteBatch
================================================================================
