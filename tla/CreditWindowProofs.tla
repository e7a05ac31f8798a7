-------------------------- MODULE CreditWindowProofs --------------------------
(***************************************************************************)
(* A credit window conserves the receiver's capacity, for any capacity,    *)
(* batch and message sizes; it is therefore never overrun and never stuck. *)
(***************************************************************************)
EXTENDS CreditWindow, TLAPS

\* Batches are not empty and not larger than the window (Config checks this of
\* FLOW_CONTROL_SEND_MORE_BATCH_SIZE and PEER_FLOOD_READING_CAPACITY).
WindowAssumption ==
    /\ MsgCapacity \in Nat
    /\ MsgBatch \in 1..MsgCapacity
    /\ ByteBatch \in Nat \ {0}

Withholdable == [msgs : 0..(MsgBatch - 1), bytes : 0..(ByteBatch - 1)]

TypeInv ==
    /\ limit \in Nat
    /\ credit \in Amount /\ wire \in Amount /\ busy \in Amount /\ granted \in Amount
    /\ withheld \in Withholdable

\* Conserved, one unit at a time.
AllMsgs == credit.msgs + wire.msgs + busy.msgs + withheld.msgs + granted.msgs
AllBytes == credit.bytes + wire.bytes + busy.bytes + withheld.bytes + granted.bytes
Balance ==
    /\ AllMsgs = IF opened THEN MsgCapacity ELSE 0
    /\ AllBytes = IF opened THEN limit ELSE 0

Inv == TypeInv /\ Balance

LEMMA InitInv == ASSUME WindowAssumption, Init PROVE Inv
BY DEF WindowAssumption, Init, Inv, TypeInv, Balance, AllMsgs, AllBytes, Amount, Withholdable, Nothing

LEMMA AcknowledgeKeeps ==
    ASSUME WindowAssumption, NEW x \in Amount, withheld \in Withholdable,
           granted \in Amount, Acknowledge(x)
    PROVE  /\ withheld' \in Withholdable /\ granted' \in Amount
           /\ withheld'.msgs + granted'.msgs = withheld.msgs + granted.msgs + x.msgs
           /\ withheld'.bytes + granted'.bytes = withheld.bytes + granted.bytes + x.bytes
BY DEF WindowAssumption, Amount, Withholdable, Acknowledge, Plus, Minus, AtMost

LEMMA NextInv == ASSUME WindowAssumption, Inv, [Next]_vars PROVE Inv'
<1> USE DEF Amount, Withholdable
<1>1. CASE Open
  <2>1. TypeInv'
    BY <1>1 DEF Open, Inv, TypeInv, Plus, WindowAssumption
  <2>2. /\ granted'.msgs = granted.msgs + MsgCapacity
        /\ granted'.bytes = granted.bytes + limit
    BY <1>1 DEF Open, Inv, TypeInv, Plus
  <2>3. ~opened /\ opened' /\ UNCHANGED <<limit, credit, wire, busy, withheld>>
    BY <1>1 DEF Open
  <2>4. AllMsgs' = AllMsgs + MsgCapacity /\ AllBytes' = AllBytes + limit
    BY <2>2, <2>3 DEF Inv, TypeInv, AllMsgs, AllBytes, WindowAssumption
  <2>5. AllMsgs = 0 /\ AllBytes = 0
    BY <2>3 DEF Inv, Balance, AllMsgs, AllBytes
  <2>6. Balance'
    BY <2>3, <2>4, <2>5 DEF Inv, TypeInv, Balance, AllMsgs, AllBytes, WindowAssumption
  <2> QED
    BY <2>1, <2>6 DEF Inv
<1>2. CASE Send
  BY <1>2 DEF Send, Inv, TypeInv, Balance, AllMsgs, AllBytes, Plus, Minus, AtMost, Nothing
<1>3. CASE Read
  <2> DEFINE x == Minus(Minus(wire, wire'), Minus(busy', busy))
  <2>1. /\ x \in Amount
        /\ x.msgs = wire.msgs - wire'.msgs - (busy'.msgs - busy.msgs)
        /\ x.bytes = wire.bytes - wire'.bytes - (busy'.bytes - busy.bytes)
    BY <1>3 DEF Read, Inv, TypeInv, Minus, AtMost
  <2>2. Acknowledge(x)
    BY <1>3 DEF Read
  <2>3. /\ withheld' \in Withholdable /\ granted' \in Amount
        /\ withheld'.msgs + granted'.msgs = withheld.msgs + granted.msgs + x.msgs
        /\ withheld'.bytes + granted'.bytes = withheld.bytes + granted.bytes + x.bytes
    BY <2>1, <2>2, AcknowledgeKeeps DEF Inv, TypeInv
  <2> HIDE DEF x
  <2> QED
    BY <1>3, <2>1, <2>3 DEF Read, Inv, TypeInv, Balance, AllMsgs, AllBytes
<1>4. CASE Process
  <2> DEFINE x == Minus(busy, busy')
  <2>1. x \in Amount /\ x.msgs = busy.msgs - busy'.msgs /\ x.bytes = busy.bytes - busy'.bytes
    BY <1>4 DEF Process, Inv, TypeInv, Minus, AtMost
  <2>2. /\ withheld' \in Withholdable /\ granted' \in Amount
        /\ withheld'.msgs + granted'.msgs = withheld.msgs + granted.msgs + x.msgs
        /\ withheld'.bytes + granted'.bytes = withheld.bytes + granted.bytes + x.bytes
    BY <1>4, <2>1, AcknowledgeKeeps DEF Process, Inv, TypeInv
  <2> HIDE DEF x
  <2>3. busy' \in Amount /\ UNCHANGED <<opened, limit, credit, wire>>
    BY <1>4 DEF Process
  <2>4. TypeInv'
    BY <2>2, <2>3 DEF Inv, TypeInv
  <2>5. AllMsgs' = AllMsgs /\ AllBytes' = AllBytes
    BY <2>1, <2>2, <2>3 DEF Inv, TypeInv, AllMsgs, AllBytes
  <2>6. Balance'
    BY <2>3, <2>5 DEF Inv, Balance, AllMsgs, AllBytes
  <2> QED
    BY <2>4, <2>6 DEF Inv
<1>5. CASE Grant
  BY <1>5 DEF Grant, Inv, TypeInv, Balance, AllMsgs, AllBytes, Plus, Minus, AtMost
<1>6. CASE Grow
  BY <1>6 DEF Grow, Inv, TypeInv, Balance, AllMsgs, AllBytes, Plus
<1>7. CASE UNCHANGED vars
  BY <1>7 DEF vars, Inv, TypeInv, Balance, AllMsgs, AllBytes
<1> QED
  BY <1>1, <1>2, <1>3, <1>4, <1>5, <1>6, <1>7 DEF Next

LEMMA SpecInv == ASSUME WindowAssumption PROVE Spec => []Inv
BY InitInv, NextInv, PTL DEF Spec

\* Credit is neither lost nor made up: FlowControl's capacities of the two ends
\* and the SEND_MORE messages between them always add up to what was granted.
THEOREM WindowConserves == ASSUME WindowAssumption PROVE Spec => []Conserved
<1>1. Inv => Conserved
  BY DEF Inv, TypeInv, Balance, AllMsgs, AllBytes, Conserved, Sum, Capacity, Plus, Nothing, Amount, Withholdable
<1> QED
  BY <1>1, SpecInv, PTL

\* A receiver never has to hold more messages or bytes than its capacity, so an
\* end that follows the protocol is not dropped for being "at capacity".
THEOREM WindowNeverOverrun == ASSUME WindowAssumption PROVE Spec => []NeverOverrun
<1>1. Inv => NeverOverrun
  BY DEF Inv, TypeInv, Balance, AllMsgs, AllBytes, NeverOverrun, AtMost, Capacity, Plus, Nothing, Amount, Withholdable
<1> QED
  BY <1>1, SpecInv, PTL

\* Withheld acknowledgements leave the sender credit for a message and for more
\* bytes than the limit less a batch: the connection does not get stuck.
THEOREM WindowNeverStuck == ASSUME WindowAssumption PROVE Spec => []NeverStuck
<1>1. ASSUME WindowAssumption PROVE Inv => NeverStuck
  BY <1>1 DEF WindowAssumption, Inv, TypeInv, Balance, AllMsgs, AllBytes, NeverStuck, Nothing, Amount, Withholdable
<1> QED
  BY <1>1, SpecInv, PTL
================================================================================
