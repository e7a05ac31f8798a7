---------------------------- MODULE MCFlowControl ----------------------------
(* Two ends that exchange few messages with room for two of them.           *)
EXTENDS FlowControl

Msg(id, kind, size, hashes, slot) ==
    [id |-> id, kind |-> kind, size |-> size, hashes |-> hashes, slot |-> slot]

Case(fromA, fromB, sizes, slot) ==
    [outbox |-> (a :> fromA) @@ (b :> fromB), maxTxSize |-> sizes, maxSlot |-> (a :> slot) @@ (b :> 1)]

\* Transactions that together exceed the window and the sender's queue.
Transactions ==
    Case({Msg(1, "TX", 1, 0, 0), Msg(2, "TX", 2, 0, 0), Msg(3, "TX", 2, 0, 0)}, {}, <<2>>, 1)

\* A transaction that is allowed only after an upgrade.
Upgrade ==
    Case({Msg(1, "TX", 2, 0, 0), Msg(2, "TX", 3, 0, 0)}, {}, <<2, 3>>, 1)

\* Statements of two slots.
Statements ==
    Case({Msg(1, "SCP", 1, 0, 1), Msg(2, "SCP", 1, 0, 1), Msg(3, "SCP", 2, 0, 2)}, {}, <<2>>, 2)

\* Adverts one way, demands and a request the other.
Adverts ==
    Case({Msg(1, "ADVERT", 1, 2, 0), Msg(2, "ADVERT", 2, 1, 0)},
         {Msg(3, "DEMAND", 1, 1, 0), Msg(4, "FETCH", 1, 0, 0)}, <<2>>, 1)

Scenarios == {Transactions, Upgrade, Statements, Adverts}
==============================================================================
