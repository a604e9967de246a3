---------------------------- MODULE MCRecovery ----------------------------
(***************************************************************************)
(* Instances of Recovery for TLC.                                          *)
(***************************************************************************)
EXTENDS Recovery

CONSTANTS u1, u2

\* One user can buy, the other can sell.
MCOpeningBalance == [u \in Users |-> IF u = u1 THEN 2 ELSE 0]

MCOpeningHolding == [u \in Users |-> IF u = u2 THEN 2 ELSE 0]

\* The order in which ids are handed out does not matter, as in MCExchange.
IdsInTurn == \A i \in issued, j \in OrderIds \ issued : i < j

\* Nothing is done with requests for an unknown ticker but to drop them: one order and
\* one cancel stand for all.
UnknownAlike ==
    \A k \in DOMAIN walQueue :
        LET ev == walQueue[k]
        IN  ev.ticker = "unknown" =>
              IF ev.type = "NEW_ORDER" THEN ev.price = 1 /\ ev.quantity = 1
              ELSE ev.order_id = 1 /\ ev.user_id = u1

\* Once a record is missing nothing depends on the others: the runs let all be missing.
NoneOrAll == gap => log = << >>

\* Two requests when the reservation of one of them does not fit, three otherwise.
FewWhenWrapped == wrapped => Cardinality(issued) + cancelCalls + deposited =< 2

=============================================================================
