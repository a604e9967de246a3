---------------------------- MODULE MCOrderBook ----------------------------
(***************************************************************************)
(* Instances of OrderBook for TLC.                                         *)
(***************************************************************************)
EXTENDS OrderBook

\* The book compares ids for equality only, so the runs explore one of the
\* orders in which the generated ids may reach it.
AscendingIds ==
    \A a, b \in DOMAIN arrivals :
        a < b => arrivals[a].order_id < arrivals[b].order_id

\* It compares users for equality only, so the first order may always be of the same
\* one.  (Symmetry would not be sound for the liveness property of the run.)
UsersInTurn ==
    arrivals # << >> => order[arrivals[1].order_id].user_id = CHOOSE u \in Users : TRUE

=============================================================================
