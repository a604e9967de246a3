--------------------------- MODULE PriceTimeBook ---------------------------
(***************************************************************************)
(* What an order book promises its users, with no price levels, no lists   *)
(* and no per-user index: a set of live orders, traded in price-time       *)
(* priority.  OrderBook implements this specification.                     *)
(***************************************************************************)
EXTENDS Integers, Sequences

CONSTANTS Users, Prices, Quantities, OrderIds, NoOrder

VARIABLES
    live,      \* the orders that can still trade, by id
    incoming,  \* the order being matched, or NoOrder
    arrived,   \* the ids of all the orders ever submitted, in order
    trades,    \* the trades made, oldest first
    releases   \* what cancelling gave back, oldest first

bookVars == <<live, incoming, arrived, trades, releases>>

IsBuy(i) == live[i].side = "BUY"

\* Orders that may still trade and are waiting for a counterpart.
Waiting == DOMAIN live \ {incoming}

Earlier(i, j) ==
    \E a, b \in DOMAIN arrived : a < b /\ arrived[a] = i /\ arrived[b] = j

BetterPrice(i, j) ==
    IF IsBuy(i) THEN live[i].price > live[j].price ELSE live[i].price < live[j].price

\* The incoming order's limit admits a trade with m.
Admissible(m) ==
    /\ live[m].side # live[incoming].side
    /\ IF IsBuy(incoming) THEN live[m].price =< live[incoming].price
                          ELSE live[m].price >= live[incoming].price

\* No order waiting on m's side comes before m.
First(m) ==
    \A n \in Waiting \ {m} :
        live[n].side = live[m].side =>
            BetterPrice(m, n) \/ (live[n].price = live[m].price /\ Earlier(m, n))

Init ==
    /\ live = [i \in {} |-> 0]
    /\ incoming = NoOrder
    /\ arrived = << >>
    /\ trades = << >>
    /\ releases = << >>

Submit(i, u, s, p, q) ==
    /\ incoming = NoOrder
    /\ \A k \in DOMAIN arrived : arrived[k] # i
    /\ live' = [j \in DOMAIN live \cup {i} |->
                   IF j = i
                   THEN [user_id |-> u, side |-> s, price |-> p, quantity |-> q]
                   ELSE live[j]]
    /\ incoming' = i
    /\ arrived' = Append(arrived, i)
    /\ UNCHANGED <<trades, releases>>

\* A trade of qty between the incoming order and m, at m's price.
TradeWith(m, qty) ==
    LET buy  == IF IsBuy(incoming) THEN incoming ELSE m
        sell == IF IsBuy(incoming) THEN m ELSE incoming
    IN  [maker |-> m, taker |-> incoming,
         buyer |-> live[buy].user_id, seller |-> live[sell].user_id,
         buyer_expected_price |-> live[buy].price,
         match_price |-> live[m].price, match_quantity |-> qty]

\* The incoming order trades as much as it can with the first waiting order,
\* which stops being live when nothing is left of it.
Trade(m, qty) ==
    /\ incoming # NoOrder
    /\ Admissible(m)
    /\ First(m)
    /\ qty > 0
    /\ qty =< live[m].quantity /\ qty =< live[incoming].quantity
    /\ qty = live[m].quantity \/ qty = live[incoming].quantity
    /\ live' = [i \in IF qty = live[m].quantity
                      THEN DOMAIN live \ {m} ELSE DOMAIN live |->
                   IF i \in {m, incoming}
                   THEN [live[i] EXCEPT !.quantity = @ - qty]
                   ELSE live[i]]
    /\ trades' = Append(trades, TradeWith(m, qty))
    /\ UNCHANGED <<incoming, arrived, releases>>

\* The incoming order waits, because no trade is admissible, or it is gone,
\* because nothing is left of it.
Conclude ==
    /\ incoming # NoOrder
    /\ \/ /\ live[incoming].quantity > 0
          /\ \A m \in Waiting : ~ Admissible(m)
          /\ UNCHANGED live
       \/ /\ live[incoming].quantity = 0
          /\ live' = [i \in DOMAIN live \ {incoming} |-> live[i]]
    /\ incoming' = NoOrder
    /\ UNCHANGED <<arrived, trades, releases>>

\* A waiting order is withdrawn: its owner gets back what is left of it.
Withdraw(i) ==
    /\ incoming = NoOrder
    /\ live' = [j \in DOMAIN live \ {i} |-> live[j]]
    /\ releases' = Append(releases,
          [order_id |-> i, user_id |-> live[i].user_id, side |-> live[i].side,
           price |-> live[i].price, quantity |-> live[i].quantity])
    /\ UNCHANGED <<incoming, arrived, trades>>

Next ==
    \/ \E i \in OrderIds, u \in Users, s \in {"BUY", "SELL"}, p \in Prices,
          q \in Quantities : Submit(i, u, s, p, q)
    \/ \E m \in Waiting : \E qty \in 1 .. live[m].quantity : Trade(m, qty)
    \/ Conclude
    \/ \E i \in DOMAIN live : Withdraw(i)

Spec == Init /\ [][Next]_bookVars

=============================================================================
