----------------------------- MODULE OrderBook -----------------------------
(***************************************************************************)
(* One OrderBook (include/OrderBook.hpp) as its OrderBookProcessor thread  *)
(* drives it: events are handled one after the other, a new order is       *)
(* matched one fill at a time against the opposite side and what is left   *)
(* of it rests; a cancel takes a resting order off the book.               *)
(*                                                                         *)
(* std::shared_ptr<Order> objects are named by their order_id, which the   *)
(* book relies on being unique (OrderIdGenerator).  std::map is a function *)
(* whose domain is the set of keys present, std::list a sequence.          *)
(***************************************************************************)
EXTENDS Integers, SequencesExt

CONSTANTS
    Users,       \* user_id values
    Prices,      \* limit prices an order may carry
    Quantities,  \* order sizes a client may ask for, zero included
    OrderIds,    \* ids the generator hands out
    IdSpace,     \* 2^32 in the code: cancelOrder takes the id as a uint32_t
    NoOrder      \* not an order id

ASSUME BookAssumption ==
    /\ Prices \subseteq Nat
    /\ Quantities \subseteq Nat
    /\ OrderIds \subseteq Nat
    /\ IdSpace \in Nat \ {0}
    /\ NoOrder \notin OrderIds

VARIABLES
    order,     \* the Order objects created so far, by order_id
    book,      \* book["BUY"] is bids_, book["SELL"] is asks_
    active,    \* user_active_orders_: the order ids listed for each user
    taker,     \* the order processOrder is matching, or NoOrder
    results,   \* the MatchRecords produced, oldest first
    cancels,   \* the CancelRecords produced, oldest first
    arrivals,  \* history: what was handed to processOrder, in order
    lastCancel \* history: the cancelOrder call since the latest order, if any

vars == <<order, book, active, taker, results, cancels, arrivals, lastCancel>>

Side == {"BUY", "SELL"}

Order == [user_id : Users, side : Side, price : Prices, quantity : Nat]

\* A map whose keys are some of the ids, and one whose keys are some of the prices.
IsOrders(f) == DOMAIN f \subseteq OrderIds /\ f \in [DOMAIN f -> Order]

IsLevels(f) == DOMAIN f \subseteq Prices /\ f \in [DOMAIN f -> Seq(OrderIds)]

MatchRecord ==
    [maker : OrderIds, taker : OrderIds, buyer : Users, seller : Users,
     buyer_expected_price : Prices, match_price : Prices, match_quantity : Nat]

CancelRecord ==
    [order_id : OrderIds, user_id : Users, side : Side, price : Prices,
     quantity : Nat]

Arrival == [order_id : OrderIds, quantity : Quantities]

CancelCall == [order_id : Nat, user_id : Users]

NoCall == [order_id |-> -1]

-----------------------------------------------------------------------------
(***************************************************************************)
(* Price levels.                                                           *)
(***************************************************************************)

Opposite(side) == IF side = "BUY" THEN "SELL" ELSE "BUY"

\* Key order of bids_ (std::greater) and of asks_ (std::less).
AtLeastAsGood(side, p, q) == IF side = "BUY" THEN p >= q ELSE p =< q

\* it = begin() of the side's map.
IsBest(side, p) ==
    /\ p \in DOMAIN book[side]
    /\ \A q \in DOMAIN book[side] : AtLeastAsGood(side, p, q)

\* A plausible slip: the level loop stops at the limit instead of beyond it.
CrossesStrictly(side, limit, p) == IF side = "BUY" THEN p < limit ELSE p > limit

\* A taker on `side` with limit `limit` trades at the level `p`.
Crosses(side, limit, p) == IF side = "BUY" THEN p =< limit ELSE p >= limit

\* The list of a level; operator[] makes an empty one when it is missing.
ListAt(levels, p) == IF p \in DOMAIN levels THEN levels[p] ELSE << >>

\* A plausible slip: the emptied level stays in the map.
SetLevelKeepingEmpty(levels, p, list) ==
    [x \in DOMAIN levels \cup {p} |-> IF x = p THEN list ELSE levels[x]]

\* Store the list of level p, and erase the level once its list is empty.
SetLevel(levels, p, list) ==
    [x \in IF list = << >> THEN DOMAIN levels \ {p} ELSE DOMAIN levels \cup {p}
        |-> IF x = p THEN list ELSE levels[x]]

\* A plausible slip: the remainder jumps the queue of its level.
JoinInFront(list, id) == <<id>> \o list

\* list.push_back.
Join(list, id) == Append(list, id)

\* list.remove_if on the order id, which a list holds at most once.
Erase(list, id) ==
    IF \E k \in 1 .. Len(list) : list[k] = id
    THEN RemoveAt(list, CHOOSE k \in 1 .. Len(list) : list[k] = id)
    ELSE list

\* A plausible slip: the exhausted maker stays listed for its owner.
DelistNothing(index, u, id) == index

\* user_active_orders_[u].erase(id)
Delist(index, u, id) == [index EXCEPT ![u] = @ \ {id}]

\* A plausible slip: std::max for std::min.
Larger(a, b) == IF a =< b THEN b ELSE a

Smaller(a, b) == IF a =< b THEN a ELSE b

-----------------------------------------------------------------------------
Init ==
    /\ order = [i \in {} |-> 0]
    /\ book = [s \in Side |-> [p \in {} |-> << >>]]
    /\ active = [u \in Users |-> {}]
    /\ taker = NoOrder
    /\ results = << >>
    /\ cancels = << >>
    /\ arrivals = << >>
    /\ lastCancel = NoCall

\* A NEW_ORDER event: processOrder is entered with a fresh Order object.
NewOrder(i, u, s, p, q) ==
    /\ taker = NoOrder
    /\ i \notin DOMAIN order
    /\ order' = [j \in DOMAIN order \cup {i} |->
                    IF j = i
                    THEN [user_id |-> u, side |-> s, price |-> p, quantity |-> q]
                    ELSE order[j]]
    /\ taker' = i
    /\ arrivals' = Append(arrivals, [order_id |-> i, quantity |-> q])
    /\ lastCancel' = NoCall
    /\ UNCHANGED <<book, active, results, cancels>>

\* A plausible slip: the taker's limit is recorded as the buyer's, also when
\* the taker sells.
FillRecordTakerLimit(t, m, p, qty) ==
    LET buy  == IF order[t].side = "BUY" THEN t ELSE m
        sell == IF order[t].side = "BUY" THEN m ELSE t
    IN  [maker |-> m, taker |-> t,
         buyer |-> order[buy].user_id, seller |-> order[sell].user_id,
         buyer_expected_price |-> order[t].price,
         match_price |-> p, match_quantity |-> qty]

\* A plausible slip: the record carries what the taker still wants.
FillRecordTakerQuantity(t, m, p, qty) ==
    LET buy  == IF order[t].side = "BUY" THEN t ELSE m
        sell == IF order[t].side = "BUY" THEN m ELSE t
    IN  [maker |-> m, taker |-> t,
         buyer |-> order[buy].user_id, seller |-> order[sell].user_id,
         buyer_expected_price |-> order[buy].price,
         match_price |-> p, match_quantity |-> order[t].quantity]

\* What one fill of `qty` between the taker t and the maker m reports.
FillRecord(t, m, p, qty) ==
    LET buy  == IF order[t].side = "BUY" THEN t ELSE m
        sell == IF order[t].side = "BUY" THEN m ELSE t
    IN  [maker |-> m, taker |-> t,
         buyer |-> order[buy].user_id, seller |-> order[sell].user_id,
         buyer_expected_price |-> order[buy].price,
         match_price |-> p, match_quantity |-> qty]

\* One turn of the matching loops: the taker trades with the first order of
\* the best opposite level.  An exhausted maker leaves the list and the index,
\* and an emptied level leaves the map.  When the maker is not exhausted the
\* taker is, and both loops end.
Fill ==
    /\ taker # NoOrder
    /\ order[taker].quantity > 0
    /\ LET s == order[taker].side
           o == Opposite(s)
       IN  \E p \in DOMAIN book[o] :
             /\ IsBest(o, p)
             /\ Crosses(s, order[taker].price, p)
             /\ LET m   == Head(book[o][p])
                    qty == Smaller(order[taker].quantity, order[m].quantity)
                    u   == order[m].user_id
                IN  /\ results' = Append(results, FillRecord(taker, m, p, qty))
                    /\ order' = [order EXCEPT ![taker].quantity = @ - qty,
                                              ![m].quantity = @ - qty]
                    /\ IF order[m].quantity = qty
                       THEN /\ book' = [book EXCEPT ![o] =
                                           SetLevel(@, p, Tail(@[p]))]
                            /\ active' = Delist(active, u, m)
                       ELSE UNCHANGED <<book, active>>
    /\ UNCHANGED <<taker, cancels, arrivals, lastCancel>>

\* A plausible slip: the loop goes on while the other side has any level.
OtherSideEmpty(t) == DOMAIN book[Opposite(order[t].side)] = {}

\* No level is left to trade with (the map is exhausted or its best price is
\* beyond the limit).
NothingToTrade(t) ==
    LET o == Opposite(order[t].side)
    IN  \A p \in DOMAIN book[o] : ~ Crosses(order[t].side, order[t].price, p)

\* The remainder joins the end of its level and the index of its owner.
Rest ==
    /\ taker # NoOrder
    /\ order[taker].quantity > 0
    /\ NothingToTrade(taker)
    /\ LET s == order[taker].side
           p == order[taker].price
           u == order[taker].user_id
       IN  /\ book' = [book EXCEPT ![s] =
                          SetLevel(@, p, Join(ListAt(@, p), taker))]
           /\ active' = [active EXCEPT ![u] = @ \cup {taker}]
    /\ taker' = NoOrder
    /\ UNCHANGED <<order, results, cancels, arrivals, lastCancel>>

\* processOrder returns: nothing is left of the order.
Exhausted ==
    /\ taker # NoOrder
    /\ order[taker].quantity = 0
    /\ taker' = NoOrder
    /\ UNCHANGED <<order, book, active, results, cancels, arrivals, lastCancel>>

\* The uint32_t parameter of cancelOrder keeps the low 32 bits of the id.
Narrow(id) == id % IdSpace

\* A CANCEL_ORDER event.  The user's index is searched for the narrowed id;
\* a hit is taken off its level and the index and reported for release.
CancelOrder(id, u) ==
    /\ taker = NoOrder
    /\ LET key == Narrow(id)
       IN  IF key \in active[u]
           THEN LET s == order[key].side
                    p == order[key].price
                IN  /\ book' = [book EXCEPT ![s] =
                                   SetLevel(@, p, Erase(ListAt(@, p), key))]
                    /\ active' = Delist(active, u, key)
                    /\ cancels' = Append(cancels,
                          [order_id |-> key, user_id |-> order[key].user_id,
                           side |-> s, price |-> p,
                           quantity |-> order[key].quantity])
           ELSE UNCHANGED <<book, active, cancels>>
    /\ lastCancel' = [order_id |-> id, user_id |-> u]
    /\ UNCHANGED <<order, taker, results, arrivals>>

Next ==
    \/ \E i \in OrderIds, u \in Users, s \in Side, p \in Prices, q \in Quantities :
          NewOrder(i, u, s, p, q)
    \/ Fill
    \/ Rest
    \/ Exhausted
    \/ \E i \in OrderIds, u \in Users : CancelOrder(i, u)

Spec == Init /\ [][Next]_vars

\* The worker thread keeps running, so the loops it is in go on.
MatchingLoop == Fill \/ Rest \/ Exhausted

FairSpec == Spec /\ WF_vars(MatchingLoop)

-----------------------------------------------------------------------------
(***************************************************************************)
(* Properties.                                                             *)
(***************************************************************************)

\* The orders on the book, one side or both.
RestingOn(s) == {i \in DOMAIN order : \E p \in DOMAIN book[s] : \E k \in DOMAIN book[s][p] :
                    book[s][p][k] = i}

Resting == RestingOn("BUY") \cup RestingOn("SELL")

\* In the history h, order i reached processOrder before order j.
ArrivedBefore(h, i, j) ==
    \E a, b \in DOMAIN h : a < b /\ h[a].order_id = i /\ h[b].order_id = j

\* Every variable has its type: no quantity is ever driven below zero (they
\* are unsigned in OrderBook.hpp), and levels hold known order ids.
TypeOK ==
    /\ IsOrders(order)
    /\ DOMAIN book = Side /\ \A s \in Side : IsLevels(book[s])
    /\ active \in [Users -> SUBSET OrderIds]
    /\ taker \in OrderIds \cup {NoOrder}
    /\ results \in Seq(MatchRecord)
    /\ cancels \in Seq(CancelRecord)
    /\ arrivals \in Seq(Arrival)
    /\ lastCancel = NoCall \/ lastCancel \in CancelCall

\* No bid reaches an ask, also between two fills of one order: an order rests
\* only once nothing it could trade with is left (OrderBook.hpp:57, :98).
BookUncrossed ==
    \A b \in DOMAIN book["BUY"], a \in DOMAIN book["SELL"] : b < a

\* Both maps keep no empty level (getBestBidOffer reads begin()->first without
\* looking at the list), and a level lists unexhausted orders of its own side
\* and price, each once, in the order in which they arrived.
LevelsWellFormed ==
    \A s \in Side : \A p \in DOMAIN book[s] :
        /\ book[s][p] # << >>
        /\ \A k \in DOMAIN book[s][p] :
              /\ book[s][p][k] \in DOMAIN order
              /\ order[book[s][p][k]].side = s
              /\ order[book[s][p][k]].price = p
              /\ order[book[s][p][k]].quantity > 0
        /\ \A j, k \in DOMAIN book[s][p] :
              j < k => ArrivedBefore(arrivals, book[s][p][j], book[s][p][k])

\* user_active_orders_ lists exactly the resting orders of each user: what
\* GetOrders shows and cancelOrder searches is what can still trade.
IndexAgrees ==
    \A u \in Users :
        active[u] = {i \in Resting : order[i].user_id = u}

\* Every trade is at a price both sides accept, and the buyer's limit it carries
\* is never below the trade price: settlement computes the refund
\* (buyer_expected_price - match_price) * match_quantity on unsigned integers.
LimitsRespected ==
    \A k \in DOMAIN results :
        LET r    == results[k]
            buy  == IF order[r.taker].side = "BUY" THEN r.taker ELSE r.maker
            sell == IF order[r.taker].side = "BUY" THEN r.maker ELSE r.taker
        IN  /\ order[buy].side = "BUY" /\ order[sell].side = "SELL"
            /\ r.buyer_expected_price = order[buy].price
            /\ r.match_price =< r.buyer_expected_price
            /\ order[sell].price =< r.match_price

\* The history and the state speak of the same orders, each submitted once, and
\* the order being matched is the latest one and not on the book yet.
HistoryAgrees ==
    /\ \A k \in DOMAIN arrivals : arrivals[k].order_id \in DOMAIN order
    /\ \A i \in DOMAIN order : \E k \in DOMAIN arrivals : arrivals[k].order_id = i
    /\ \A j, k \in DOMAIN arrivals :
          arrivals[j].order_id = arrivals[k].order_id => j = k
    /\ \A k \in DOMAIN results :
          results[k].maker \in DOMAIN order /\ results[k].taker \in DOMAIN order
    /\ taker # NoOrder =>
          /\ taker \in DOMAIN order \ Resting
          /\ Len(arrivals) > 0 /\ arrivals[Len(arrivals)].order_id = taker

\* The inductive invariant: the parts above hold together, whatever step of the
\* matching loops the worker thread is in.
BookInv ==
    /\ TypeOK
    /\ BookUncrossed
    /\ LevelsWellFormed
    /\ IndexAgrees
    /\ LimitsRespected
    /\ HistoryAgrees

\* What order i has traded so far.
Traded(i) ==
    SumFunctionOnSet([k \in DOMAIN results |-> results[k].match_quantity],
                     {k \in DOMAIN results : i \in {results[k].maker, results[k].taker}})

\* Nothing of an order is lost or made up: what was submitted is what the match
\* records say it traded plus what is left, and what is left is being matched,
\* rests, or was reported by exactly one cancel record for release.
AccountedFor ==
    \A a \in Range(arrivals) :
        LET i    == a.order_id
            left == order[i].quantity
            recs == {k \in DOMAIN cancels : cancels[k].order_id = i}
        IN  /\ a.quantity = Traded(i) + left
            /\ left > 0 => \/ (i = taker \/ i \in Resting) /\ recs = {}
                           \/ /\ i # taker /\ i \notin Resting
                              /\ \E k \in recs : recs = {k} /\ cancels[k].quantity = left

\* After a user's cancel request the order it named is not active any more
\* (OrderBook::cancelOrder; an order of that user either traded out or is off).
\* With the ids of OrderIdGenerator, which do not fit the uint32_t, it fails.
CancelReachesOrder ==
    lastCancel # NoCall => lastCancel.order_id \notin active[lastCancel.user_id]

\* The book as its users see it: the orders that can still trade, and the ids in
\* the order of their arrival.
Live == [i \in Resting \cup ({taker} \ {NoOrder}) |-> order[i]]

Arrived == [k \in DOMAIN arrivals |-> arrivals[k].order_id]

\* The book trades in strict price-time priority whatever levels, lists and
\* index it keeps: it implements PriceTimeBook.
Promise == INSTANCE PriceTimeBook WITH
    live <- Live, incoming <- taker, arrived <- Arrived,
    trades <- results, releases <- cancels

KeepsPromise == Promise!Spec

\* Each order handed to the book is matched, rested or dropped: the nested
\* loops of matchBuyOrder and matchSellOrder end.
MatchingEnds == (taker # NoOrder) ~> (taker = NoOrder)

=============================================================================
