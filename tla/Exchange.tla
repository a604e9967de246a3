------------------------------ MODULE Exchange ------------------------------
(***************************************************************************)
(* From a client's request to the books of account: the trade, cancel and  *)
(* deposit handlers (thread pool), the accounts in memory (UserManager),   *)
(* the WAL thread, the engine's routing, the thread of one listed ticker   *)
(* (OrderBookProcessor, driving OrderBook), the settlement thread and the  *)
(* database tables accounts and holdings.                                  *)
(*                                                                         *)
(* Each variable is written under a lock, by one thread or through a       *)
(* lock-free queue; an action is what a thread does between two points     *)
(* where another thread can see a difference.  A request that is refused   *)
(* (not logged in, short message, too few funds) changes nothing and has   *)
(* no action.                                                              *)
(***************************************************************************)
EXTENDS OrderBook

CONSTANTS
    OpeningBalance,  \* accounts.balance of each user when the server starts
    OpeningHolding,  \* holdings.quantity of each user for the listed ticker
    TickersKnown,    \* TickerManager is filled before loadAllFromDB runs
    DbMayFail,       \* a statement may fail and leave the tables as they were
    DepositAmounts,  \* amounts a deposit request may carry
    MaxDeposited,    \* bound on the sum of all deposits
    MaxCancelCalls,  \* bound on the cancel requests
    MaxRequests,     \* bound on orders, cancels and deposited amounts together
    LongSpace,       \* the values of an int64_t, 2^64 in the program
    IntSpace         \* the values of an int, 2^32 in the program

ASSUME ExchangeAssumption ==
    /\ OpeningBalance \in [Users -> Nat]
    /\ OpeningHolding \in [Users -> Nat]
    /\ TickersKnown \in BOOLEAN /\ DbMayFail \in BOOLEAN
    /\ DepositAmounts \subseteq Nat \ {0}
    /\ MaxDeposited \in Nat /\ MaxCancelCalls \in Nat /\ MaxRequests \in Nat
    /\ LongSpace \in Nat \ {0} /\ IntSpace \in Nat \ {0}

VARIABLES
    issued,      \* order ids handed out by OrderIdGenerator
    account,     \* UserManager: the UserAccount of each user
    db,          \* the rows of accounts and holdings of each user
    deposits,    \* per user, the deposit the database has and memory has not, or 0
    deposited,   \* the sum of all deposits
    cancelCalls, \* the number of cancel requests so far
    walQueue,    \* WALManager::queue_
    walBatch,    \* events written to the WAL file and not dispatched yet
    bookQueue,   \* OrderBookProcessor::queue_ of the listed ticker
    bookBatch,   \* events its thread has dequeued and not handled yet
    pushed,      \* how many of `results` have been pushed to settlement
    settling,    \* the settlement thread: where in its loop, and how far
    dropped,     \* history: orders the engine had no book for
    unloaded,    \* history: per user, the stock in the tables this life did not load
    wrapped      \* history: an order was accepted whose reservation is not its worth

exVars == <<issued, account, db, deposits, deposited, cancelCalls, walQueue, walBatch,
            bookQueue, bookBatch, pushed, settling, dropped, unloaded, wrapped>>

allVars == <<vars, exVars>>

Tickers == {"listed", "unknown"}

\* UserAccount: the stock of the listed ticker, and unlisted_stock, the available_stock
\* of an unknown one.  Nothing ever settles the latter, so that its frozen_stock is
\* always the negative of it.
Account == [available_balance : Int, frozen_balance : Int,
            available_stock : Int, frozen_stock : Int, unlisted_stock : Int]

NewOrderEvent == [type : {"NEW_ORDER"}, order_id : OrderIds, user_id : Users,
                  ticker : Tickers, side : Side, price : Prices, quantity : Quantities]

CancelEvent == [type : {"CANCEL_ORDER"}, order_id : OrderIds, user_id : Users,
                ticker : Tickers]

EngineEvent == NewOrderEvent \cup CancelEvent

-----------------------------------------------------------------------------
(***************************************************************************)
(* The operations of UserManager on one account.                           *)
(***************************************************************************)

\* The account loadAllFromDB builds from a user's rows: holdings are kept only for
\* symbols that TickerManager already knows.
Loaded(row) ==
    [available_balance |-> row.balance, frozen_balance |-> 0,
     available_stock |-> IF TickersKnown THEN row.holding ELSE 0,
     frozen_stock |-> 0, unlisted_stock |-> 0]

\* What it leaves behind in a user's row of holdings.
PassedOver(row) == IF TickersKnown THEN 0 ELSE row.holding

FreezeBalance(a, amount) ==
    [a EXCEPT !.available_balance = @ - amount, !.frozen_balance = @ + amount]

FreezeStock(a, qty) ==
    [a EXCEPT !.available_stock = @ - qty, !.frozen_stock = @ + qty]

FreezeUnlisted(a, qty) == [a EXCEPT !.unlisted_stock = @ - qty]

\* A plausible slip: the unused part of the reservation stays frozen.
CommitBuyNoRefund(a, cost, qty, refund) ==
    [a EXCEPT !.frozen_balance = @ - cost, !.available_stock = @ + qty]

CommitBuy(a, cost, qty, refund) ==
    [a EXCEPT !.frozen_balance = @ - (cost + refund),
              !.available_balance = @ + refund,
              !.available_stock = @ + qty]

CommitSell(a, revenue, qty) ==
    [a EXCEPT !.frozen_stock = @ - qty, !.available_balance = @ + revenue]

UnfreezeBalance(a, amount) ==
    [a EXCEPT !.frozen_balance = @ - amount, !.available_balance = @ + amount]

UnfreezeStock(a, qty) ==
    [a EXCEPT !.frozen_stock = @ - qty, !.available_stock = @ + qty]

AddBalance(a, amount) == [a EXCEPT !.available_balance = @ + amount]

(***************************************************************************)
(* The statements on one user's rows; the guard of the two deductions is   *)
(* the WHERE clause, and a refused one changes no row.                     *)
(***************************************************************************)

DeductBalance(row, amount) ==
    IF row.balance >= amount THEN [row EXCEPT !.balance = @ - amount] ELSE row

UpdateBalance(row, amount) == [row EXCEPT !.balance = @ + amount]

\* A plausible slip: the row is replaced instead of added to.
UpdateStockHoldingReplaces(row, qty) == [row EXCEPT !.holding = qty]

UpdateStockHolding(row, qty) == [row EXCEPT !.holding = @ + qty]

DeductStockHolding(row, qty) ==
    IF row.holding >= qty THEN [row EXCEPT !.holding = @ - qty] ELSE row

-----------------------------------------------------------------------------
\* The settlement thread has no records in hand and is about to poll for trades.
TopOfLoop == [at |-> "cancels", matches |-> 0, step |-> 0, settled |-> 0,
              cancels |-> 0, released |-> 0]

ExInit ==
    /\ Init
    /\ issued = {}
    /\ db = [u \in Users |-> [balance |-> OpeningBalance[u],
                              holding |-> OpeningHolding[u]]]
    /\ account = [u \in Users |-> Loaded(db[u])]
    /\ deposits = [u \in Users |-> 0]
    /\ deposited = 0
    /\ cancelCalls = 0
    /\ walQueue = << >> /\ walBatch = << >>
    /\ bookQueue = << >> /\ bookBatch = << >>
    /\ pushed = 0
    /\ settling = TopOfLoop
    /\ dropped = {}
    /\ unloaded = [u \in Users |-> PassedOver(db[u])]
    /\ wrapped = FALSE

-----------------------------------------------------------------------------
(***************************************************************************)
(* Handlers, on the threads of the pool.                                   *)
(***************************************************************************)

\* Clients may send another request.
MoreRequests == Cardinality(issued) + cancelCalls + deposited < MaxRequests

\* The conversion of an unsigned value to a signed type with this many values.
Signed(x, space) ==
    LET low == x % space IN IF 2 * low < space THEN low ELSE low - space

AsLong(x) == Signed(x, LongSpace)

AsInt(x) == Signed(x, IntSpace)

\* What is reserved for an order of this side: the product of the unsigned price and
\* amount in an int64_t, or the amount in an int.
Amount(s, p, q) == IF s = "BUY" THEN AsLong(p * q) ELSE AsInt(q)

\* What it is worth: its price for all of it, or the stock.
Worth(s, p, q) == IF s = "BUY" THEN p * q ELSE q

\* What tryFreezeBalance or tryFreezeStock compares with the amount.
Available(a, tk, s) ==
    IF s = "BUY" THEN a.available_balance
    ELSE IF tk = "listed" THEN a.available_stock ELSE a.unlisted_stock

\* A plausible slip: the balance is not looked at before it is frozen.
AlwaysAffordable(a, tk, s, p, q) == TRUE

Affordable(a, tk, s, p, q) == Available(a, tk, s) >= Amount(s, p, q)

Reserve(a, tk, s, p, q) ==
    IF s = "BUY" THEN FreezeBalance(a, Amount(s, p, q))
    ELSE IF tk = "listed" THEN FreezeStock(a, Amount(s, p, q))
    ELSE FreezeUnlisted(a, Amount(s, p, q))

\* TradeHandler: the reservation, then the event.  Another handler's steps
\* between the two cannot tell: reservations commute.
Trade(i, u, tk, s, p, q) ==
    /\ i \notin issued /\ MoreRequests
    /\ Affordable(account[u], tk, s, p, q)
    /\ issued' = issued \cup {i}
    /\ account' = [account EXCEPT ![u] = Reserve(@, tk, s, p, q)]
    /\ walQueue' = Append(walQueue,
          [type |-> "NEW_ORDER", order_id |-> i, user_id |-> u, ticker |-> tk,
           side |-> s, price |-> p, quantity |-> q])
    /\ wrapped' = (wrapped \/ Amount(s, p, q) # Worth(s, p, q))
    /\ UNCHANGED <<vars, db, deposits, deposited, cancelCalls, walBatch, bookQueue,
                   bookBatch, pushed, settling, dropped, unloaded>>

\* CancelOrderHandler: any id, with any ticker id, from any user.
Cancel(i, u, tk) ==
    /\ cancelCalls < MaxCancelCalls /\ MoreRequests
    /\ cancelCalls' = cancelCalls + 1
    /\ walQueue' = Append(walQueue,
          [type |-> "CANCEL_ORDER", order_id |-> i, user_id |-> u, ticker |-> tk])
    /\ UNCHANGED <<vars, issued, account, db, deposits, deposited, walBatch, bookQueue,
                   bookBatch, pushed, settling, dropped, unloaded, wrapped>>

\* DepositHandler, first the database ...  (A user has one deposit under way at
\* a time; deposits commute.)
DepositToDb(u, a) ==
    /\ deposits[u] = 0
    /\ deposited + a =< MaxDeposited /\ MoreRequests
    /\ db' = [db EXCEPT ![u] = UpdateBalance(@, a)]
    /\ deposits' = [deposits EXCEPT ![u] = a]
    /\ deposited' = deposited + a
    /\ UNCHANGED <<vars, issued, account, cancelCalls, walQueue, walBatch, bookQueue,
                   bookBatch, pushed, settling, dropped, unloaded, wrapped>>

\* ... then memory.
DepositToMemory(u) ==
    /\ deposits[u] > 0
    /\ account' = [account EXCEPT ![u] = AddBalance(@, deposits[u])]
    /\ deposits' = [deposits EXCEPT ![u] = 0]
    /\ UNCHANGED <<vars, issued, db, deposited, cancelCalls, walQueue, walBatch,
                   bookQueue, bookBatch, pushed, settling, dropped, unloaded, wrapped>>

-----------------------------------------------------------------------------
(***************************************************************************)
(* The WAL thread and the engine.                                          *)
(***************************************************************************)

\* The orders in which the elements of q can come out of a moodycamel queue with
\* several producers: it is first-in first-out per producer only, and any thread
\* of the pool may have handled any of the requests.
Dequeuings(q) ==
    {[k \in DOMAIN q |-> q[f[k]]] : f \in Bijection(DOMAIN q, DOMAIN q)}

\* A batch is dequeued and written.  The bounds of the runs stay below the
\* batch size of 1000, so a batch is all there is.
WalWrite ==
    /\ walBatch = << >> /\ walQueue # << >>
    /\ walBatch' \in Dequeuings(walQueue)
    /\ walQueue' = << >>
    /\ UNCHANGED <<vars, issued, account, db, deposits, deposited, cancelCalls, bookQueue,
                   bookBatch, pushed, settling, dropped, unloaded, wrapped>>

\* The engine enqueues an event for the book of its ticker, and drops it when
\* there is none.
WalDispatch ==
    /\ walBatch # << >>
    /\ walBatch' = Tail(walBatch)
    /\ LET ev == Head(walBatch)
       IN  \/ /\ ev.ticker = "listed"
              /\ bookQueue' = Append(bookQueue, ev)
              /\ UNCHANGED dropped
           \/ /\ ev.ticker = "unknown"
              /\ dropped' = IF ev.type = "NEW_ORDER" THEN dropped \cup {ev} ELSE dropped
              /\ UNCHANGED bookQueue
    /\ UNCHANGED <<vars, issued, account, db, deposits, deposited, cancelCalls, walQueue,
                   bookBatch, pushed, settling, unloaded, wrapped>>

-----------------------------------------------------------------------------
(***************************************************************************)
(* The thread of the listed ticker.                                        *)
(***************************************************************************)

\* The thread dequeues the next batch once it has pushed the previous one's
\* results.
BookTake ==
    /\ bookBatch = << >> /\ taker = NoOrder /\ pushed = Len(results)
    /\ bookQueue # << >>
    /\ bookBatch' = bookQueue
    /\ bookQueue' = << >>
    /\ UNCHANGED <<vars, issued, account, db, deposits, deposited, cancelCalls, walQueue,
                   walBatch, pushed, settling, dropped, unloaded, wrapped>>

BookHandles ==
    /\ bookBatch # << >>
    /\ LET ev == Head(bookBatch)
       IN  \/ /\ ev.type = "NEW_ORDER"
              /\ NewOrder(ev.order_id, ev.user_id, ev.side, ev.price, ev.quantity)
           \/ /\ ev.type = "CANCEL_ORDER"
              /\ CancelOrder(ev.order_id, ev.user_id)
    /\ bookBatch' = Tail(bookBatch)
    /\ UNCHANGED <<issued, account, db, deposits, deposited, cancelCalls, walQueue,
                   walBatch, bookQueue, pushed, settling, dropped, unloaded, wrapped>>

BookMatches == MatchingLoop /\ UNCHANGED exVars

\* pushRecords at the end of the batch.
BookPushes ==
    /\ bookBatch = << >> /\ taker = NoOrder
    /\ pushed < Len(results)
    /\ pushed' = Len(results)
    /\ UNCHANGED <<vars, issued, account, db, deposits, deposited, cancelCalls, walQueue,
                   walBatch, bookQueue, bookBatch, settling, dropped, unloaded, wrapped>>

-----------------------------------------------------------------------------
(***************************************************************************)
(* The settlement thread: a batch of match records, six steps for each,    *)
(* then a batch of cancel records, one step for each.                      *)
(***************************************************************************)

rec == results[settling.settled + 1]

sell_money == AsLong(rec.match_price * rec.match_quantity)

refund_money ==
    AsLong((rec.buyer_expected_price - rec.match_price) * rec.match_quantity)

\* match_quantity as the int the statements and commits take.
shares == AsInt(rec.match_quantity)

\* A plausible slip: a batch counts the trades the book has not pushed yet.
TakeMatchesUnpushed ==
    /\ settling.at = "cancels" /\ settling.cancels = 0
    /\ settling' = [settling EXCEPT !.at = "matches",
                                    !.matches = Len(results) - settling.settled]
    /\ UNCHANGED <<vars, issued, account, db, deposits, deposited, cancelCalls, walQueue,
                   walBatch, bookQueue, bookBatch, pushed, dropped, unloaded, wrapped>>

\* A plausible slip: cancel records alone do not wake the thread.
TakeMatchesOnly ==
    /\ settling.at = "cancels" /\ settling.cancels = 0
    /\ pushed > settling.settled
    /\ settling' = [settling EXCEPT !.at = "matches",
                                    !.matches = pushed - settling.settled]
    /\ UNCHANGED <<vars, issued, account, db, deposits, deposited, cancelCalls, walQueue,
                   walBatch, bookQueue, bookBatch, pushed, dropped, unloaded, wrapped>>

\* The next round of the loop: as many match records as there are, often none.
TakeMatches ==
    /\ settling.at = "cancels" /\ settling.cancels = 0
    /\ settling' = [settling EXCEPT !.at = "matches",
                                    !.matches = pushed - settling.settled]
    /\ UNCHANGED <<vars, issued, account, db, deposits, deposited, cancelCalls, walQueue,
                   walBatch, bookQueue, bookBatch, pushed, dropped, unloaded, wrapped>>

\* One statement of the four; its result is ignored.
Statement(step, row) ==
    \/ /\ step = 0
       /\ row = [db EXCEPT ![rec.buyer] = DeductBalance(@, sell_money)]
    \/ /\ step = 1
       /\ row = [db EXCEPT ![rec.buyer] = UpdateStockHolding(@, shares)]
    \/ /\ step = 2
       /\ row = [db EXCEPT ![rec.seller] = UpdateBalance(@, sell_money)]
    \/ /\ step = 3
       /\ row = [db EXCEPT ![rec.seller] = DeductStockHolding(@, shares)]
    \/ /\ DbMayFail /\ step \in 0 .. 3
       /\ row = db

SettleInDb ==
    /\ settling.at = "matches" /\ settling.matches > 0
    /\ Statement(settling.step, db')
    /\ settling' = [settling EXCEPT !.step = @ + 1]
    /\ UNCHANGED <<vars, issued, account, deposits, deposited, cancelCalls, walQueue,
                   walBatch, bookQueue, bookBatch, pushed, dropped, unloaded, wrapped>>

SettleBuyer ==
    /\ settling.at = "matches" /\ settling.matches > 0 /\ settling.step = 4
    /\ account' = [account EXCEPT ![rec.buyer] =
                      CommitBuy(@, sell_money, shares, refund_money)]
    /\ settling' = [settling EXCEPT !.step = 5]
    /\ UNCHANGED <<vars, issued, db, deposits, deposited, cancelCalls, walQueue,
                   walBatch, bookQueue, bookBatch, pushed, dropped, unloaded, wrapped>>

SettleSeller ==
    /\ settling.at = "matches" /\ settling.matches > 0 /\ settling.step = 5
    /\ account' = [account EXCEPT ![rec.seller] =
                      CommitSell(@, sell_money, shares)]
    /\ settling' = [settling EXCEPT !.step = 0, !.settled = @ + 1, !.matches = @ - 1]
    /\ UNCHANGED <<vars, issued, db, deposits, deposited, cancelCalls, walQueue,
                   walBatch, bookQueue, bookBatch, pushed, dropped, unloaded, wrapped>>

TakeCancels ==
    /\ settling.at = "matches" /\ settling.matches = 0
    /\ settling' = [settling EXCEPT !.at = "cancels",
                                    !.cancels = Len(cancels) - settling.released]
    /\ UNCHANGED <<vars, issued, account, db, deposits, deposited, cancelCalls, walQueue,
                   walBatch, bookQueue, bookBatch, pushed, dropped, unloaded, wrapped>>

Release(a, c) ==
    IF c.side = "BUY" THEN UnfreezeBalance(a, Amount("BUY", c.price, c.quantity))
    ELSE UnfreezeStock(a, Amount("SELL", c.price, c.quantity))

SettleCancel ==
    /\ settling.at = "cancels" /\ settling.cancels > 0
    /\ LET c == cancels[settling.released + 1]
       IN  account' = [account EXCEPT ![c.user_id] = Release(@, c)]
    /\ settling' = [settling EXCEPT !.released = @ + 1, !.cancels = @ - 1]
    /\ UNCHANGED <<vars, issued, db, deposits, deposited, cancelCalls, walQueue,
                   walBatch, bookQueue, bookBatch, pushed, dropped, unloaded, wrapped>>

-----------------------------------------------------------------------------
Handlers ==
    \/ \E i \in OrderIds, u \in Users, tk \in Tickers, s \in Side, p \in Prices,
          q \in Quantities : Trade(i, u, tk, s, p, q)
    \/ \E i \in OrderIds, u \in Users, tk \in Tickers : Cancel(i, u, tk)
    \/ \E u \in Users, a \in DepositAmounts : DepositToDb(u, a)
    \/ \E u \in Users : DepositToMemory(u)

WalThread == WalWrite \/ WalDispatch

BookThread == BookTake \/ BookHandles \/ BookMatches \/ BookPushes

SettlementThread ==
    \/ TakeMatches \/ SettleInDb \/ SettleBuyer \/ SettleSeller
    \/ TakeCancels \/ SettleCancel

ExNext == Handlers \/ WalThread \/ BookThread \/ SettlementThread

ExSpec == ExInit /\ [][ExNext]_allVars

\* The server's own threads keep running, and a handler that has updated the
\* database goes on to update memory.  Clients owe nothing.
ThreadsRun ==
    /\ WF_allVars(WalThread)
    /\ WF_allVars(BookThread)
    /\ WF_allVars(SettlementThread)
    /\ \A u \in Users : WF_allVars(DepositToMemory(u))

-----------------------------------------------------------------------------
(***************************************************************************)
(* Properties.                                                             *)
(***************************************************************************)

\* Every variable has its type.
ExTypeOK ==
    /\ issued \subseteq OrderIds
    /\ account \in [Users -> Account]
    /\ db \in [Users -> [balance : Int, holding : Int]]
    /\ deposits \in [Users -> DepositAmounts \cup {0}]
    /\ deposited \in 0 .. MaxDeposited
    /\ cancelCalls \in 0 .. MaxCancelCalls
    /\ walQueue \in Seq(EngineEvent) /\ walBatch \in Seq(EngineEvent)
    /\ bookQueue \in Seq(EngineEvent) /\ bookBatch \in Seq(EngineEvent)
    /\ pushed \in 0 .. Len(results)
    /\ settling \in [at : {"matches", "cancels"}, matches : Nat, step : 0 .. 5,
                     settled : 0 .. pushed, cancels : Nat, released : 0 .. Len(cancels)]
    /\ dropped \subseteq NewOrderEvent
    /\ unloaded \in [Users -> Int]
    /\ wrapped \in BOOLEAN

\* No account ever goes below zero, in memory or in the tables, whatever the
\* handlers, the book and settlement are in the middle of (README.md:10-12 of the
\* repository promises safe assets, nothing oversold and nothing overdrawn).  It does
\* not hold: an amount too wide for its signed type is negative or too small when
\* TradeHandler compares it with what is available.
NoOverdraft ==
    \A u \in Users :
        /\ account[u].available_balance >= 0 /\ account[u].frozen_balance >= 0
        /\ account[u].available_stock >= 0 /\ account[u].frozen_stock >= 0
        /\ account[u].unlisted_stock = 0
        /\ db[u].balance >= 0 /\ db[u].holding >= 0

\* That is the only way to overdraw: as long as what TradeHandler reserved for each order
\* it accepted was the order's worth, nothing goes below zero, also when orders of any
\* size are refused, statements fail, or the process dies between two of them.
OverdrawnOnlyByWrapping == ~ wrapped => NoOverdraft

\* x while the settlement of a trade involving u in this role is at these steps.
During(u, who, steps, x) ==
    IF settling.matches > 0 /\ settling.step \in steps /\ u = who THEN x ELSE 0

\* The tables and memory tell the same story at every moment: per user they
\* differ exactly by the deposit under way and by the steps of the trade being
\* settled that one side has seen and the other has not (DepositHandler and
\* SettlementProcessor::processLoop update the database first).  Holdings also differ by
\* what loadAllFromDB did not load.
LedgersAgree ==
    \A u \in Users :
        /\ db[u].balance =
              account[u].available_balance + account[u].frozen_balance + deposits[u]
              - During(u, rec.buyer, 1 .. 4, sell_money)
              + During(u, rec.seller, 3 .. 5, sell_money)
        /\ db[u].holding =
              account[u].available_stock + account[u].frozen_stock + unloaded[u]
              + During(u, rec.buyer, 2 .. 4, shares)
              - During(u, rec.seller, 4 .. 5, shares)

\* The orders between the handler and the book, and those that got no book.
Underway ==
    {ev \in Range(walQueue) \cup Range(walBatch) \cup Range(bookQueue)
            \cup Range(bookBatch) \cup dropped : ev.type = "NEW_ORDER"}

Frozen(u, s) == IF s = "BUY" THEN account[u].frozen_balance ELSE account[u].frozen_stock

\* The reservations of a user's orders of one side: those under way, those on the book,
\* those of trades that are not settled, and those of cancels that are not released.
OnTheWay(u, s) ==
    [ev \in {e \in Underway : e.user_id = u /\ e.side = s} |->
        Worth(s, ev.price, ev.quantity)]

OnTheBook(u, s) ==
    [i \in {j \in DOMAIN Live : Live[j].user_id = u /\ Live[j].side = s} |->
        Worth(s, Live[i].price, Live[i].quantity)]

\* Trade k has still to be settled for its party of side s.
IsUnsettled(k, s) == ~ (s = "BUY" /\ k = settling.settled + 1 /\ settling.step = 5)

Party(k, s) == IF s = "BUY" THEN results[k].buyer ELSE results[k].seller

Unsettled(u, s) ==
    [k \in {n \in settling.settled + 1 .. Len(results) : Party(n, s) = u /\ IsUnsettled(n, s)} |->
        Worth(s, results[k].buyer_expected_price, results[k].match_quantity)]

Unreleased(u, s) ==
    [k \in {n \in settling.released + 1 .. Len(cancels) :
                cancels[n].user_id = u /\ cancels[n].side = s} |->
        Worth(s, cancels[k].price, cancels[k].quantity)]

\* What is frozen is exactly what is still owed for: the reservation of every
\* order under way, on the book, traded and not settled, or cancelled and not
\* released.  Nothing is unfrozen twice and nothing but an order the engine
\* dropped stays frozen for ever.  After an order was accepted with the wrong
\* reservation the parts of it need not add up any more.
FrozenBacked ==
    ~ wrapped =>
        \A u \in Users, s \in Side :
            Frozen(u, s) = SumFunction(OnTheWay(u, s)) + SumFunction(OnTheBook(u, s))
                           + SumFunction(Unsettled(u, s)) + SumFunction(Unreleased(u, s))

\* The WHERE clauses of the two deductions would not refuse the statement that is next.
DeductionsCovered ==
    settling.matches > 0 =>
        /\ settling.step = 0 => db[rec.buyer].balance >= sell_money
        /\ settling.step = 3 => db[rec.seller].holding >= shares

\* Once clients fall silent, every accepted order has reached the book or been
\* dropped, every trade is settled and every cancelled remainder is released.
Drained ==
    /\ walQueue = << >> /\ walBatch = << >>
    /\ bookQueue = << >> /\ bookBatch = << >> /\ taker = NoOrder
    /\ settling.settled = Len(results) /\ settling.released = Len(cancels)
    /\ \A u \in Users : deposits[u] = 0

EventuallyDrained == <>[]Drained

=============================================================================
