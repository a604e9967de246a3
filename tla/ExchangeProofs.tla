--------------------------- MODULE ExchangeProofs ---------------------------
(***************************************************************************)
(* Proofs about the exchange in every life of the process: the book inside *)
(* it, its types, the accounts and reservations in memory, the tables, the *)
(* order of the calls in main, and the log.                                *)
(***************************************************************************)
EXTENDS Recovery, OrderBookProofs

\* The queues between the handlers and the book carry well-formed events.
PipelineTyped ==
    /\ walQueue \in Seq(EngineEvent) /\ walBatch \in Seq(EngineEvent)
    /\ bookQueue \in Seq(EngineEvent) /\ bookBatch \in Seq(EngineEvent)

\* However a batch comes out of the queue, it holds events of the queue.
LEMMA DequeuingsTyped ==
    ASSUME NEW q \in Seq(EngineEvent), NEW b \in Dequeuings(q)
    PROVE  b \in Seq(EngineEvent)
<1>1. PICK f \in Bijection(DOMAIN q, DOMAIN q) :
         b = [k \in DOMAIN q |-> q[f[k]]]
  BY DEF Dequeuings
<1>2. f \in [DOMAIN q -> DOMAIN q]
  BY DEF Bijection, Injection
<1>3. /\ Len(q) \in Nat /\ DOMAIN q = 1 .. Len(q)
      /\ \A k \in DOMAIN q : q[k] \in EngineEvent
  BY ElementOfSeq, LenProperties
<1>4. b \in [1 .. Len(q) -> EngineEvent]
  BY <1>1, <1>2, <1>3
<1> QED
  BY <1>3, <1>4, SeqDef

\* A dequeued event is well formed, and so is what is left.
LEMMA FirstOut ==
    ASSUME NEW q \in Seq(EngineEvent), q # << >>
    PROVE  Head(q) \in EngineEvent /\ Tail(q) \in Seq(EngineEvent)
BY HeadTailProperties

\* Only the thread of the ticker touches the book; all other steps of the
\* exchange leave its variables alone.
LEMMA OtherThreads ==
    ASSUME PipelineTyped, Handlers \/ WalThread \/ SettlementThread
    PROVE  PipelineTyped' /\ UNCHANGED vars
<1>1. CASE \E i \in OrderIds, u \in Users, tk \in Tickers, s \in Side, p \in Prices,
              q \in Quantities : Trade(i, u, tk, s, p, q)
  <2>1. PICK i \in OrderIds, u \in Users, tk \in Tickers, s \in Side, p \in Prices,
             q \in Quantities : Trade(i, u, tk, s, p, q)
    BY <1>1
  <2> DEFINE ev == [type |-> "NEW_ORDER", order_id |-> i, user_id |-> u,
                    ticker |-> tk, side |-> s, price |-> p, quantity |-> q]
  <2>2. ev \in EngineEvent
    BY DEF EngineEvent, NewOrderEvent
  <2>3. walQueue' = Append(walQueue, ev)
    BY <2>1 DEF Trade
  <2>4. UNCHANGED <<vars, walBatch, bookQueue, bookBatch>>
    BY <2>1 DEF Trade
  <2> QED
    BY <2>2, <2>3, <2>4, AppendProperties DEF PipelineTyped
<1>2. CASE \E i \in OrderIds, u \in Users, tk \in Tickers : Cancel(i, u, tk)
  <2>1. PICK i \in OrderIds, u \in Users, tk \in Tickers : Cancel(i, u, tk)
    BY <1>2
  <2> DEFINE ev == [type |-> "CANCEL_ORDER", order_id |-> i, user_id |-> u, ticker |-> tk]
  <2>2. ev \in EngineEvent
    BY DEF EngineEvent, CancelEvent
  <2>3. walQueue' = Append(walQueue, ev)
    BY <2>1 DEF Cancel
  <2>4. UNCHANGED <<vars, walBatch, bookQueue, bookBatch>>
    BY <2>1 DEF Cancel
  <2> QED
    BY <2>2, <2>3, <2>4, AppendProperties DEF PipelineTyped
<1>3. CASE \E u \in Users, a \in DepositAmounts : DepositToDb(u, a)
  BY <1>3 DEF DepositToDb, PipelineTyped
<1>4. CASE \E u \in Users : DepositToMemory(u)
  BY <1>4 DEF DepositToMemory, PipelineTyped
<1>5. CASE WalWrite
  BY <1>5, DequeuingsTyped, EmptySeq DEF WalWrite, PipelineTyped
<1>6. CASE WalDispatch
  <2>1. Head(walBatch) \in EngineEvent /\ Tail(walBatch) \in Seq(EngineEvent)
    BY <1>6, FirstOut DEF WalDispatch, PipelineTyped
  <2>2. \/ bookQueue' = Append(bookQueue, Head(walBatch))
        \/ bookQueue' = bookQueue
    BY <1>6 DEF WalDispatch
  <2>3. walBatch' = Tail(walBatch) /\ UNCHANGED <<vars, walQueue, bookBatch>>
    BY <1>6 DEF WalDispatch
  <2>4. bookQueue' \in Seq(EngineEvent)
    <3>1. bookQueue \in Seq(EngineEvent)
      BY DEF PipelineTyped
    <3> QED
      BY <3>1, <2>1, <2>2, AppendProperties
  <2> QED
    BY <2>1, <2>3, <2>4 DEF PipelineTyped
<1>7. CASE SettlementThread
  BY <1>7 DEF SettlementThread, TakeMatches, SettleInDb, SettleBuyer, SettleSeller,
              TakeCancels, SettleCancel, PipelineTyped
<1> QED
  BY <1>1, <1>2, <1>3, <1>4, <1>5, <1>6, <1>7 DEF Handlers, WalThread

\* Each step of the ticker's thread is a step of the book or leaves it alone.
LEMMA TickerThread ==
    ASSUME PipelineTyped, BookThread
    PROVE  PipelineTyped' /\ [Next]_vars
<1>1. CASE BookTake
  BY <1>1, EmptySeq DEF BookTake, PipelineTyped
<1>2. CASE BookHandles
  <2> DEFINE ev == Head(bookBatch)
  <2>1. ev \in EngineEvent /\ Tail(bookBatch) \in Seq(EngineEvent)
    BY <1>2, FirstOut DEF BookHandles, PipelineTyped
  <2>2. /\ bookBatch' = Tail(bookBatch)
        /\ UNCHANGED <<walQueue, walBatch, bookQueue>>
    BY <1>2 DEF BookHandles
  <2>3. \/ /\ ev.type = "NEW_ORDER"
           /\ NewOrder(ev.order_id, ev.user_id, ev.side, ev.price, ev.quantity)
        \/ /\ ev.type = "CANCEL_ORDER"
           /\ CancelOrder(ev.order_id, ev.user_id)
    BY <1>2 DEF BookHandles
  <2>4. /\ ev.order_id \in OrderIds /\ ev.user_id \in Users
        /\ ev.type = "NEW_ORDER" =>
              ev.side \in Side /\ ev.price \in Prices /\ ev.quantity \in Quantities
    BY <2>1 DEF EngineEvent, NewOrderEvent, CancelEvent
  <2> HIDE DEF ev
  <2>5. Next
    BY <2>3, <2>4 DEF Next
  <2> QED
    BY <2>1, <2>2, <2>5 DEF PipelineTyped
<1>3. CASE BookMatches
  BY <1>3 DEF BookMatches, MatchingLoop, Next, exVars, PipelineTyped
<1>4. CASE BookPushes
  BY <1>4 DEF BookPushes, PipelineTyped
<1> QED
  BY <1>1, <1>2, <1>3, <1>4 DEF BookThread

\* The book in the exchange is the book of OrderBook: handlers, the WAL thread and
\* settlement never touch it, and what its thread hands to it is well formed.
LEMMA BookUndisturbed == ExSpec => Spec
<1>1. ExInit => Init /\ PipelineTyped
  BY EmptySeq DEF ExInit, PipelineTyped
<1>2. PipelineTyped /\ [ExNext]_allVars => PipelineTyped' /\ [Next]_vars
  <2> SUFFICES ASSUME PipelineTyped, [ExNext]_allVars
               PROVE  PipelineTyped' /\ [Next]_vars
    OBVIOUS
  <2>1. CASE Handlers \/ WalThread \/ SettlementThread
    BY <2>1, OtherThreads
  <2>2. CASE BookThread
    BY <2>2, TickerThread
  <2>3. CASE UNCHANGED allVars
    BY <2>3 DEF allVars, exVars, PipelineTyped
  <2> QED
    BY <2>1, <2>2, <2>3 DEF ExNext
<1> QED
  BY <1>1, <1>2, PTL DEF ExSpec, Spec

\* The inductive invariant of the book holds in the exchange, in the middle of any
\* interleaving of its threads.
THEOREM BookCorrectInContext == ExSpec => []BookInv
BY BookUndisturbed, BookCorrect

\* Also inside the exchange trading is in strict price-time priority.
THEOREM PromiseKeptInContext == ExSpec => KeepsPromise
BY BookUndisturbed, BookKeepsPromise

-----------------------------------------------------------------------------
(***************************************************************************)
(* Types, and where settlement is in its loop.                             *)
(***************************************************************************)

SettlingRecord ==
    [at : {"matches", "cancels"}, matches : Nat, step : 0 .. 5,
     settled : Nat, cancels : Nat, released : Nat]

\* The settlement thread never counts records that have not been handed to it, and is
\* in the middle of a trade only while it has one.
SettlingOK ==
    /\ settling \in SettlingRecord
    /\ settling.settled + settling.matches =< pushed
    /\ settling.released + settling.cancels =< Len(cancels)
    /\ settling.at # "matches" => settling.matches = 0
    /\ settling.at # "cancels" => settling.cancels = 0
    /\ settling.matches = 0 => settling.step = 0

MoneyTyped ==
    /\ account \in [Users -> Account]
    /\ db \in [Users -> [balance : Int, holding : Int]]
    /\ deposits \in [Users -> DepositAmounts \cup {0}]
    /\ unloaded \in [Users -> Int]

CountsTyped ==
    /\ issued \subseteq OrderIds
    /\ deposited \in 0 .. MaxDeposited
    /\ cancelCalls \in 0 .. MaxCancelCalls
    /\ pushed \in 0 .. Len(results)
    /\ dropped \subseteq NewOrderEvent
    /\ wrapped \in BOOLEAN

ExTypes == BookInv /\ PipelineTyped /\ SettlingOK /\ MoneyTyped /\ CountsTyped

LEMMA ExTypesImplies == ExTypes => ExTypeOK
<1> SUFFICES ASSUME ExTypes PROVE ExTypeOK
  OBVIOUS
<1>1. Len(results) \in Nat /\ Len(cancels) \in Nat
  BY LenProperties DEF ExTypes, BookInv, TypeOK
<1>2. settling \in [at : {"matches", "cancels"}, matches : Nat, step : 0 .. 5,
                    settled : 0 .. pushed, cancels : Nat, released : 0 .. Len(cancels)]
  BY <1>1 DEF ExTypes, SettlingOK, SettlingRecord, CountsTyped
<1> QED BY <1>2 DEF ExTypes, ExTypeOK, PipelineTyped, MoneyTyped, CountsTyped

\* The book only ever adds records.
LEMMA RecordsGrow ==
    ASSUME BookInv, [Next]_vars
    PROVE  /\ Len(results) \in Nat /\ Len(results') \in Nat /\ Len(results') >= Len(results)
           /\ \A k \in 1 .. Len(results) : results'[k] = results[k]
           /\ Len(cancels) \in Nat /\ Len(cancels') \in Nat /\ Len(cancels') >= Len(cancels)
           /\ \A k \in 1 .. Len(cancels) : cancels'[k] = cancels[k]
<1>1. BookInv'
  BY StepBookInv
<1>2. /\ results \in Seq(MatchRecord) /\ results' \in Seq(MatchRecord)
      /\ cancels \in Seq(CancelRecord) /\ cancels' \in Seq(CancelRecord)
  BY <1>1 DEF BookInv, TypeOK
<1>3. \/ results' = results
      \/ \E r : results' = Append(results, r)
  BY DEF Next, vars, NewOrder, Fill, Rest, Exhausted, CancelOrder
<1>4. \/ cancels' = cancels
      \/ \E r : cancels' = Append(cancels, r)
  BY DEF Next, vars, NewOrder, Fill, Rest, Exhausted, CancelOrder
<1>5. ASSUME NEW S, NEW q \in Seq(S), NEW r PROVE
         /\ Len(q) \in Nat /\ Len(Append(q, r)) = Len(q) + 1
         /\ \A k \in 1 .. Len(q) : Append(q, r)[k] = q[k]
  OBVIOUS
<1>6. /\ Len(results) \in Nat /\ Len(results') \in Nat /\ Len(results') >= Len(results)
      /\ \A k \in 1 .. Len(results) : results'[k] = results[k]
  <2>1. CASE results' = results
    BY <1>2, <2>1, LenProperties
  <2>2. ASSUME NEW r, results' = Append(results, r)
        PROVE  /\ Len(results) \in Nat /\ Len(results') = Len(results) + 1
               /\ \A k \in 1 .. Len(results) : results'[k] = results[k]
    BY <1>2, <1>5, <2>2
  <2> QED BY <1>3, <2>1, <2>2
<1>7. /\ Len(cancels) \in Nat /\ Len(cancels') \in Nat /\ Len(cancels') >= Len(cancels)
      /\ \A k \in 1 .. Len(cancels) : cancels'[k] = cancels[k]
  <2>1. CASE cancels' = cancels
    BY <1>2, <2>1, LenProperties
  <2>2. ASSUME NEW r, cancels' = Append(cancels, r)
        PROVE  /\ Len(cancels) \in Nat /\ Len(cancels') = Len(cancels) + 1
               /\ \A k \in 1 .. Len(cancels) : cancels'[k] = cancels[k]
    BY <1>2, <1>5, <2>2
  <2> QED BY <1>4, <2>1, <2>2
<1> QED BY <1>6, <1>7

\* A process that has just started, for the first time or after a crash: nothing is in
\* memory but the accounts it has loaded.
FreshLife ==
    /\ Init
    /\ issued \subseteq OrderIds
    /\ db \in [Users -> [balance : Int, holding : Int]]
    /\ ~ wrapped => \A u \in Users : db[u].balance >= 0 /\ db[u].holding >= 0
    /\ account = [u \in Users |-> Loaded(db[u])]
    /\ deposits = [u \in Users |-> 0]
    /\ deposited \in 0 .. MaxDeposited
    /\ cancelCalls \in 0 .. MaxCancelCalls
    /\ walQueue = << >> /\ walBatch = << >>
    /\ bookQueue = << >> /\ bookBatch = << >>
    /\ pushed = 0
    /\ settling = TopOfLoop
    /\ dropped = {}
    /\ unloaded = [u \in Users |-> PassedOver(db[u])]
    /\ wrapped \in BOOLEAN

LEMMA InitIsFresh == ExInit => FreshLife
<1> SUFFICES ASSUME ExInit PROVE FreshLife
  OBVIOUS
<1>1. \A u \in Users : OpeningBalance[u] \in Nat /\ OpeningHolding[u] \in Nat
  BY ExchangeAssumption
<1>2. /\ db \in [Users -> [balance : Int, holding : Int]]
      /\ \A u \in Users : db[u].balance >= 0 /\ db[u].holding >= 0
  BY <1>1 DEF ExInit
<1>3. deposited \in 0 .. MaxDeposited /\ cancelCalls \in 0 .. MaxCancelCalls
  BY ExchangeAssumption DEF ExInit
<1> QED BY <1>2, <1>3 DEF ExInit, FreshLife

\* What a fresh life loads, account by account.
LEMMA FreshAccount ==
    ASSUME FreshLife, NEW u \in Users
    PROVE  /\ db[u] \in [balance : Int, holding : Int]
           /\ db[u].balance \in Int /\ db[u].holding \in Int
           /\ ~ wrapped => db[u].balance >= 0 /\ db[u].holding >= 0
           /\ account[u] \in Account
           /\ account[u].available_balance = db[u].balance
           /\ account[u].available_stock = (IF TickersKnown THEN db[u].holding ELSE 0)
           /\ account[u].frozen_balance = 0 /\ account[u].frozen_stock = 0
           /\ account[u].unlisted_stock = 0
           /\ unloaded[u] = (IF TickersKnown THEN 0 ELSE db[u].holding)
<1>1. PICK r : r = db[u] /\ r \in [balance : Int, holding : Int]
  BY DEF FreshLife
<1>2. r.balance \in Int /\ r.holding \in Int
  BY <1>1
<1>3. account[u] = Loaded(r) /\ unloaded[u] = PassedOver(r)
  BY <1>1 DEF FreshLife
<1>4. ~ wrapped => r.balance >= 0 /\ r.holding >= 0
  BY <1>1 DEF FreshLife
<1> QED BY <1>1, <1>2, <1>3, <1>4 DEF Loaded, PassedOver, Account

LEMMA FreshExTypes == FreshLife => ExTypes
<1> SUFFICES ASSUME FreshLife PROVE ExTypes
  OBVIOUS
<1>1. BookInv /\ results = << >> /\ cancels = << >>
  BY InitBookInv DEF FreshLife, Init
<1>2. PipelineTyped
  BY EmptySeq DEF FreshLife, PipelineTyped
<1>3. SettlingOK
  BY <1>1 DEF FreshLife, TopOfLoop, SettlingOK, SettlingRecord
<1>4. MoneyTyped
  <2>1. \A u \in Users : account[u] \in Account /\ unloaded[u] \in Int
    BY FreshAccount
  <2>2. account \in [Users -> Account] /\ unloaded \in [Users -> Int]
    BY <2>1 DEF FreshLife
  <2>3. /\ db \in [Users -> [balance : Int, holding : Int]]
        /\ deposits \in [Users -> DepositAmounts \cup {0}]
    BY DEF FreshLife
  <2> QED BY <2>2, <2>3 DEF MoneyTyped
<1>5. CountsTyped
  BY <1>1 DEF FreshLife, CountsTyped
<1> QED BY <1>1, <1>2, <1>3, <1>4, <1>5 DEF ExTypes

\* A conversion gives a number, and the number itself exactly when it fits.
LEMMA SignedTyped ==
    ASSUME NEW x \in Int, NEW n \in Nat \ {0}
    PROVE  Signed(x, n) \in Int
<1>1. x % n \in Int
  OBVIOUS
<1> QED BY <1>1 DEF Signed

LEMMA SignedExact ==
    ASSUME NEW x \in Nat, NEW n \in Nat \ {0}
    PROVE  Signed(x, n) = x <=> 2 * x < n
<1>1. x % n \in 0 .. n - 1
  OBVIOUS
<1>2. x < n => x % n = x
  OBVIOUS
<1> QED BY <1>1, <1>2 DEF Signed

\* What is reserved for an order is a number, and its worth when that fits the type.
Fits(s, p, q) == IF s = "BUY" THEN 2 * (p * q) < LongSpace ELSE 2 * q < IntSpace

LEMMA WorthTyped ==
    ASSUME NEW s, NEW p \in Nat, NEW q \in Nat
    PROVE  Worth(s, p, q) \in Nat
<1>1. p * q \in Nat
  OBVIOUS
<1> QED BY <1>1 DEF Worth

LEMMA AmountTyped ==
    ASSUME NEW s, NEW p \in Nat, NEW q \in Nat
    PROVE  /\ Amount(s, p, q) \in Int
           /\ Amount(s, p, q) = Worth(s, p, q) <=> Fits(s, p, q)
<1>1. PICK x \in Nat : x = p * q
  <2>1. p * q \in Nat
    OBVIOUS
  <2> QED BY <2>1
<1>2. /\ AsLong(x) \in Int /\ (AsLong(x) = x <=> 2 * x < LongSpace)
      /\ AsInt(q) \in Int /\ (AsInt(q) = q <=> 2 * q < IntSpace)
  BY ExchangeAssumption, SignedTyped, SignedExact DEF AsLong, AsInt
<1> QED BY <1>1, <1>2 DEF Amount, Worth, Fits

\* Less of an order that fits does, too.
LEMMA FitsLess ==
    ASSUME NEW s, NEW p \in Nat, NEW q \in Nat, NEW r \in Nat, r =< q, Fits(s, p, q)
    PROVE  Fits(s, p, r)
<1>1. p * q \in Nat /\ p * r \in Nat /\ p * r =< p * q
  <2>1. PICK d \in Nat : q = r + d
    <3>1. q - r \in Nat /\ q = r + (q - r)
      OBVIOUS
    <3> QED BY <3>1
  <2>2. p * r \in Nat /\ p * d \in Nat /\ p * (r + d) = p * r + p * d
    OBVIOUS
  <2> QED BY <2>1, <2>2
<1>2. LongSpace \in Nat /\ IntSpace \in Nat
  BY ExchangeAssumption
<1> QED BY <1>1, <1>2 DEF Fits

\* The trade that settlement is at: its record, and the money that changes hands.
LEMMA RecTyped ==
    ASSUME ExTypes, settling.matches > 0
    PROVE  /\ settling.settled + 1 \in 1 .. Len(results)
           /\ rec.buyer \in Users /\ rec.seller \in Users
           /\ rec.match_quantity \in Nat /\ rec.match_price \in Nat
           /\ rec.buyer_expected_price \in Nat
           /\ rec.match_price =< rec.buyer_expected_price
           /\ sell_money \in Int /\ refund_money \in Int /\ shares \in Int
<1>1. Len(results) \in Nat /\ results \in Seq(MatchRecord)
  BY LenProperties DEF ExTypes, BookInv, TypeOK
<1>2. settling.settled + 1 \in 1 .. Len(results)
  BY <1>1 DEF ExTypes, SettlingOK, SettlingRecord, CountsTyped
<1>3. rec \in MatchRecord
  BY <1>1, <1>2, ElementOfSeq DEF rec
<1>4. /\ rec.buyer \in Users /\ rec.seller \in Users
      /\ rec.match_quantity \in Nat /\ rec.match_price \in Nat
      /\ rec.buyer_expected_price \in Nat
  BY <1>3, BookAssumption DEF MatchRecord
<1>5. rec.match_price =< rec.buyer_expected_price
  BY <1>1, <1>2, LenProperties DEF ExTypes, BookInv, LimitsRespected, rec
<1>6. /\ rec.match_price * rec.match_quantity \in Int
      /\ (rec.buyer_expected_price - rec.match_price) * rec.match_quantity \in Int
      /\ rec.match_quantity \in Int
  <2>1. \A p, q \in Int : p * q \in Int
    OBVIOUS
  <2>2. rec.buyer_expected_price - rec.match_price \in Int
    BY <1>4
  <2> QED BY <1>4, <2>1, <2>2
<1>7. sell_money \in Int /\ refund_money \in Int /\ shares \in Int
  BY <1>6, SignedTyped, ExchangeAssumption
  DEF sell_money, refund_money, shares, AsLong, AsInt
<1> QED BY <1>2, <1>4, <1>5, <1>7

\* When its quantity fits an int and the buyer's reservation for it an int64_t, the parts
\* of the reservation are exact.
LEMMA RecExact ==
    ASSUME ExTypes, settling.matches > 0,
           Fits("BUY", rec.buyer_expected_price, rec.match_quantity),
           2 * rec.match_quantity < IntSpace
    PROVE  /\ sell_money \in Nat /\ refund_money \in Nat
           /\ sell_money + refund_money = rec.buyer_expected_price * rec.match_quantity
           /\ shares = rec.match_quantity
<1>1. /\ rec.match_quantity \in Nat /\ rec.match_price \in Nat
      /\ rec.buyer_expected_price \in Nat
      /\ rec.match_price =< rec.buyer_expected_price
  BY RecTyped
<1>2. \A p, b, q \in Nat : p =< b => /\ p * q \in Nat /\ (b - p) * q \in Nat
                                     /\ p * q + (b - p) * q = b * q
  <2> SUFFICES ASSUME NEW p \in Nat, NEW b \in Nat, NEW q \in Nat, p =< b
               PROVE  p * q \in Nat /\ (b - p) * q \in Nat /\ p * q + (b - p) * q = b * q
    OBVIOUS
  <2>1. PICK d \in Nat : b = p + d
    <3>1. b - p \in Nat /\ b = p + (b - p)
      OBVIOUS
    <3> QED BY <3>1
  <2>2. b - p = d
    BY <2>1
  <2>3. p * q \in Nat /\ d * q \in Nat /\ (p + d) * q = p * q + d * q
    OBVIOUS
  <2> QED BY <2>1, <2>2, <2>3
<1>3. PICK x \in Nat, y \in Nat :
         /\ x = rec.match_price * rec.match_quantity
         /\ y = (rec.buyer_expected_price - rec.match_price) * rec.match_quantity
         /\ x + y = rec.buyer_expected_price * rec.match_quantity
  <2>1. PICK p \in Nat, b \in Nat, q \in Nat :
           /\ p = rec.match_price /\ b = rec.buyer_expected_price /\ q = rec.match_quantity
           /\ p =< b
    BY <1>1
  <2>2. p * q \in Nat /\ (b - p) * q \in Nat /\ p * q + (b - p) * q = b * q
    BY <1>2, <2>1
  <2> QED BY <2>1, <2>2, Zenon
<1>4. 2 * (x + y) < LongSpace
  BY <1>3 DEF Fits
<1>5. 2 * x < LongSpace /\ 2 * y < LongSpace
  BY <1>4, ExchangeAssumption
<1>6. AsLong(x) = x /\ AsLong(y) = y /\ shares = rec.match_quantity
  BY <1>1, <1>5, SignedExact, ExchangeAssumption DEF AsLong, AsInt, shares
<1>7. sell_money = AsLong(x) /\ refund_money = AsLong(y)
  BY <1>3 DEF sell_money, refund_money
<1> QED BY <1>3, <1>6, <1>7

\* The cancel that settlement is at.
LEMMA CancelTyped ==
    ASSUME ExTypes, settling.cancels > 0
    PROVE  /\ settling.released + 1 \in 1 .. Len(cancels)
           /\ LET c == cancels[settling.released + 1]
              IN  /\ c.user_id \in Users /\ c.side \in Side
                  /\ c.price \in Nat /\ c.quantity \in Nat
                  /\ Amount("BUY", c.price, c.quantity) \in Int
                  /\ Amount("SELL", c.price, c.quantity) \in Int
<1>1. Len(cancels) \in Nat /\ cancels \in Seq(CancelRecord)
  BY LenProperties DEF ExTypes, BookInv, TypeOK
<1>2. settling.released + 1 \in 1 .. Len(cancels)
  BY <1>1 DEF ExTypes, SettlingOK, SettlingRecord
<1> DEFINE c == cancels[settling.released + 1]
<1>3. c \in CancelRecord
  BY <1>1, <1>2, ElementOfSeq
<1> HIDE DEF c
<1>4. c.user_id \in Users /\ c.side \in Side /\ c.price \in Nat /\ c.quantity \in Nat
  BY <1>3, BookAssumption DEF CancelRecord
<1>5. Amount("BUY", c.price, c.quantity) \in Int /\ Amount("SELL", c.price, c.quantity) \in Int
  BY <1>4, AmountTyped
<1> QED BY <1>2, <1>4, <1>5 DEF c

-----------------------------------------------------------------------------
\* What each operation on an account does to its four fields.
AccountIs(a, ab, fb, as, fs) ==
    /\ a \in Account
    /\ a.available_balance = ab /\ a.frozen_balance = fb
    /\ a.available_stock = as /\ a.frozen_stock = fs

LEMMA AccountOps ==
    ASSUME NEW a \in Account, NEW x \in Int, NEW y \in Int, NEW z \in Int
    PROVE  /\ a.available_balance \in Int /\ a.frozen_balance \in Int
           /\ a.available_stock \in Int /\ a.frozen_stock \in Int
           /\ AccountIs(FreezeBalance(a, x), a.available_balance - x, a.frozen_balance + x,
                        a.available_stock, a.frozen_stock)
           /\ AccountIs(FreezeStock(a, x), a.available_balance, a.frozen_balance,
                        a.available_stock - x, a.frozen_stock + x)
           /\ AccountIs(FreezeUnlisted(a, x), a.available_balance, a.frozen_balance,
                        a.available_stock, a.frozen_stock)
           /\ AccountIs(CommitBuy(a, x, y, z), a.available_balance + z,
                        a.frozen_balance - (x + z), a.available_stock + y, a.frozen_stock)
           /\ AccountIs(CommitSell(a, x, y), a.available_balance + x, a.frozen_balance,
                        a.available_stock, a.frozen_stock - y)
           /\ AccountIs(UnfreezeBalance(a, x), a.available_balance + x, a.frozen_balance - x,
                        a.available_stock, a.frozen_stock)
           /\ AccountIs(UnfreezeStock(a, x), a.available_balance, a.frozen_balance,
                        a.available_stock + x, a.frozen_stock - x)
           /\ AccountIs(AddBalance(a, x), a.available_balance + x, a.frozen_balance,
                        a.available_stock, a.frozen_stock)
<1>1. /\ a.available_balance \in Int /\ a.frozen_balance \in Int
      /\ a.available_stock \in Int /\ a.frozen_stock \in Int
  BY DEF Account
<1>2. AccountIs(FreezeBalance(a, x), a.available_balance - x, a.frozen_balance + x,
                a.available_stock, a.frozen_stock)
  <2>1. a.available_balance - x \in Int /\ a.frozen_balance + x \in Int
    BY <1>1
  <2>2. FreezeBalance(a, x) \in Account
    BY <1>1, <2>1 DEF FreezeBalance, Account
  <2>3. /\ FreezeBalance(a, x).available_balance = a.available_balance - x
        /\ FreezeBalance(a, x).frozen_balance = a.frozen_balance + x
        /\ FreezeBalance(a, x).available_stock = a.available_stock
        /\ FreezeBalance(a, x).frozen_stock = a.frozen_stock
    BY DEF FreezeBalance, Account
  <2> QED BY <2>2, <2>3 DEF AccountIs
<1>3. AccountIs(FreezeStock(a, x), a.available_balance, a.frozen_balance,
                a.available_stock - x, a.frozen_stock + x)
  <2>1. a.available_stock - x \in Int /\ a.frozen_stock + x \in Int
    BY <1>1
  <2>2. FreezeStock(a, x) \in Account
    BY <1>1, <2>1 DEF FreezeStock, Account
  <2>3. /\ FreezeStock(a, x).available_balance = a.available_balance
        /\ FreezeStock(a, x).frozen_balance = a.frozen_balance
        /\ FreezeStock(a, x).available_stock = a.available_stock - x
        /\ FreezeStock(a, x).frozen_stock = a.frozen_stock + x
    BY DEF FreezeStock, Account
  <2> QED BY <2>2, <2>3 DEF AccountIs
<1>4. AccountIs(CommitBuy(a, x, y, z), a.available_balance + z, a.frozen_balance - (x + z),
                a.available_stock + y, a.frozen_stock)
  <2>1. /\ a.available_balance + z \in Int /\ a.frozen_balance - (x + z) \in Int
        /\ a.available_stock + y \in Int
    BY <1>1
  <2>2. CommitBuy(a, x, y, z) \in Account
    BY <1>1, <2>1 DEF CommitBuy, Account
  <2>3. /\ CommitBuy(a, x, y, z).available_balance = a.available_balance + z
        /\ CommitBuy(a, x, y, z).frozen_balance = a.frozen_balance - (x + z)
        /\ CommitBuy(a, x, y, z).available_stock = a.available_stock + y
        /\ CommitBuy(a, x, y, z).frozen_stock = a.frozen_stock
    BY DEF CommitBuy, Account
  <2> QED BY <2>2, <2>3 DEF AccountIs
<1>5. AccountIs(CommitSell(a, x, y), a.available_balance + x, a.frozen_balance,
                a.available_stock, a.frozen_stock - y)
  <2>1. a.available_balance + x \in Int /\ a.frozen_stock - y \in Int
    BY <1>1
  <2>2. CommitSell(a, x, y) \in Account
    BY <1>1, <2>1 DEF CommitSell, Account
  <2>3. /\ CommitSell(a, x, y).available_balance = a.available_balance + x
        /\ CommitSell(a, x, y).frozen_balance = a.frozen_balance
        /\ CommitSell(a, x, y).available_stock = a.available_stock
        /\ CommitSell(a, x, y).frozen_stock = a.frozen_stock - y
    BY DEF CommitSell, Account
  <2> QED BY <2>2, <2>3 DEF AccountIs
<1>6. AccountIs(UnfreezeBalance(a, x), a.available_balance + x, a.frozen_balance - x,
                a.available_stock, a.frozen_stock)
  <2>1. a.available_balance + x \in Int /\ a.frozen_balance - x \in Int
    BY <1>1
  <2>2. UnfreezeBalance(a, x) \in Account
    BY <1>1, <2>1 DEF UnfreezeBalance, Account
  <2>3. /\ UnfreezeBalance(a, x).available_balance = a.available_balance + x
        /\ UnfreezeBalance(a, x).frozen_balance = a.frozen_balance - x
        /\ UnfreezeBalance(a, x).available_stock = a.available_stock
        /\ UnfreezeBalance(a, x).frozen_stock = a.frozen_stock
    BY DEF UnfreezeBalance, Account
  <2> QED BY <2>2, <2>3 DEF AccountIs
<1>7. AccountIs(UnfreezeStock(a, x), a.available_balance, a.frozen_balance,
                a.available_stock + x, a.frozen_stock - x)
  <2>1. a.available_stock + x \in Int /\ a.frozen_stock - x \in Int
    BY <1>1
  <2>2. UnfreezeStock(a, x) \in Account
    BY <1>1, <2>1 DEF UnfreezeStock, Account
  <2>3. /\ UnfreezeStock(a, x).available_balance = a.available_balance
        /\ UnfreezeStock(a, x).frozen_balance = a.frozen_balance
        /\ UnfreezeStock(a, x).available_stock = a.available_stock + x
        /\ UnfreezeStock(a, x).frozen_stock = a.frozen_stock - x
    BY DEF UnfreezeStock, Account
  <2> QED BY <2>2, <2>3 DEF AccountIs
<1>8. AccountIs(AddBalance(a, x), a.available_balance + x, a.frozen_balance,
                a.available_stock, a.frozen_stock)
  <2>1. a.available_balance + x \in Int
    BY <1>1
  <2>2. AddBalance(a, x) \in Account
    BY <1>1, <2>1 DEF AddBalance, Account
  <2>3. /\ AddBalance(a, x).available_balance = a.available_balance + x
        /\ AddBalance(a, x).frozen_balance = a.frozen_balance
        /\ AddBalance(a, x).available_stock = a.available_stock
        /\ AddBalance(a, x).frozen_stock = a.frozen_stock
    BY DEF AddBalance, Account
  <2> QED BY <2>2, <2>3 DEF AccountIs
<1>9. AccountIs(FreezeUnlisted(a, x), a.available_balance, a.frozen_balance,
                a.available_stock, a.frozen_stock)
  <2>1. a.unlisted_stock - x \in Int
    BY DEF Account
  <2>2. FreezeUnlisted(a, x) \in Account
    BY <1>1, <2>1 DEF FreezeUnlisted, Account
  <2>3. /\ FreezeUnlisted(a, x).available_balance = a.available_balance
        /\ FreezeUnlisted(a, x).frozen_balance = a.frozen_balance
        /\ FreezeUnlisted(a, x).available_stock = a.available_stock
        /\ FreezeUnlisted(a, x).frozen_stock = a.frozen_stock
    BY DEF FreezeUnlisted, Account
  <2> QED BY <2>2, <2>3 DEF AccountIs
<1> QED BY <1>1, <1>2, <1>3, <1>4, <1>5, <1>6, <1>7, <1>8, <1>9

\* Only a sell order for an unknown ticker touches the stock of that ticker.
LEMMA UnlistedKept ==
    ASSUME NEW a \in Account, NEW x, NEW y, NEW z
    PROVE  /\ a.unlisted_stock \in Int
           /\ FreezeBalance(a, x).unlisted_stock = a.unlisted_stock
           /\ FreezeStock(a, x).unlisted_stock = a.unlisted_stock
           /\ CommitBuy(a, x, y, z).unlisted_stock = a.unlisted_stock
           /\ CommitSell(a, x, y).unlisted_stock = a.unlisted_stock
           /\ UnfreezeBalance(a, x).unlisted_stock = a.unlisted_stock
           /\ UnfreezeStock(a, x).unlisted_stock = a.unlisted_stock
           /\ AddBalance(a, x).unlisted_stock = a.unlisted_stock
           /\ FreezeUnlisted(a, x).unlisted_stock = a.unlisted_stock - x
<1>1. a.unlisted_stock \in Int
  BY DEF Account
<1>2. /\ FreezeBalance(a, x).unlisted_stock = a.unlisted_stock
      /\ FreezeStock(a, x).unlisted_stock = a.unlisted_stock
  BY DEF Account, FreezeBalance, FreezeStock
<1>3. /\ CommitBuy(a, x, y, z).unlisted_stock = a.unlisted_stock
      /\ CommitSell(a, x, y).unlisted_stock = a.unlisted_stock
  BY DEF Account, CommitBuy, CommitSell
<1>4. /\ UnfreezeBalance(a, x).unlisted_stock = a.unlisted_stock
      /\ UnfreezeStock(a, x).unlisted_stock = a.unlisted_stock
  BY DEF Account, UnfreezeBalance, UnfreezeStock
<1>5. /\ AddBalance(a, x).unlisted_stock = a.unlisted_stock
      /\ FreezeUnlisted(a, x).unlisted_stock = a.unlisted_stock - x
  BY DEF Account, AddBalance, FreezeUnlisted
<1> QED BY <1>1, <1>2, <1>3, <1>4, <1>5

Rows == [balance : Int, holding : Int]

\* What each statement does to a row.
LEMMA RowOps ==
    ASSUME NEW r \in Rows, NEW x \in Int
    PROVE  /\ r.balance \in Int /\ r.holding \in Int
           /\ /\ UpdateBalance(r, x) \in Rows
              /\ UpdateBalance(r, x).balance = r.balance + x
              /\ UpdateBalance(r, x).holding = r.holding
           /\ /\ DeductBalance(r, x) \in Rows
              /\ DeductBalance(r, x).balance =
                    IF r.balance >= x THEN r.balance - x ELSE r.balance
              /\ DeductBalance(r, x).holding = r.holding
           /\ /\ UpdateStockHolding(r, x) \in Rows
              /\ UpdateStockHolding(r, x).balance = r.balance
              /\ UpdateStockHolding(r, x).holding = r.holding + x
           /\ /\ DeductStockHolding(r, x) \in Rows
              /\ DeductStockHolding(r, x).balance = r.balance
              /\ DeductStockHolding(r, x).holding =
                    IF r.holding >= x THEN r.holding - x ELSE r.holding
<1>1. r.balance \in Int /\ r.holding \in Int
  BY DEF Rows
<1>2. /\ UpdateBalance(r, x) \in Rows
      /\ UpdateBalance(r, x).balance = r.balance + x
      /\ UpdateBalance(r, x).holding = r.holding
  BY <1>1 DEF Rows, UpdateBalance
<1>3. /\ DeductBalance(r, x) \in Rows
      /\ DeductBalance(r, x).balance = IF r.balance >= x THEN r.balance - x ELSE r.balance
      /\ DeductBalance(r, x).holding = r.holding
  BY <1>1 DEF Rows, DeductBalance
<1>4. /\ UpdateStockHolding(r, x) \in Rows
      /\ UpdateStockHolding(r, x).balance = r.balance
      /\ UpdateStockHolding(r, x).holding = r.holding + x
  BY <1>1 DEF Rows, UpdateStockHolding
<1>5. /\ DeductStockHolding(r, x) \in Rows
      /\ DeductStockHolding(r, x).balance = r.balance
      /\ DeductStockHolding(r, x).holding =
            IF r.holding >= x THEN r.holding - x ELSE r.holding
  BY <1>1 DEF Rows, DeductStockHolding
<1> QED BY <1>1, <1>2, <1>3, <1>4, <1>5

\* What each step of settlement does to its place in the loop.
SettlingIs(r, at, matches, step, settled, cancelled, released) ==
    /\ r \in SettlingRecord
    /\ r.at = at /\ r.matches = matches /\ r.step = step /\ r.settled = settled
    /\ r.cancels = cancelled /\ r.released = released

LEMMA SettlingMoves ==
    ASSUME ExTypes
    PROVE  /\ TakeMatches => SettlingIs(settling', "matches", pushed - settling.settled, settling.step,
                    settling.settled, settling.cancels, settling.released)
           /\ SettleInDb => SettlingIs(settling', settling.at, settling.matches, settling.step + 1,
                    settling.settled, settling.cancels, settling.released)
           /\ SettleBuyer => SettlingIs(settling', settling.at, settling.matches, 5,
                    settling.settled, settling.cancels, settling.released)
           /\ SettleSeller => SettlingIs(settling', settling.at, settling.matches - 1, 0,
                    settling.settled + 1, settling.cancels, settling.released)
           /\ TakeCancels => SettlingIs(settling', "cancels", settling.matches, settling.step,
                    settling.settled, Len(cancels) - settling.released, settling.released)
           /\ SettleCancel => SettlingIs(settling', settling.at, settling.matches, settling.step,
                    settling.settled, settling.cancels - 1, settling.released + 1)
<1>1. /\ settling \in SettlingRecord
      /\ settling.at \in {"matches", "cancels"} /\ settling.step \in 0 .. 5
      /\ settling.matches \in Nat /\ settling.settled \in Nat /\ settling.cancels \in Nat
      /\ settling.released \in Nat /\ Len(cancels) \in Nat
      /\ settling.settled + settling.matches =< pushed /\ pushed \in Nat
      /\ settling.released + settling.cancels =< Len(cancels)
  BY LenProperties DEF ExTypes, SettlingOK, SettlingRecord, CountsTyped, BookInv, TypeOK
<1>2. ASSUME TakeMatches
      PROVE  SettlingIs(settling', "matches", pushed - settling.settled, settling.step,
                    settling.settled, settling.cancels, settling.released)
  <2>1. settling' = [settling EXCEPT !.at = "matches", !.matches = pushed - settling.settled]
    BY <1>2 DEF TakeMatches
  <2>2. pushed - settling.settled \in Nat
    BY <1>1, <1>2 DEF TakeMatches
  <2>3. settling' \in SettlingRecord
    BY <1>1, <2>1, <2>2 DEF SettlingRecord
  <2>4. /\ settling'.at = "matches"
        /\ settling'.matches = pushed - settling.settled
        /\ settling'.step = settling.step
        /\ settling'.settled = settling.settled
        /\ settling'.cancels = settling.cancels
        /\ settling'.released = settling.released
    BY <1>1, <2>1 DEF SettlingRecord
  <2> QED BY <2>3, <2>4 DEF SettlingIs
<1>3. ASSUME SettleInDb
      PROVE  SettlingIs(settling', settling.at, settling.matches, settling.step + 1,
                    settling.settled, settling.cancels, settling.released)
  <2>1. settling' = [settling EXCEPT !.step = settling.step + 1]
    BY <1>3 DEF SettleInDb
  <2>2. settling.step + 1 \in 0 .. 5
    BY <1>1, <1>3 DEF SettleInDb, Statement
  <2>3. settling' \in SettlingRecord
    BY <1>1, <2>1, <2>2 DEF SettlingRecord
  <2>4. /\ settling'.at = settling.at
        /\ settling'.matches = settling.matches
        /\ settling'.step = settling.step + 1
        /\ settling'.settled = settling.settled
        /\ settling'.cancels = settling.cancels
        /\ settling'.released = settling.released
    BY <1>1, <2>1 DEF SettlingRecord
  <2> QED BY <2>3, <2>4 DEF SettlingIs
<1>4. ASSUME SettleBuyer
      PROVE  SettlingIs(settling', settling.at, settling.matches, 5,
                    settling.settled, settling.cancels, settling.released)
  <2>1. settling' = [settling EXCEPT !.step = 5]
    BY <1>4 DEF SettleBuyer
  <2>2. 5 \in 0 .. 5
    BY <1>1, <1>4 DEF SettleBuyer
  <2>3. settling' \in SettlingRecord
    BY <1>1, <2>1, <2>2 DEF SettlingRecord
  <2>4. /\ settling'.at = settling.at
        /\ settling'.matches = settling.matches
        /\ settling'.step = 5
        /\ settling'.settled = settling.settled
        /\ settling'.cancels = settling.cancels
        /\ settling'.released = settling.released
    BY <1>1, <2>1 DEF SettlingRecord
  <2> QED BY <2>3, <2>4 DEF SettlingIs
<1>5. ASSUME SettleSeller
      PROVE  SettlingIs(settling', settling.at, settling.matches - 1, 0,
                    settling.settled + 1, settling.cancels, settling.released)
  <2>1. settling' = [settling EXCEPT !.matches = settling.matches - 1, !.step = 0, !.settled = settling.settled + 1]
    BY <1>5 DEF SettleSeller
  <2>2. settling.matches - 1 \in Nat /\ 0 \in 0 .. 5 /\ settling.settled + 1 \in Nat
    BY <1>1, <1>5 DEF SettleSeller
  <2>3. settling' \in SettlingRecord
    BY <1>1, <2>1, <2>2 DEF SettlingRecord
  <2>4. /\ settling'.at = settling.at
        /\ settling'.matches = settling.matches - 1
        /\ settling'.step = 0
        /\ settling'.settled = settling.settled + 1
        /\ settling'.cancels = settling.cancels
        /\ settling'.released = settling.released
    BY <1>1, <2>1 DEF SettlingRecord
  <2> QED BY <2>3, <2>4 DEF SettlingIs
<1>6. ASSUME TakeCancels
      PROVE  SettlingIs(settling', "cancels", settling.matches, settling.step,
                    settling.settled, Len(cancels) - settling.released, settling.released)
  <2>1. settling' = [settling EXCEPT !.at = "cancels", !.cancels = Len(cancels) - settling.released]
    BY <1>6 DEF TakeCancels
  <2>2. Len(cancels) - settling.released \in Nat
    BY <1>1, <1>6 DEF TakeCancels
  <2>3. settling' \in SettlingRecord
    BY <1>1, <2>1, <2>2 DEF SettlingRecord
  <2>4. /\ settling'.at = "cancels"
        /\ settling'.matches = settling.matches
        /\ settling'.step = settling.step
        /\ settling'.settled = settling.settled
        /\ settling'.cancels = Len(cancels) - settling.released
        /\ settling'.released = settling.released
    BY <1>1, <2>1 DEF SettlingRecord
  <2> QED BY <2>3, <2>4 DEF SettlingIs
<1>7. ASSUME SettleCancel
      PROVE  SettlingIs(settling', settling.at, settling.matches, settling.step,
                    settling.settled, settling.cancels - 1, settling.released + 1)
  <2>1. settling' = [settling EXCEPT !.cancels = settling.cancels - 1, !.released = settling.released + 1]
    BY <1>7 DEF SettleCancel
  <2>2. settling.cancels - 1 \in Nat /\ settling.released + 1 \in Nat
    BY <1>1, <1>7 DEF SettleCancel
  <2>3. settling' \in SettlingRecord
    BY <1>1, <2>1, <2>2 DEF SettlingRecord
  <2>4. /\ settling'.at = settling.at
        /\ settling'.matches = settling.matches
        /\ settling'.step = settling.step
        /\ settling'.settled = settling.settled
        /\ settling'.cancels = settling.cancels - 1
        /\ settling'.released = settling.released + 1
    BY <1>1, <2>1 DEF SettlingRecord
  <2> QED BY <2>3, <2>4 DEF SettlingIs
<1> QED BY <1>2, <1>3, <1>4, <1>5, <1>6, <1>7

LEMMA HandlersExTypes ==
    ASSUME ExTypes, Handlers
    PROVE  SettlingOK' /\ MoneyTyped' /\ CountsTyped'
<1> USE ExchangeAssumption, BookAssumption
    DEF ExTypes, SettlingOK, MoneyTyped, CountsTyped, vars
<1>1. ASSUME NEW i \in OrderIds, NEW u \in Users, NEW tk \in Tickers, NEW s \in Side,
             NEW p \in Prices, NEW q \in Quantities, Trade(i, u, tk, s, p, q)
      PROVE  SettlingOK' /\ MoneyTyped' /\ CountsTyped'
  <2>1. Amount(s, p, q) \in Int
    BY AmountTyped
  <2>2. Reserve(account[u], tk, s, p, q) \in Account
    BY <2>1, AccountOps DEF Reserve, AccountIs
  <2>3. account' \in [Users -> Account]
    BY <1>1, <2>2 DEF Trade
  <2> QED BY <1>1, <2>3 DEF Trade
<1>2. ASSUME NEW i \in OrderIds, NEW u \in Users, NEW tk \in Tickers, Cancel(i, u, tk)
      PROVE  SettlingOK' /\ MoneyTyped' /\ CountsTyped'
  BY <1>2 DEF Cancel
<1>3. ASSUME NEW u \in Users, NEW a \in DepositAmounts, DepositToDb(u, a)
      PROVE  SettlingOK' /\ MoneyTyped' /\ CountsTyped'
  <2>1. UpdateBalance(db[u], a) \in [balance : Int, holding : Int]
    BY RowOps DEF Rows
  <2>2. db' \in [Users -> [balance : Int, holding : Int]]
    BY <1>3, <2>1 DEF DepositToDb
  <2>3. deposits' \in [Users -> DepositAmounts \cup {0}] /\ deposited' \in 0 .. MaxDeposited
    BY <1>3 DEF DepositToDb
  <2> QED BY <1>3, <2>2, <2>3 DEF DepositToDb
<1>4. ASSUME NEW u \in Users, DepositToMemory(u)
      PROVE  SettlingOK' /\ MoneyTyped' /\ CountsTyped'
  <2>1. AddBalance(account[u], deposits[u]) \in Account
    <3>1. deposits[u] \in DepositAmounts \cup {0} /\ account[u] \in Account
      OBVIOUS
    <3>2. \A a \in DepositAmounts \cup {0} : a \in Int
      OBVIOUS
    <3>3. deposits[u] \in Int
      BY <3>1, <3>2
    <3> QED BY <3>1, <3>3, AccountOps DEF AccountIs
  <2>2. account' \in [Users -> Account]
    BY <1>4, <2>1 DEF DepositToMemory
  <2>3. deposits' \in [Users -> DepositAmounts \cup {0}]
    BY <1>4 DEF DepositToMemory
  <2> QED BY <1>4, <2>2, <2>3 DEF DepositToMemory
<1> QED BY <1>1, <1>2, <1>3, <1>4 DEF Handlers

LEMMA PipelineExTypes ==
    ASSUME ExTypes, WalThread \/ BookThread, [Next]_vars
    PROVE  SettlingOK' /\ MoneyTyped' /\ CountsTyped'
<1> USE DEF ExTypes, SettlingOK, MoneyTyped, CountsTyped
<1>0. /\ Len(results) \in Nat /\ Len(results') \in Nat /\ Len(results') >= Len(results)
      /\ Len(cancels) \in Nat /\ Len(cancels') \in Nat /\ Len(cancels') >= Len(cancels)
  BY RecordsGrow
<1>1. CASE WalWrite
  BY <1>0, <1>1 DEF WalWrite, vars
<1>2. CASE WalDispatch
  <2>1. Head(walBatch) \in EngineEvent
    BY <1>2, FirstOut DEF WalDispatch, PipelineTyped
  <2>2. dropped' \subseteq NewOrderEvent
    BY <1>2, <2>1 DEF WalDispatch, EngineEvent, CancelEvent
  <2> QED BY <1>2, <2>2 DEF WalDispatch, vars
<1>3. CASE BookTake
  BY <1>3 DEF BookTake, vars
<1>4. CASE BookHandles
  <2>1. UNCHANGED <<issued, account, db, deposits, deposited, cancelCalls, pushed, settling,
                    dropped, unloaded, wrapped>>
    BY <1>4 DEF BookHandles
  <2> QED BY <1>0, <2>1 DEF SettlingRecord
<1>5. CASE BookMatches
  <2>1. UNCHANGED <<issued, account, db, deposits, deposited, cancelCalls, pushed, settling,
                    dropped, unloaded, wrapped>>
    BY <1>5 DEF BookMatches, exVars
  <2> QED BY <1>0, <2>1 DEF SettlingRecord
<1>6. CASE BookPushes
  BY <1>0, <1>6 DEF BookPushes, vars, SettlingRecord
<1> QED BY <1>1, <1>2, <1>3, <1>4, <1>5, <1>6 DEF WalThread, BookThread

LEMMA SettlementExTypes ==
    ASSUME ExTypes, SettlementThread
    PROVE  SettlingOK' /\ MoneyTyped' /\ CountsTyped'
<1>0. /\ Len(results) \in Nat /\ Len(cancels) \in Nat /\ pushed \in 0 .. Len(results)
      /\ SettlingOK /\ MoneyTyped /\ CountsTyped
  BY LenProperties DEF ExTypes, BookInv, TypeOK, CountsTyped
<1>1. UNCHANGED <<vars, issued, deposits, deposited, cancelCalls, pushed, dropped, unloaded,
                  wrapped>>
  BY DEF SettlementThread, TakeMatches, SettleInDb, SettleBuyer, SettleSeller, TakeCancels,
         SettleCancel
<1>2. CountsTyped'
  BY <1>0, <1>1 DEF CountsTyped, vars
<1>3. SettlingOK'
  <2> USE <1>0, <1>1, SettlingMoves DEF SettlingIs, SettlingOK, vars
  <2>1. CASE TakeMatches
    BY <2>1 DEF TakeMatches, SettlingRecord
  <2>2. CASE SettleInDb
    BY <2>2 DEF SettleInDb, SettlingRecord
  <2>3. CASE SettleBuyer
    BY <2>3 DEF SettleBuyer, SettlingRecord
  <2>4. CASE SettleSeller
    BY <2>4 DEF SettleSeller, SettlingRecord
  <2>5. CASE TakeCancels
    BY <2>5 DEF TakeCancels, SettlingRecord
  <2>6. CASE SettleCancel
    BY <2>6 DEF SettleCancel, SettlingRecord
  <2> QED BY <2>1, <2>2, <2>3, <2>4, <2>5, <2>6 DEF SettlementThread
<1>4. MoneyTyped'
  <2> USE <1>0, <1>1 DEF MoneyTyped
  <2>1. CASE TakeMatches \/ TakeCancels
    BY <2>1 DEF TakeMatches, TakeCancels
  <2>2. CASE SettleInDb
    <3>1. settling.matches > 0 /\ UNCHANGED account
      BY <2>2 DEF SettleInDb
    <3>2. rec.buyer \in Users /\ rec.seller \in Users /\ sell_money \in Int
          /\ shares \in Int
      BY <3>1, RecTyped
    <3>3. ASSUME NEW r \in Rows
          PROVE  /\ DeductBalance(r, sell_money) \in Rows
                 /\ UpdateStockHolding(r, shares) \in Rows
                 /\ UpdateBalance(r, sell_money) \in Rows
                 /\ DeductStockHolding(r, shares) \in Rows
      BY <3>2, RowOps
    <3>4. db \in [Users -> Rows]
      BY DEF Rows
    <3>5. \/ db' = db
          \/ \E v \in Users, r \in Rows : db' = [db EXCEPT ![v] = r]
      <4>1. db[rec.buyer] \in Rows /\ db[rec.seller] \in Rows
        BY <3>2, <3>4
      <4>2. \/ db' = db
            \/ db' = [db EXCEPT ![rec.buyer] = DeductBalance(db[rec.buyer], sell_money)]
            \/ db' = [db EXCEPT ![rec.buyer] = UpdateStockHolding(db[rec.buyer], shares)]
            \/ db' = [db EXCEPT ![rec.seller] = UpdateBalance(db[rec.seller], sell_money)]
            \/ db' = [db EXCEPT ![rec.seller] = DeductStockHolding(db[rec.seller], shares)]
        BY <2>2 DEF SettleInDb, Statement
      <4> QED BY <3>2, <3>3, <4>1, <4>2
    <3>6. db' \in [Users -> Rows]
      BY <3>4, <3>5
    <3> QED BY <3>1, <3>6 DEF Rows
  <2>3. CASE SettleBuyer
    <3>1. settling.matches > 0 /\ UNCHANGED db
      BY <2>3 DEF SettleBuyer
    <3>2. /\ rec.buyer \in Users /\ sell_money \in Int /\ refund_money \in Int
          /\ shares \in Int
      BY <3>1, RecTyped
    <3>3. CommitBuy(account[rec.buyer], sell_money, shares, refund_money) \in Account
      BY <3>2, AccountOps DEF AccountIs
    <3>4. account' \in [Users -> Account]
      BY <2>3, <3>3 DEF SettleBuyer
    <3> QED BY <3>1, <3>4
  <2>4. CASE SettleSeller
    <3>1. settling.matches > 0 /\ UNCHANGED db
      BY <2>4 DEF SettleSeller
    <3>2. rec.seller \in Users /\ sell_money \in Int /\ shares \in Int
      BY <3>1, RecTyped
    <3>3. CommitSell(account[rec.seller], sell_money, shares) \in Account
      BY <3>2, AccountOps DEF AccountIs
    <3>4. account' \in [Users -> Account]
      BY <2>4, <3>3 DEF SettleSeller
    <3> QED BY <3>1, <3>4
  <2>5. CASE SettleCancel
    <3> DEFINE c == cancels[settling.released + 1]
    <3>1. settling.cancels > 0 /\ UNCHANGED db
      BY <2>5 DEF SettleCancel
    <3>2. /\ c.user_id \in Users /\ Amount("BUY", c.price, c.quantity) \in Int
          /\ Amount("SELL", c.price, c.quantity) \in Int
      BY <3>1, CancelTyped
    <3>3. account' = [account EXCEPT ![c.user_id] = Release(@, c)]
      BY <2>5 DEF SettleCancel
    <3> HIDE DEF c
    <3>4. Release(account[c.user_id], c) \in Account
      <4>1. PICK a \in Account : a = account[c.user_id]
        BY <3>2
      <4>2. PICK x \in Int, y \in Int : /\ x = Amount("BUY", c.price, c.quantity)
                                        /\ y = Amount("SELL", c.price, c.quantity)
        BY <3>2
      <4>3. UnfreezeBalance(a, x) \in Account /\ UnfreezeStock(a, y) \in Account
        BY AccountOps DEF AccountIs
      <4> QED BY <4>1, <4>2, <4>3 DEF Release
    <3>5. account' \in [Users -> Account]
      BY <3>3, <3>4
    <3> QED BY <3>1, <3>5
  <2> QED BY <2>1, <2>2, <2>3, <2>4, <2>5 DEF SettlementThread
<1> QED BY <1>2, <1>3, <1>4

LEMMA StepExTypes == ExTypes /\ [ExNext]_allVars => ExTypes' /\ [Next]_vars
<1> SUFFICES ASSUME ExTypes, [ExNext]_allVars PROVE ExTypes' /\ [Next]_vars
  OBVIOUS
<1>1. PipelineTyped' /\ [Next]_vars
  <2>1. CASE Handlers \/ WalThread \/ SettlementThread
    BY <2>1, OtherThreads DEF ExTypes
  <2>2. CASE BookThread
    BY <2>2, TickerThread DEF ExTypes
  <2>3. CASE UNCHANGED allVars
    BY <2>3 DEF allVars, exVars, PipelineTyped, ExTypes
  <2> QED BY <2>1, <2>2, <2>3 DEF ExNext
<1>2. BookInv'
  BY <1>1, StepBookInv DEF ExTypes
<1>3. SettlingOK' /\ MoneyTyped' /\ CountsTyped'
  <2>1. CASE UNCHANGED allVars
    BY <2>1 DEF allVars, vars, exVars, ExTypes, SettlingOK, MoneyTyped, CountsTyped
  <2> QED BY <1>1, <2>1, HandlersExTypes, PipelineExTypes, SettlementExTypes DEF ExNext
<1> QED BY <1>1, <1>2, <1>3 DEF ExTypes

-----------------------------------------------------------------------------
(***************************************************************************)
(* Orders on their way from a handler to the book: each is in one place.   *)
(***************************************************************************)

News(q) == {ev \in Range(q) : ev.type = "NEW_ORDER"}

\* No order is in a queue twice.
Once(q) == \A j, k \in DOMAIN q : q[j] = q[k] /\ q[j].type = "NEW_ORDER" => j = k

OrdersApart ==
    /\ Once(walQueue) /\ Once(walBatch) /\ Once(bookQueue) /\ Once(bookBatch)
    /\ News(walQueue) \cap News(walBatch) = {}
    /\ (News(walQueue) \cup News(walBatch)) \cap News(bookQueue) = {}
    /\ (News(walQueue) \cup News(walBatch) \cup News(bookQueue)) \cap News(bookBatch) = {}
    /\ (News(walQueue) \cup News(walBatch) \cup News(bookQueue) \cup News(bookBatch))
           \cap dropped = {}

\* Orders under way have ids of their own, handed out and not known to the book.
IdsApart ==
    /\ \A e, f \in Underway : e.order_id = f.order_id => e = f
    /\ \A e \in Underway : e.order_id \in issued \ DOMAIN order
    /\ DOMAIN order \subseteq issued

PipeInv ==
    OrdersApart /\ IdsApart /\ IsFiniteSet(Underway) /\ IsFiniteSet(DOMAIN order)

LEMMA UnderwayParts ==
    ASSUME ExTypes
    PROVE  Underway = News(walQueue) \cup News(walBatch) \cup News(bookQueue)
                      \cup News(bookBatch) \cup dropped
BY DEF Underway, News, ExTypes, CountsTyped, NewOrderEvent

LEMMA NewsEmpty == News(<< >>) = {} /\ Once(<< >>)
BY DEF News, Once, Range

LEMMA NewsAppend ==
    ASSUME NEW q \in Seq(EngineEvent), NEW e \in EngineEvent, Once(q), e \notin News(q)
    PROVE  /\ News(Append(q, e)) = IF e.type = "NEW_ORDER" THEN News(q) \cup {e} ELSE News(q)
           /\ Once(Append(q, e))
<1> DEFINE a == Append(q, e)
<1>1. /\ DOMAIN q = 1 .. Len(q) /\ Len(q) \in Nat /\ DOMAIN a = 1 .. Len(q) + 1
      /\ a[Len(q) + 1] = e /\ \A k \in 1 .. Len(q) : a[k] = q[k]
  BY AppendProperties, LenProperties
<1> HIDE DEF a
<1>2. Range(a) = Range(q) \cup {e}
  <2>1. ASSUME NEW x \in Range(a) PROVE x \in Range(q) \cup {e}
    BY <1>1, <2>1 DEF Range
  <2>2. ASSUME NEW x \in Range(q) PROVE x \in Range(a)
    <3>1. PICK k \in 1 .. Len(q) : q[k] = x
      BY <1>1, <2>2 DEF Range
    <3>2. k \in DOMAIN a /\ a[k] = x
      BY <1>1, <3>1
    <3> QED BY <3>2 DEF Range
  <2>3. e \in Range(a)
    <3>1. Len(q) + 1 \in DOMAIN a
      BY <1>1
    <3> QED BY <1>1, <3>1 DEF Range
  <2> QED BY <2>1, <2>2, <2>3
<1>3. News(a) = IF e.type = "NEW_ORDER" THEN News(q) \cup {e} ELSE News(q)
  BY <1>2 DEF News
<1>4. Once(a)
  <2> SUFFICES ASSUME NEW j \in 1 .. Len(q) + 1, NEW k \in 1 .. Len(q) + 1,
                      a[j] = a[k], a[j].type = "NEW_ORDER"
               PROVE  j = k
    BY <1>1 DEF Once
  <2>1. CASE j \in 1 .. Len(q) /\ k \in 1 .. Len(q)
    BY <1>1, <2>1 DEF Once
  <2>2. CASE j = Len(q) + 1 /\ k = Len(q) + 1
    BY <2>2
  <2>3. ASSUME NEW n \in 1 .. Len(q), q[n] = e, e.type = "NEW_ORDER" PROVE FALSE
    BY <1>1, <2>3 DEF News, Range
  <2> QED BY <1>1, <2>1, <2>2, <2>3
<1> QED BY <1>3, <1>4 DEF a

LEMMA NewsTail ==
    ASSUME NEW q \in Seq(EngineEvent), q # << >>, Once(q)
    PROVE  /\ News(Tail(q)) = News(q) \ {Head(q)}
           /\ Once(Tail(q))
           /\ Head(q).type = "NEW_ORDER" => Head(q) \in News(q)
<1> DEFINE t == Tail(q)
<1>1. /\ DOMAIN q = 1 .. Len(q) /\ Len(q) \in Nat \ {0} /\ DOMAIN t = 1 .. Len(q) - 1
      /\ Head(q) = q[1] /\ \A k \in 1 .. Len(q) - 1 : t[k] = q[k + 1]
  <2>1. DOMAIN q = 1 .. Len(q) /\ Len(q) \in Nat \ {0}
    BY LenProperties, EmptySeq
  <2>2. t \in Seq(EngineEvent) /\ Len(t) = Len(q) - 1
        /\ \A k \in 1 .. Len(t) : t[k] = q[k + 1]
    BY HeadTailProperties
  <2>3. DOMAIN t = 1 .. Len(t)
    BY <2>2, LenProperties
  <2> QED BY <2>1, <2>2, <2>3
<1> HIDE DEF t
<1>2. 1 \in DOMAIN q /\ Head(q) \in Range(q)
  BY <1>1 DEF Range
<1>3. ASSUME NEW x \in News(t) PROVE x \in News(q) \ {Head(q)}
  <2>1. PICK k \in 1 .. Len(q) - 1 : t[k] = x
    BY <1>1, <1>3 DEF News, Range
  <2>2. k + 1 \in DOMAIN q /\ q[k + 1] = x /\ x.type = "NEW_ORDER"
    BY <1>1, <1>3, <2>1 DEF News
  <2>3. x # q[1]
    BY <1>1, <1>2, <2>2 DEF Once
  <2> QED BY <1>1, <2>2, <2>3 DEF News, Range
<1>4. ASSUME NEW x \in News(q), x # Head(q) PROVE x \in News(t)
  <2>1. PICK k \in 1 .. Len(q) : q[k] = x
    BY <1>1, <1>4 DEF News, Range
  <2>2. k # 1 /\ x.type = "NEW_ORDER"
    BY <1>1, <1>4, <2>1 DEF News
  <2>3. k - 1 \in 1 .. Len(q) - 1 /\ (k - 1) + 1 = k
    BY <1>1, <2>2
  <2>4. k - 1 \in DOMAIN t /\ t[k - 1] = x
    BY <1>1, <2>1, <2>3
  <2> QED BY <2>2, <2>4 DEF News, Range
<1>5. Once(t)
  BY <1>1 DEF Once
<1> QED BY <1>2, <1>3, <1>4, <1>5 DEF News, t

LEMMA NewsDequeued ==
    ASSUME NEW q \in Seq(EngineEvent), NEW b \in Dequeuings(q), Once(q)
    PROVE  News(b) = News(q) /\ Once(b)
<1>1. PICK f \in Bijection(DOMAIN q, DOMAIN q) : b = [k \in DOMAIN q |-> q[f[k]]]
  BY DEF Dequeuings
<1>2. /\ f \in [DOMAIN q -> DOMAIN q]
      /\ \A j, k \in DOMAIN q : f[j] = f[k] => j = k
      /\ \A k \in DOMAIN q : \E j \in DOMAIN q : f[j] = k
  BY DEF Bijection, Injection, Surjection, IsInjective
<1>3. DOMAIN b = DOMAIN q /\ \A k \in DOMAIN q : b[k] = q[f[k]]
  BY <1>1
<1>4. Range(b) = Range(q)
  <2>1. ASSUME NEW x \in Range(b) PROVE x \in Range(q)
    BY <1>2, <1>3, <2>1 DEF Range
  <2>2. ASSUME NEW x \in Range(q) PROVE x \in Range(b)
    BY <1>2, <1>3, <2>2 DEF Range
  <2> QED BY <2>1, <2>2
<1>5. Once(b)
  <2> SUFFICES ASSUME NEW j \in DOMAIN q, NEW k \in DOMAIN q,
                      b[j] = b[k], b[j].type = "NEW_ORDER"
               PROVE  j = k
    BY <1>3 DEF Once
  <2>1. f[j] \in DOMAIN q /\ f[k] \in DOMAIN q /\ q[f[j]] = q[f[k]]
        /\ q[f[j]].type = "NEW_ORDER"
    BY <1>2, <1>3
  <2>2. f[j] = f[k]
    BY <2>1 DEF Once
  <2> QED BY <1>2, <2>2
<1> QED BY <1>4, <1>5 DEF News

LEMMA FreshPipeInv == FreshLife => PipeInv
<1> SUFFICES ASSUME FreshLife PROVE PipeInv
  OBVIOUS
<1>1. Underway = {}
  BY FreshExTypes, UnderwayParts, NewsEmpty DEF FreshLife
<1>2. DOMAIN order = {}
  BY DEF FreshLife, Init
<1> QED BY <1>1, <1>2, NewsEmpty, FS_EmptySet DEF PipeInv, OrdersApart, IdsApart, FreshLife

-----------------------------------------------------------------------------
(***************************************************************************)
(* Money and stock in the exchange: what is frozen, what the accounts in   *)
(* memory hold, what the tables hold, and what a crash leaves.             *)
(***************************************************************************)

LEMMA UnderwayNext ==
    ASSUME ExTypes'
    PROVE  Underway' = News(walQueue') \cup News(walBatch') \cup News(bookQueue')
                       \cup News(bookBatch') \cup dropped'
BY DEF Underway, News, ExTypes, CountsTyped, NewOrderEvent

LEMMA IdsKept ==
    ASSUME PipeInv, OrdersApart', Underway' = Underway, issued' = issued,
           DOMAIN order' = DOMAIN order
    PROVE  PipeInv'
BY DEF PipeInv, IdsApart

\* A new order enters the pipeline with an id nobody has.
LEMMA TradeEnters ==
    ASSUME ExTypes, ExTypes', PipeInv,
           NEW i \in OrderIds, NEW u \in Users, NEW tk \in Tickers, NEW s \in Side,
           NEW p \in Prices, NEW q \in Quantities, Trade(i, u, tk, s, p, q),
           NEW ev, ev = [type |-> "NEW_ORDER", order_id |-> i, user_id |-> u, ticker |-> tk,
                         side |-> s, price |-> p, quantity |-> q]
    PROVE  PipeInv' /\ ev \notin Underway /\ Underway' = Underway \cup {ev}
<1>1. ev \in EngineEvent /\ ev.type = "NEW_ORDER" /\ ev.order_id = i
  BY DEF EngineEvent, NewOrderEvent
<1>2. /\ walQueue' = Append(walQueue, ev) /\ i \notin issued /\ issued' = issued \cup {i}
      /\ UNCHANGED <<order, walBatch, bookQueue, bookBatch, dropped>>
  BY DEF Trade, vars
<1>3. ev \notin Underway
  BY <1>1, <1>2 DEF PipeInv, IdsApart
<1>4. ev \notin News(walQueue) /\ ev \notin News(walBatch) /\ ev \notin News(bookQueue)
      /\ ev \notin News(bookBatch) /\ ev \notin dropped
  BY <1>3, UnderwayParts
<1>5. walQueue \in Seq(EngineEvent) /\ Once(walQueue)
  BY DEF ExTypes, PipelineTyped, PipeInv, OrdersApart
<1>6. News(walQueue') = News(walQueue) \cup {ev} /\ Once(walQueue')
  BY <1>1, <1>2, <1>4, <1>5, NewsAppend
<1>7. Underway' = Underway \cup {ev}
  BY <1>2, <1>6, UnderwayParts, UnderwayNext
<1>8. OrdersApart'
  BY <1>2, <1>4, <1>6 DEF PipeInv, OrdersApart
<1>9. IdsApart'
  BY <1>1, <1>2, <1>7 DEF PipeInv, IdsApart
<1>10. IsFiniteSet(Underway') /\ IsFiniteSet(DOMAIN order')
  BY <1>2, <1>7, FS_AddElement DEF PipeInv
<1> QED BY <1>3, <1>7, <1>8, <1>9, <1>10 DEF PipeInv

\* A new order reaches the book and leaves the pipeline.
LEMMA OrderReachesBook ==
    ASSUME ExTypes, ExTypes', PipeInv, BookHandles, Head(bookBatch).type = "NEW_ORDER"
    PROVE  /\ PipeInv'
           /\ Head(bookBatch) \in Underway /\ Head(bookBatch) \in NewOrderEvent
           /\ Underway' = Underway \ {Head(bookBatch)}
<1> DEFINE ev == Head(bookBatch)
<1>1. bookBatch \in Seq(EngineEvent) /\ bookBatch # << >> /\ Once(bookBatch)
  BY DEF ExTypes, PipelineTyped, PipeInv, OrdersApart, BookHandles
<1>2. ev \in EngineEvent
  BY <1>1, FirstOut
<1>3. ev \in NewOrderEvent
  BY <1>2 DEF EngineEvent, CancelEvent
<1>4. /\ bookBatch' = Tail(bookBatch)
      /\ UNCHANGED <<issued, walQueue, walBatch, bookQueue, dropped>>
      /\ DOMAIN order' = DOMAIN order \cup {ev.order_id}
  BY DEF BookHandles, NewOrder
<1>5. /\ News(bookBatch') = News(bookBatch) \ {ev} /\ Once(bookBatch')
      /\ ev \in News(bookBatch)
  BY <1>1, <1>4, NewsTail
<1> HIDE DEF ev
<1>6. ev \in Underway /\ Underway' = Underway \ {ev}
  BY <1>4, <1>5, UnderwayParts, UnderwayNext DEF PipeInv, OrdersApart
<1>7. OrdersApart'
  BY <1>4, <1>5 DEF PipeInv, OrdersApart
<1>8. IdsApart'
  BY <1>4, <1>6 DEF PipeInv, IdsApart
<1>9. IsFiniteSet(Underway') /\ IsFiniteSet(DOMAIN order')
  BY <1>4, <1>6, FS_RemoveElement, FS_AddElement DEF PipeInv
<1> QED BY <1>3, <1>6, <1>7, <1>8, <1>9 DEF PipeInv, ev

\* A cancel request, wherever it is, is no order under way.
LEMMA CancelEventMoves ==
    ASSUME ExTypes, ExTypes', PipeInv,
           \/ \E i \in OrderIds, u \in Users, tk \in Tickers : Cancel(i, u, tk)
           \/ BookHandles /\ Head(bookBatch).type = "CANCEL_ORDER"
    PROVE  PipeInv' /\ Underway' = Underway
<1>0. /\ walQueue \in Seq(EngineEvent) /\ Once(walQueue)
      /\ bookBatch \in Seq(EngineEvent) /\ Once(bookBatch)
  BY DEF ExTypes, PipelineTyped, PipeInv, OrdersApart
<1>1. ASSUME NEW i \in OrderIds, NEW u \in Users, NEW tk \in Tickers, Cancel(i, u, tk)
      PROVE  PipeInv' /\ Underway' = Underway
  <2> DEFINE ev == [type |-> "CANCEL_ORDER", order_id |-> i, user_id |-> u, ticker |-> tk]
  <2>1. ev \in EngineEvent /\ ev.type = "CANCEL_ORDER"
    BY DEF EngineEvent, CancelEvent
  <2>2. /\ walQueue' = Append(walQueue, ev)
        /\ UNCHANGED <<order, issued, walBatch, bookQueue, bookBatch, dropped>>
    BY <1>1 DEF Cancel, vars
  <2> HIDE DEF ev
  <2>3. ev \notin News(walQueue)
    BY <2>1 DEF News
  <2>4. News(walQueue') = News(walQueue) /\ Once(walQueue')
    BY <1>0, <2>1, <2>2, <2>3, NewsAppend
  <2>5. Underway' = Underway
    BY <2>2, <2>4, UnderwayParts, UnderwayNext
  <2>6. OrdersApart'
    BY <2>2, <2>4 DEF PipeInv, OrdersApart
  <2> QED BY <2>2, <2>5, <2>6, IdsKept
<1>2. CASE BookHandles /\ Head(bookBatch).type = "CANCEL_ORDER"
  <2>1. bookBatch # << >> /\ bookBatch' = Tail(bookBatch)
        /\ UNCHANGED <<order, issued, walQueue, walBatch, bookQueue, dropped>>
    BY <1>2 DEF BookHandles, CancelOrder
  <2>2. Head(bookBatch) \notin News(bookBatch)
    BY <1>2 DEF News
  <2>3. News(bookBatch') = News(bookBatch) /\ Once(bookBatch')
    BY <1>0, <2>1, <2>2, NewsTail
  <2>4. Underway' = Underway
    BY <2>1, <2>3, UnderwayParts, UnderwayNext
  <2>5. OrdersApart'
    BY <2>1, <2>3 DEF PipeInv, OrdersApart
  <2> QED BY <2>1, <2>4, <2>5, IdsKept
<1> QED BY <1>1, <1>2

\* The WAL thread and the thread of the ticker pass orders on: none gets lost or doubled.
LEMMA OrdersPassOn ==
    ASSUME ExTypes, ExTypes', PipeInv, WalThread \/ BookTake
    PROVE  PipeInv' /\ Underway' = Underway
<1>0. /\ walQueue \in Seq(EngineEvent) /\ walBatch \in Seq(EngineEvent)
      /\ bookQueue \in Seq(EngineEvent) /\ OrdersApart
  BY DEF ExTypes, PipelineTyped, PipeInv
<1> USE NewsEmpty, UnderwayParts, UnderwayNext
<1>1. CASE WalWrite
  <2>1. /\ walBatch = << >> /\ walBatch' \in Dequeuings(walQueue) /\ walQueue' = << >>
        /\ UNCHANGED <<order, issued, bookQueue, bookBatch, dropped>>
    BY <1>1 DEF WalWrite, vars
  <2>2. News(walBatch') = News(walQueue) /\ Once(walBatch')
    BY <1>0, <2>1, NewsDequeued DEF OrdersApart
  <2>3. Underway' = Underway
    BY <2>1, <2>2
  <2>4. OrdersApart'
    BY <1>0, <2>1, <2>2 DEF OrdersApart
  <2> QED BY <2>1, <2>3, <2>4, IdsKept
<1>2. CASE WalDispatch
  <2> DEFINE ev == Head(walBatch)
  <2>1. /\ walBatch # << >> /\ walBatch' = Tail(walBatch)
        /\ UNCHANGED <<order, issued, walQueue, bookBatch>>
    BY <1>2 DEF WalDispatch, vars
  <2>2. ev \in EngineEvent
    BY <1>0, <2>1, FirstOut
  <2>3. /\ News(walBatch') = News(walBatch) \ {ev} /\ Once(walBatch')
        /\ ev.type = "NEW_ORDER" => ev \in News(walBatch)
    BY <1>0, <2>1, NewsTail DEF OrdersApart
  <2>4. \/ bookQueue' = Append(bookQueue, ev) /\ UNCHANGED dropped
        \/ /\ dropped' = IF ev.type = "NEW_ORDER" THEN dropped \cup {ev} ELSE dropped
           /\ UNCHANGED bookQueue
    BY <1>2 DEF WalDispatch
  <2> HIDE DEF ev
  <2>5. ev.type # "NEW_ORDER" => ev \notin News(walBatch) /\ ev \notin News(bookQueue)
    BY DEF News
  <2>6. CASE bookQueue' = Append(bookQueue, ev) /\ UNCHANGED dropped
    <3>1. ev \notin News(bookQueue) /\ Once(bookQueue)
      BY <1>0, <2>3, <2>5 DEF OrdersApart
    <3>2. /\ News(bookQueue') = IF ev.type = "NEW_ORDER" THEN News(bookQueue) \cup {ev}
                                                       ELSE News(bookQueue)
          /\ Once(bookQueue')
      BY <1>0, <2>2, <2>6, <3>1, NewsAppend
    <3>3. Underway' = Underway
      BY <2>1, <2>3, <2>5, <2>6, <3>2
    <3>4. OrdersApart'
      BY <1>0, <2>1, <2>3, <2>5, <2>6, <3>2 DEF OrdersApart
    <3> QED BY <2>1, <3>3, <3>4, IdsKept
  <2>7. CASE /\ dropped' = IF ev.type = "NEW_ORDER" THEN dropped \cup {ev} ELSE dropped
             /\ UNCHANGED bookQueue
    <3>1. Underway' = Underway
      BY <2>1, <2>3, <2>5, <2>7
    <3>2. OrdersApart'
      BY <1>0, <2>1, <2>3, <2>5, <2>7 DEF OrdersApart
    <3> QED BY <2>1, <3>1, <3>2, IdsKept
  <2> QED BY <2>4, <2>6, <2>7
<1>3. CASE BookTake
  <2>1. /\ bookBatch = << >> /\ bookBatch' = bookQueue /\ bookQueue' = << >>
        /\ UNCHANGED <<order, issued, walQueue, walBatch, dropped>>
    BY <1>3 DEF BookTake, vars
  <2>2. Underway' = Underway
    BY <2>1
  <2>3. OrdersApart'
    BY <1>0, <2>1 DEF OrdersApart
  <2> QED BY <2>1, <2>2, <2>3, IdsKept
<1> QED BY <1>1, <1>2, <1>3 DEF WalThread

\* All other steps leave the pipeline alone.
LEMMA PipelineRests ==
    ASSUME ExTypes, ExTypes', PipeInv,
           UNCHANGED <<issued, walQueue, walBatch, bookQueue, bookBatch, dropped>>,
           DOMAIN order' = DOMAIN order
    PROVE  PipeInv' /\ Underway' = Underway
<1>1. Underway' = Underway
  BY UnderwayParts, UnderwayNext
<1>2. OrdersApart'
  BY DEF PipeInv, OrdersApart
<1> QED BY <1>1, <1>2, IdsKept

-----------------------------------------------------------------------------
(***************************************************************************)
(* The reservations of user u's orders of side s, summed up over a set S   *)
(* of places that each hold an order's owner, side, price and quantity.    *)
(***************************************************************************)

Share(x, u, s) ==
    IF x.user_id = u /\ x.side = s THEN Worth(s, x.price, x.quantity) ELSE 0

Weigh(S, L, u, s) ==
    SumFunction([k \in {n \in S : L[n].user_id = u /\ L[n].side = s} |->
                    Worth(s, L[k].price, L[k].quantity)])

Weighable(S, L) ==
    IsFiniteSet(S) /\ \A n \in S : L[n].price \in Nat /\ L[n].quantity \in Nat

LEMMA WorthNat ==
    ASSUME NEW s, NEW p \in Nat, NEW q \in Nat
    PROVE  Worth(s, p, q) \in Nat
<1>1. p * q \in Nat
  OBVIOUS
<1> QED BY <1>1 DEF Worth

LEMMA ShareNat ==
    ASSUME NEW x, x.price \in Nat, x.quantity \in Nat, NEW u, NEW s
    PROVE  Share(x, u, s) \in Nat
BY WorthNat DEF Share

LEMMA WeighNat ==
    ASSUME NEW S, NEW L, Weighable(S, L), NEW u, NEW s
    PROVE  /\ Weigh(S, L, u, s) \in Nat
           /\ \A n \in S : Weigh(S, L, u, s) >= Share(L[n], u, s)
<1> DEFINE D == {n \in S : L[n].user_id = u /\ L[n].side = s}
           f == [k \in D |-> Worth(s, L[k].price, L[k].quantity)]
<1>1. IsFiniteSet(D)
  BY FS_Subset DEF Weighable
<1>2. DOMAIN f = D /\ \A k \in D : f[k] \in Nat
  BY WorthNat DEF Weighable
<1>3. Weigh(S, L, u, s) = SumFunction(f)
  BY DEF Weigh
<1>4. \A n \in S : n \in D => Share(L[n], u, s) = f[n]
  BY DEF Share
<1>5. \A n \in S : n \notin D => Share(L[n], u, s) = 0
  BY DEF Share
<1> HIDE DEF f, D
<1>6. SumFunction(f) \in Nat /\ \A k \in D : SumFunction(f) >= f[k]
  BY <1>1, <1>2, WholeSumNat
<1> QED BY <1>3, <1>4, <1>5, <1>6

LEMMA WeighSame ==
    ASSUME NEW S, NEW L, NEW M, \A n \in S : M[n] = L[n], NEW u, NEW s
    PROVE  Weigh(S, M, u, s) = Weigh(S, L, u, s)
<1>1. [k \in {n \in S : M[n].user_id = u /\ M[n].side = s} |->
           Worth(s, M[k].price, M[k].quantity)] =
      [k \in {n \in S : L[n].user_id = u /\ L[n].side = s} |->
           Worth(s, L[k].price, L[k].quantity)]
  OBVIOUS
<1> QED BY <1>1 DEF Weigh

\* One more place.
LEMMA WeighInsert ==
    ASSUME NEW S, NEW L, NEW M, NEW y, y \notin S, Weighable(S \cup {y}, M),
           \A n \in S : M[n] = L[n], NEW u, NEW s
    PROVE  Weigh(S \cup {y}, M, u, s) = Weigh(S, L, u, s) + Share(M[y], u, s)
<1> DEFINE D == {n \in S : M[n].user_id = u /\ M[n].side = s}
           E == {n \in S \cup {y} : M[n].user_id = u /\ M[n].side = s}
           f == [k \in D |-> Worth(s, M[k].price, M[k].quantity)]
           g == [k \in E |-> Worth(s, M[k].price, M[k].quantity)]
<1>1. Weigh(S, L, u, s) = SumFunction(f) /\ Weigh(S \cup {y}, M, u, s) = SumFunction(g)
  BY WeighSame DEF Weigh
<1>2. IsFiniteSet(D) /\ IsFiniteSet(E)
  <2>1. IsFiniteSet(S \cup {y})
    BY DEF Weighable
  <2> QED BY <2>1, FS_Subset
<1>3. DOMAIN f = D /\ DOMAIN g = E /\ \A k \in D : k \in E /\ g[k] = f[k]
  OBVIOUS
<1>4. \A k \in E : g[k] \in Int
  BY WorthNat DEF Weighable
<1>5. CASE M[y].user_id = u /\ M[y].side = s
  <2>1. E = D \cup {y} /\ y \notin D /\ g[y] = Share(M[y], u, s)
    BY <1>5 DEF Share
  <2> HIDE DEF D, E, f, g
  <2> QED BY <1>1, <1>2, <1>3, <1>4, <2>1, WholeSumInsert
<1>6. CASE ~ (M[y].user_id = u /\ M[y].side = s)
  <2>1. E = D /\ Share(M[y], u, s) = 0
    BY <1>6 DEF Share
  <2>2. f = g
    BY <2>1
  <2>3. Weigh(S \cup {y}, M, u, s) \in Nat
    BY WeighNat
  <2> QED BY <1>1, <2>1, <2>2, <2>3
<1> QED BY <1>5, <1>6

\* Another order at one of the places.
LEMMA WeighChange ==
    ASSUME NEW S, NEW L, NEW M, NEW y \in S, Weighable(S, L), Weighable(S, M),
           \A n \in S \ {y} : M[n] = L[n], NEW u, NEW s
    PROVE  Weigh(S, M, u, s) = Weigh(S, L, u, s) + Share(M[y], u, s) - Share(L[y], u, s)
<1> DEFINE T == S \ {y}
<1>1. T \cup {y} = S /\ y \notin T
  OBVIOUS
<1>2. Weigh(S, L, u, s) = Weigh(T, L, u, s) + Share(L[y], u, s)
  BY <1>1, WeighInsert
<1>3. Weigh(S, M, u, s) = Weigh(T, L, u, s) + Share(M[y], u, s)
  BY <1>1, WeighInsert
<1>4. Weigh(T, L, u, s) \in Nat
  BY FS_Subset, WeighNat DEF Weighable
<1>5. Share(L[y], u, s) \in Nat /\ Share(M[y], u, s) \in Nat
  BY ShareNat DEF Weighable
<1> QED BY <1>2, <1>3, <1>4, <1>5

-----------------------------------------------------------------------------
(***************************************************************************)
(* FrozenBacked, with its four sums as weights.                            *)
(***************************************************************************)

Itself(E) == [e \in E |-> e]

\* What the records of trades say each party of side s still has reserved.
OwedIn(res, s) ==
    [k \in DOMAIN res |->
        [user_id |-> IF s = "BUY" THEN res[k].buyer ELSE res[k].seller, side |-> s,
         price |-> res[k].buyer_expected_price, quantity |-> res[k].match_quantity]]

Owing(settled, step, last, s) ==
    {n \in settled + 1 .. last : ~ (s = "BUY" /\ n = settled + 1 /\ step = 5)}

WayWeight(u, s) == Weigh(Underway, Itself(Underway), u, s)

BookWeight(u, s) == Weigh(DOMAIN Live, Live, u, s)

OwedWeight(u, s) ==
    Weigh(Owing(settling.settled, settling.step, Len(results), s), OwedIn(results, s), u, s)

BackWeight(u, s) == Weigh(settling.released + 1 .. Len(cancels), cancels, u, s)

Balanced(u, s) ==
    Frozen(u, s) = WayWeight(u, s) + BookWeight(u, s) + OwedWeight(u, s) + BackWeight(u, s)

Backed == \A u \in Users, s \in Side : Balanced(u, s)

LEMMA BackedImplies == ExTypes /\ Backed => FrozenBacked
<1> SUFFICES ASSUME ExTypes, Backed, NEW u \in Users, NEW s \in Side
             PROVE  /\ SumFunction(OnTheWay(u, s)) = WayWeight(u, s)
                    /\ SumFunction(OnTheBook(u, s)) = BookWeight(u, s)
                    /\ SumFunction(Unsettled(u, s)) = OwedWeight(u, s)
                    /\ SumFunction(Unreleased(u, s)) = BackWeight(u, s)
  BY DEF Backed, Balanced, FrozenBacked
<1>1. SumFunction(OnTheWay(u, s)) = WayWeight(u, s)
  <2> DEFINE L == Itself(Underway)
  <2>1. \A e \in Underway : L[e] = e
    BY DEF Itself
  <2> HIDE DEF L
  <2>2. OnTheWay(u, s) = [k \in {n \in Underway : L[n].user_id = u /\ L[n].side = s} |->
                             Worth(s, L[k].price, L[k].quantity)]
    BY <2>1 DEF OnTheWay
  <2> QED BY <2>2 DEF WayWeight, Weigh, L
<1>2. SumFunction(OnTheBook(u, s)) = BookWeight(u, s)
  BY DEF OnTheBook, BookWeight, Weigh
<1>3. SumFunction(Unsettled(u, s)) = OwedWeight(u, s)
  <2> DEFINE S == Owing(settling.settled, settling.step, Len(results), s)
             L == OwedIn(results, s)
  <2>1. Len(results) \in Nat /\ DOMAIN results = 1 .. Len(results) /\ settling.settled \in Nat
    BY LenProperties DEF ExTypes, BookInv, TypeOK, SettlingOK, SettlingRecord
  <2>2. S \subseteq DOMAIN results
    BY <2>1 DEF Owing
  <2>3. \A n \in S : /\ L[n].user_id = Party(n, s) /\ L[n].side = s
                     /\ L[n].price = results[n].buyer_expected_price
                     /\ L[n].quantity = results[n].match_quantity
    BY <2>2 DEF OwedIn, Party
  <2>4. \A n \in settling.settled + 1 .. Len(results) : n \in S <=> IsUnsettled(n, s)
    BY DEF Owing, IsUnsettled
  <2>5. S \subseteq settling.settled + 1 .. Len(results)
    BY DEF Owing
  <2> HIDE DEF S, L
  <2>6. {n \in settling.settled + 1 .. Len(results) : Party(n, s) = u /\ IsUnsettled(n, s)}
        = {n \in S : L[n].user_id = u /\ L[n].side = s}
    BY <2>3, <2>4, <2>5
  <2>7. Unsettled(u, s) = [k \in {n \in S : L[n].user_id = u /\ L[n].side = s} |->
                              Worth(s, L[k].price, L[k].quantity)]
    BY <2>3, <2>6 DEF Unsettled
  <2> QED BY <2>7 DEF OwedWeight, Weigh, S, L
<1>4. SumFunction(Unreleased(u, s)) = BackWeight(u, s)
  BY DEF Unreleased, BackWeight, Weigh
<1> QED BY <1>1, <1>2, <1>3, <1>4

LEMMA UnderwayTyped ==
    ASSUME ExTypes
    PROVE  Underway \subseteq NewOrderEvent
<1>1. ASSUME NEW q \in Seq(EngineEvent) PROVE News(q) \subseteq NewOrderEvent
  <2> SUFFICES ASSUME NEW k \in DOMAIN q, q[k].type = "NEW_ORDER" PROVE q[k] \in NewOrderEvent
    BY DEF News, Range
  <2>1. q[k] \in EngineEvent
    BY ElementOfSeq, LenProperties
  <2> QED BY <2>1 DEF EngineEvent, CancelEvent
<1> QED BY <1>1, UnderwayParts DEF ExTypes, PipelineTyped, CountsTyped

LEMMA WayInsert ==
    ASSUME NEW E, NEW ev, ev \notin E, E \subseteq NewOrderEvent, ev \in NewOrderEvent,
           IsFiniteSet(E), NEW u, NEW s
    PROVE  Weigh(E \cup {ev}, Itself(E \cup {ev}), u, s) =
               Weigh(E, Itself(E), u, s) + Share(ev, u, s)
<1> DEFINE L == Itself(E)
           M == Itself(E \cup {ev})
<1>1. IsFiniteSet(E \cup {ev})
  BY FS_AddElement
<1>2. \A e \in E \cup {ev} : M[e] = e /\ e.price \in Nat /\ e.quantity \in Nat
  BY BookAssumption DEF Itself, NewOrderEvent
<1>3. \A e \in E : M[e] = L[e]
  BY DEF Itself
<1> HIDE DEF L, M
<1>4. Weighable(E \cup {ev}, M)
  BY <1>1, <1>2 DEF Weighable
<1>5. Weigh(E \cup {ev}, M, u, s) = Weigh(E, L, u, s) + Share(M[ev], u, s)
  BY <1>3, <1>4, WeighInsert
<1> QED BY <1>2, <1>5 DEF L, M

LEMMA LiveTyped ==
    ASSUME BookInv, IsFiniteSet(DOMAIN order)
    PROVE  /\ Weighable(DOMAIN Live, Live)
           /\ \A i \in DOMAIN Live : Live[i] \in Order
           /\ DOMAIN Live \subseteq DOMAIN order
<1>1. DOMAIN Live \subseteq DOMAIN order
  BY LiveDef, RestingKnown
<1>2. \A i \in DOMAIN Live : Live[i] \in Order
  <2>1. order \in [DOMAIN order -> Order]
    BY DEF BookInv, TypeOK, IsOrders
  <2> QED BY <1>1, <2>1, LiveDef
<1>3. IsFiniteSet(DOMAIN Live)
  BY <1>1, FS_Subset
<1>4. \A x \in Order : x.price \in Nat /\ x.quantity \in Nat
  BY BookAssumption DEF Order
<1> QED BY <1>1, <1>2, <1>3, <1>4 DEF Weighable

LEMMA OwedTyped ==
    ASSUME NEW res \in Seq(MatchRecord), NEW settled \in Nat, NEW step, NEW s
    PROVE  /\ Owing(settled, step, Len(res), s) \subseteq DOMAIN res
           /\ Weighable(Owing(settled, step, Len(res), s), OwedIn(res, s))
<1>1. Len(res) \in Nat /\ DOMAIN res = 1 .. Len(res)
  BY LenProperties
<1>2. Owing(settled, step, Len(res), s) \subseteq DOMAIN res
  BY <1>1 DEF Owing
<1>3. IsFiniteSet(DOMAIN res)
  BY <1>1, FS_Interval
<1>4. ASSUME NEW k \in DOMAIN res
      PROVE  OwedIn(res, s)[k].price \in Nat /\ OwedIn(res, s)[k].quantity \in Nat
  <2>1. res[k] \in MatchRecord
    BY <1>1, ElementOfSeq
  <2>2. res[k].buyer_expected_price \in Nat /\ res[k].match_quantity \in Nat
    BY <2>1, BookAssumption DEF MatchRecord
  <2> QED BY <2>2 DEF OwedIn
<1> QED BY <1>2, <1>3, <1>4, FS_Subset DEF Weighable

LEMMA BackTyped ==
    ASSUME NEW cs \in Seq(CancelRecord), NEW released \in Nat
    PROVE  /\ released + 1 .. Len(cs) \subseteq DOMAIN cs
           /\ Weighable(released + 1 .. Len(cs), cs)
<1>1. Len(cs) \in Nat /\ DOMAIN cs = 1 .. Len(cs)
  BY LenProperties
<1>2. released + 1 .. Len(cs) \subseteq DOMAIN cs
  BY <1>1
<1>3. IsFiniteSet(released + 1 .. Len(cs))
  BY <1>1, FS_Interval
<1>4. ASSUME NEW k \in DOMAIN cs PROVE cs[k].price \in Nat /\ cs[k].quantity \in Nat
  <2>1. cs[k] \in CancelRecord
    BY <1>1, ElementOfSeq
  <2> QED BY <2>1, BookAssumption DEF CancelRecord
<1> QED BY <1>2, <1>3, <1>4 DEF Weighable

LEMMA WeightsNat ==
    ASSUME ExTypes, PipeInv, NEW u, NEW s
    PROVE  /\ WayWeight(u, s) \in Nat /\ BookWeight(u, s) \in Nat
           /\ OwedWeight(u, s) \in Nat /\ BackWeight(u, s) \in Nat
<1>1. WayWeight(u, s) \in Nat
  <2>1. \A e \in Underway : Itself(Underway)[e] = e /\ e.price \in Nat /\ e.quantity \in Nat
    BY UnderwayTyped, BookAssumption DEF Itself, NewOrderEvent
  <2>2. Weighable(Underway, Itself(Underway))
    BY <2>1 DEF Weighable, PipeInv
  <2> QED BY <2>2, WeighNat DEF WayWeight
<1>2. BookWeight(u, s) \in Nat
  BY LiveTyped, WeighNat DEF BookWeight, PipeInv, ExTypes
<1>3. settling.settled \in Nat /\ settling.released \in Nat
      /\ results \in Seq(MatchRecord) /\ cancels \in Seq(CancelRecord)
  BY DEF ExTypes, SettlingOK, SettlingRecord, BookInv, TypeOK
<1>4. OwedWeight(u, s) \in Nat
  BY <1>3, OwedTyped, WeighNat DEF OwedWeight
<1>5. BackWeight(u, s) \in Nat
  BY <1>3, BackTyped, WeighNat DEF BackWeight
<1> QED BY <1>1, <1>2, <1>4, <1>5

-----------------------------------------------------------------------------
(***************************************************************************)
(* What the steps of the book do to the weights.                           *)
(***************************************************************************)

\* The part of an order's reservation that d of its quantity stands for.
Part(x, d, u, s) == IF x.user_id = u /\ x.side = s THEN Worth(s, x.price, d) ELSE 0

LEMMA ShareDrops ==
    ASSUME NEW x \in Order, NEW d \in Nat, d =< x.quantity,
           NEW y, y = [x EXCEPT !.quantity = @ - d], NEW u, NEW s
    PROVE  /\ y \in Order /\ y.quantity = x.quantity - d
           /\ Part(x, d, u, s) \in Nat
           /\ Share(y, u, s) = Share(x, u, s) - Part(x, d, u, s)
<1>1. x.price \in Nat /\ x.quantity \in Nat
  BY BookAssumption DEF Order
<1>2. x.quantity - d \in Nat
  BY <1>1
<1>3. y \in Order
  BY <1>2 DEF Order
<1>4. /\ y.quantity = x.quantity - d /\ y.price = x.price /\ y.side = x.side
      /\ y.user_id = x.user_id
  BY DEF Order
<1>5. \A p, q, e \in Nat : q >= e => p * (q - e) = p * q - p * e
  <2> SUFFICES ASSUME NEW p \in Nat, NEW q \in Nat, NEW e \in Nat, q >= e
               PROVE  p * (q - e) = p * q - p * e
    OBVIOUS
  <2>1. q - e \in Nat /\ q = (q - e) + e
    OBVIOUS
  <2>2. ASSUME NEW r \in Nat PROVE p * (r + e) = p * r + p * e
    OBVIOUS
  <2>3. p * q = p * (q - e) + p * e
    BY <2>1, <2>2
  <2> QED BY <2>1, <2>3
<1>6. Worth(s, x.price, x.quantity - d) = Worth(s, x.price, x.quantity) - Worth(s, x.price, d)
  BY <1>1, <1>5 DEF Worth
<1>7. Part(x, d, u, s) \in Nat
  BY <1>1, WorthNat DEF Part
<1>8. Share(y, u, s) = Share(x, u, s) - Part(x, d, u, s)
  BY <1>4, <1>6 DEF Share, Part
<1> QED BY <1>3, <1>4, <1>7, <1>8

\* d of two orders is traded; the second one goes when it is exhausted.
AfterTrade(L, a, m, d) ==
    [i \in IF d = L[m].quantity THEN DOMAIN L \ {m} ELSE DOMAIN L |->
        IF i \in {m, a} THEN [L[i] EXCEPT !.quantity = @ - d] ELSE L[i]]

LEMMA TradeWeighs ==
    ASSUME NEW L, Weighable(DOMAIN L, L), \A i \in DOMAIN L : L[i] \in Order,
           NEW a \in DOMAIN L, NEW m \in DOMAIN L, a # m,
           NEW d \in Nat, d =< L[a].quantity, d =< L[m].quantity,
           NEW M, M = AfterTrade(L, a, m, d), NEW u, NEW s
    PROVE  /\ Weigh(DOMAIN M, M, u, s) =
                  Weigh(DOMAIN L, L, u, s) - Part(L[a], d, u, s) - Part(L[m], d, u, s)
           /\ Part(L[a], d, u, s) \in Nat /\ Part(L[m], d, u, s) \in Nat
<1>1. PICK x : x = [L[a] EXCEPT !.quantity = @ - d]
  OBVIOUS
<1>2. PICK y : y = [L[m] EXCEPT !.quantity = @ - d]
  OBVIOUS
<1>3. /\ x \in Order /\ Part(L[a], d, u, s) \in Nat
      /\ Share(x, u, s) = Share(L[a], u, s) - Part(L[a], d, u, s)
  BY <1>1, ShareDrops
<1>4. /\ y \in Order /\ Part(L[m], d, u, s) \in Nat /\ y.quantity = L[m].quantity - d
      /\ Share(y, u, s) = Share(L[m], u, s) - Part(L[m], d, u, s)
  BY <1>2, ShareDrops
<1>5. \A o \in Order : o.price \in Nat /\ o.quantity \in Nat
  BY BookAssumption DEF Order
<1>6. PICK L1 : L1 = [i \in DOMAIN L |-> IF i = a THEN x ELSE L[i]]
  OBVIOUS
<1>7. PICK L2 : L2 = [i \in DOMAIN L |-> IF i = m THEN y ELSE L1[i]]
  OBVIOUS
<1>8. Weighable(DOMAIN L, L1) /\ Weighable(DOMAIN L, L2)
  BY <1>3, <1>4, <1>5, <1>6, <1>7 DEF Weighable
<1>9. Weigh(DOMAIN L, L1, u, s) = Weigh(DOMAIN L, L, u, s) + Share(x, u, s) - Share(L[a], u, s)
  <2>1. L1[a] = x /\ \A n \in DOMAIN L \ {a} : L1[n] = L[n]
    BY <1>6
  <2> QED BY <1>8, <2>1, WeighChange
<1>10. Weigh(DOMAIN L, L2, u, s) = Weigh(DOMAIN L, L1, u, s) + Share(y, u, s) - Share(L[m], u, s)
  <2>1. L2[m] = y /\ L1[m] = L[m]
    BY <1>6, <1>7
  <2>0. \A n \in DOMAIN L \ {m} : L2[n] = L1[n]
    BY <1>7
  <2>2. Weigh(DOMAIN L, L2, u, s) =
            Weigh(DOMAIN L, L1, u, s) + Share(L2[m], u, s) - Share(L1[m], u, s)
    BY <1>8, <2>0, WeighChange
  <2> QED BY <2>1, <2>2
<1>11. /\ Weigh(DOMAIN L, L, u, s) \in Nat /\ Weigh(DOMAIN L, L1, u, s) \in Nat
       /\ Weigh(DOMAIN L, L2, u, s) \in Nat
       /\ Share(L[a], u, s) \in Nat /\ Share(L[m], u, s) \in Nat
  BY <1>8, WeighNat, ShareNat DEF Weighable
<1>12. Weigh(DOMAIN L, L2, u, s) =
           Weigh(DOMAIN L, L, u, s) - Part(L[a], d, u, s) - Part(L[m], d, u, s)
  BY <1>3, <1>4, <1>9, <1>10, <1>11
<1>13. Weigh(DOMAIN M, M, u, s) = Weigh(DOMAIN L, L2, u, s)
  <2>1. CASE d = L[m].quantity
    <3>1. DOMAIN M = DOMAIN L \ {m} /\ \A n \in DOMAIN M : L2[n] = M[n]
      BY <1>1, <1>6, <1>7, <2>1 DEF AfterTrade
    <3>2. m \notin DOMAIN M /\ DOMAIN M \cup {m} = DOMAIN L /\ L2[m] = y
      BY <1>7, <3>1
    <3>3. Weigh(DOMAIN M \cup {m}, L2, u, s) = Weigh(DOMAIN M, M, u, s) + Share(L2[m], u, s)
      <4>1. Weighable(DOMAIN M \cup {m}, L2)
        BY <1>8, <3>2
      <4> QED BY <3>1, <3>2, <4>1, WeighInsert
    <3>4. Share(y, u, s) = 0
      <4>1. y.quantity = 0 /\ y.price \in Nat
        BY <1>4, <1>5, <2>1
      <4> QED BY <4>1 DEF Share, Worth
    <3>5. Weigh(DOMAIN M, M, u, s) \in Nat
      <4>1. IsFiniteSet(DOMAIN M)
        BY <3>1, FS_Subset DEF Weighable
      <4>2. Weighable(DOMAIN M, M)
        BY <1>8, <3>1, <4>1 DEF Weighable
      <4> QED BY <4>2, WeighNat
    <3> QED BY <3>2, <3>3, <3>4, <3>5
  <2>2. CASE d # L[m].quantity
    <3>1. DOMAIN M = DOMAIN L /\ \A n \in DOMAIN L : L2[n] = M[n]
      BY <1>1, <1>2, <1>6, <1>7, <2>2 DEF AfterTrade
    <3>2. Weigh(DOMAIN L, M, u, s) = Weigh(DOMAIN L, L2, u, s)
      BY <3>1, WeighSame
    <3> QED BY <3>1, <3>2
  <2> QED BY <2>1, <2>2
<1> QED BY <1>3, <1>4, <1>12, <1>13

\* An order goes.
Without(L, i) == [j \in DOMAIN L \ {i} |-> L[j]]

LEMMA GoneWeighs ==
    ASSUME NEW L, Weighable(DOMAIN L, L), NEW i \in DOMAIN L,
           NEW M, M = Without(L, i), NEW u, NEW s
    PROVE  /\ Weigh(DOMAIN L, L, u, s) = Weigh(DOMAIN M, M, u, s) + Share(L[i], u, s)
           /\ Weigh(DOMAIN M, M, u, s) \in Nat /\ Share(L[i], u, s) \in Nat
<1>1. DOMAIN M = DOMAIN L \ {i} /\ \A n \in DOMAIN M : L[n] = M[n]
  BY DEF Without
<1>2. DOMAIN M \cup {i} = DOMAIN L /\ i \notin DOMAIN M
  BY <1>1
<1>3. IsFiniteSet(DOMAIN M)
  BY <1>1, FS_Subset DEF Weighable
<1>4. Weighable(DOMAIN M, M)
  BY <1>1, <1>3 DEF Weighable
<1> QED BY <1>1, <1>2, <1>4, WeighInsert, WeighNat, ShareNat DEF Weighable

\* One more record of a trade.
Owes(r, u, s) ==
    IF u = (IF s = "BUY" THEN r.buyer ELSE r.seller)
    THEN Worth(s, r.buyer_expected_price, r.match_quantity) ELSE 0

LEMMA OwedAppend ==
    ASSUME NEW res \in Seq(MatchRecord), NEW r \in MatchRecord, NEW settled \in Nat, NEW step,
           step = 5 => settled < Len(res), settled =< Len(res), NEW u, NEW s
    PROVE  Weigh(Owing(settled, step, Len(Append(res, r)), s), OwedIn(Append(res, r), s), u, s) =
               Weigh(Owing(settled, step, Len(res), s), OwedIn(res, s), u, s)
               + Owes(r, u, s)
<1>q. PICK res2 : res2 = Append(res, r)
  OBVIOUS
<1> DEFINE S == Owing(settled, step, Len(res), s)
           L == OwedIn(res, s)
           M == OwedIn(res2, s)
           n == Len(res) + 1
<1>1. /\ Len(res) \in Nat /\ DOMAIN res = 1 .. Len(res)
      /\ res2 \in Seq(MatchRecord) /\ Len(res2) = Len(res) + 1 /\ DOMAIN res2 = 1 .. Len(res2)
      /\ res2[n] = r /\ \A k \in 1 .. Len(res) : res2[k] = res[k]
  BY <1>q, AppendProperties, LenProperties
<1>2. S \subseteq DOMAIN res
  BY OwedTyped
<1>3. Owing(settled, step, Len(res2), s) = S \cup {n} /\ n \notin S
  BY <1>1 DEF Owing
<1>4. n \in DOMAIN res2
  BY <1>1
<1>5. M[n] = [user_id |-> IF s = "BUY" THEN r.buyer ELSE r.seller, side |-> s,
              price |-> r.buyer_expected_price, quantity |-> r.match_quantity]
  BY <1>1, <1>4 DEF OwedIn
<1>6. \A k \in S : M[k] = L[k]
  BY <1>1, <1>2 DEF OwedIn
<1>7. Weighable(S \cup {n}, M)
  BY <1>1, <1>3, OwedTyped
<1> HIDE DEF S, L, M, n
<1>8. Weigh(S \cup {n}, M, u, s) = Weigh(S, L, u, s) + Share(M[n], u, s)
  BY <1>3, <1>6, <1>7, WeighInsert
<1>9. Share(M[n], u, s) = Owes(r, u, s)
  BY <1>5 DEF Share, Owes
<1> QED BY <1>q, <1>3, <1>8, <1>9 DEF S, L, M

\* One more record of a cancel.
LEMMA BackAppend ==
    ASSUME NEW cs \in Seq(CancelRecord), NEW c \in CancelRecord, NEW released \in Nat,
           released =< Len(cs), NEW u, NEW s
    PROVE  Weigh(released + 1 .. Len(Append(cs, c)), Append(cs, c), u, s) =
               Weigh(released + 1 .. Len(cs), cs, u, s) + Share(c, u, s)
<1>q. PICK cs2 : cs2 = Append(cs, c)
  OBVIOUS
<1> DEFINE S == released + 1 .. Len(cs)
           n == Len(cs) + 1
<1>1. /\ Len(cs) \in Nat /\ DOMAIN cs = 1 .. Len(cs)
      /\ cs2 \in Seq(CancelRecord) /\ Len(cs2) = Len(cs) + 1
      /\ cs2[n] = c /\ \A k \in 1 .. Len(cs) : cs2[k] = cs[k]
  BY <1>q, AppendProperties, LenProperties
<1>2. released + 1 .. Len(cs2) = S \cup {n}
  BY <1>1
<1>0. n \notin S
  BY <1>1
<1>3. \A k \in S : cs2[k] = cs[k]
  BY <1>1
<1>4. Weighable(S \cup {n}, cs2)
  BY <1>1, <1>2, BackTyped
<1> HIDE DEF S, n
<1>5. Weigh(S \cup {n}, cs2, u, s) = Weigh(S, cs, u, s) + Share(cs2[n], u, s)
  BY <1>0, <1>3, <1>4, WeighInsert
<1> QED BY <1>q, <1>1, <1>2, <1>5 DEF S

LEMMA SubmitWeighs ==
    ASSUME BookInv, IsFiniteSet(DOMAIN order),
           NEW i \in OrderIds, NEW v \in Users, NEW t \in Side, NEW p \in Prices,
           NEW q \in Quantities, NewOrder(i, v, t, p, q),
           NEW x, x.user_id = v /\ x.side = t /\ x.price = p /\ x.quantity = q,
           NEW u, NEW s
    PROVE  BookWeight(u, s)' = BookWeight(u, s) + Share(x, u, s)
<1>1. PICK o : o = [user_id |-> v, side |-> t, price |-> p, quantity |-> q]
  OBVIOUS
<1>2. Live' = [j \in DOMAIN Live \cup {i} |-> IF j = i THEN o ELSE Live[j]]
  <2>1. Promise!Submit(i, v, t, p, q)
    BY NewOrderImplements
  <2> QED BY <1>1, <2>1 DEF Promise!Submit
<1>3. i \notin DOMAIN Live
  BY LiveTyped DEF NewOrder
<1>4. Share(o, u, s) = Share(x, u, s) /\ o.price \in Nat /\ o.quantity \in Nat
  BY <1>1, BookAssumption DEF Share
<1>5. PICK L, M : L = Live /\ M = Live'
  OBVIOUS
<1>6. DOMAIN M = DOMAIN L \cup {i} /\ M[i] = o /\ \A j \in DOMAIN L : M[j] = L[j]
  BY <1>2, <1>3, <1>5
<1>7. IsFiniteSet(DOMAIN M)
  BY <1>5, <1>6, LiveTyped, FS_AddElement DEF Weighable
<1>8. Weighable(DOMAIN L \cup {i}, M)
  BY <1>4, <1>5, <1>6, <1>7, LiveTyped DEF Weighable
<1>9. i \notin DOMAIN L
  BY <1>3, <1>5
<1>10. Weigh(DOMAIN L \cup {i}, M, u, s) = Weigh(DOMAIN L, L, u, s) + Share(M[i], u, s)
  BY <1>6, <1>8, <1>9, WeighInsert
<1> QED BY <1>4, <1>5, <1>6, <1>10 DEF BookWeight

\* What two orders give up for a trade is what its record says is to be settled.
LEMMA FillWeighs ==
    ASSUME ExTypes, ExTypes', PipeInv, Fill, UNCHANGED settling, NEW u, NEW s \in Side
    PROVE  BookWeight(u, s)' + OwedWeight(u, s)' = BookWeight(u, s) + OwedWeight(u, s)
<1>1. PICK m \in Promise!Waiting : \E qty \in 1 .. Live[m].quantity : Promise!Trade(m, qty)
  BY FillImplements DEF ExTypes
<1>2. PICK d \in 1 .. Live[m].quantity : Promise!Trade(m, d)
  BY <1>1
<1>3. PICK r : r = Promise!TradeWith(m, d)
  OBVIOUS
<1>4. /\ taker # NoOrder /\ Live[m].side # Live[taker].side
      /\ d =< Live[taker].quantity
      /\ Live' = AfterTrade(Live, taker, m, d)
      /\ results' = Append(results, r)
  BY <1>2, <1>3 DEF Promise!Trade, Promise!Admissible, AfterTrade
<1>5. taker \in DOMAIN Live /\ m \in DOMAIN Live /\ m # taker
  BY <1>1, <1>4, LiveDef DEF Promise!Waiting
<1>6. Weighable(DOMAIN Live, Live) /\ \A i \in DOMAIN Live : Live[i] \in Order
  BY LiveTyped DEF ExTypes, PipeInv
<1>7. PICK L, M : L = Live /\ M = Live'
  OBVIOUS
<1>8. PICK a : a = taker
  OBVIOUS
<1>9. L[a] \in Order /\ L[m] \in Order
  BY <1>5, <1>6, <1>7, <1>8
<1>10. L[a].quantity \in Nat /\ L[m].quantity \in Nat /\ d \in Nat /\ d =< L[m].quantity
       /\ d =< L[a].quantity
  BY <1>4, <1>7, <1>8, <1>9 DEF Order
<1>11. /\ Weigh(DOMAIN M, M, u, s) =
              Weigh(DOMAIN L, L, u, s) - Part(L[a], d, u, s) - Part(L[m], d, u, s)
       /\ Part(L[a], d, u, s) \in Nat /\ Part(L[m], d, u, s) \in Nat
  <2>1. /\ Weighable(DOMAIN L, L) /\ \A i \in DOMAIN L : L[i] \in Order
        /\ a \in DOMAIN L /\ m \in DOMAIN L /\ a # m /\ M = AfterTrade(L, a, m, d)
    BY <1>4, <1>5, <1>6, <1>7, <1>8
  <2> QED BY <1>10, <2>1, TradeWeighs
<1>12. Part(L[a], d, u, s) + Part(L[m], d, u, s) = Owes(r, u, s)
  <2>1. L[a].side \in Side /\ L[m].side \in Side /\ L[a].side # L[m].side
    BY <1>4, <1>7, <1>8, <1>9 DEF Order
  <2>2. /\ r.buyer = IF L[a].side = "BUY" THEN L[a].user_id ELSE L[m].user_id
        /\ r.seller = IF L[a].side = "BUY" THEN L[m].user_id ELSE L[a].user_id
        /\ r.buyer_expected_price = IF L[a].side = "BUY" THEN L[a].price ELSE L[m].price
        /\ r.match_quantity = d
    BY <1>3, <1>7, <1>8 DEF Promise!TradeWith, Promise!IsBuy
  <2>3. L[a].price \in Nat /\ L[m].price \in Nat
    BY <1>9, BookAssumption DEF Order
  <2>4. Worth(s, L[a].price, d) \in Nat /\ Worth(s, L[m].price, d) \in Nat
    BY <1>10, <2>3, WorthNat
  <2> QED BY <2>1, <2>2, <2>4 DEF Part, Side, Worth, Owes
<1>13. /\ results \in Seq(MatchRecord) /\ results' \in Seq(MatchRecord)
       /\ settling.settled \in Nat /\ Len(results) \in Nat
       /\ settling.settled =< Len(results)
       /\ settling.step = 5 => settling.settled < Len(results)
  BY LenProperties DEF ExTypes, BookInv, TypeOK, SettlingOK, SettlingRecord, CountsTyped
<1>14. r \in MatchRecord
  <2>1. Len(results') = Len(results) + 1 /\ results'[Len(results) + 1] = r
    BY <1>4, <1>13
  <2>2. Len(results) + 1 \in 1 .. Len(results')
    BY <1>13, <2>1
  <2> QED BY <1>13, <2>1, <2>2, ElementOfSeq
<1>15. OwedWeight(u, s)' = OwedWeight(u, s) + Owes(r, u, s)
  <2>1. PICK k, e : k = settling.settled /\ e = settling.step
    OBVIOUS
  <2>2. k \in Nat /\ k =< Len(results) /\ (e = 5 => k < Len(results))
    BY <1>13, <2>1
  <2>3. Weigh(Owing(k, e, Len(Append(results, r)), s), OwedIn(Append(results, r), s), u, s) =
          Weigh(Owing(k, e, Len(results), s), OwedIn(results, s), u, s) + Owes(r, u, s)
    BY <1>13, <1>14, <2>2, OwedAppend
  <2> QED BY <1>4, <2>1, <2>3 DEF OwedWeight
<1>16. BookWeight(u, s)' = Weigh(DOMAIN M, M, u, s) /\ BookWeight(u, s) = Weigh(DOMAIN L, L, u, s)
  BY <1>7 DEF BookWeight
<1>17. BookWeight(u, s) \in Nat /\ OwedWeight(u, s) \in Nat
  BY WeightsNat
<1> QED BY <1>11, <1>12, <1>15, <1>16, <1>17

\* An order that rests keeps its reservation; one that is used up has none.
LEMMA ConcludeWeighs ==
    ASSUME ExTypes, PipeInv, Rest \/ Exhausted, NEW u, NEW s
    PROVE  BookWeight(u, s)' = BookWeight(u, s)
<1>1. Promise!Conclude
  BY RestImplements, ExhaustedImplements DEF ExTypes
<1>2. PICK L, M : L = Live /\ M = Live'
  OBVIOUS
<1>3. CASE M = L
  BY <1>2, <1>3 DEF BookWeight
<1>4. CASE L[taker].quantity = 0 /\ M = Without(L, taker)
  <2>1. Weighable(DOMAIN L, L) /\ \A i \in DOMAIN L : L[i] \in Order
    BY <1>2, LiveTyped DEF ExTypes, PipeInv
  <2>2. taker \in DOMAIN L
    BY <1>1, <1>2, LiveDef DEF Promise!Conclude
  <2>3. /\ Weigh(DOMAIN L, L, u, s) = Weigh(DOMAIN M, M, u, s) + Share(L[taker], u, s)
        /\ Weigh(DOMAIN M, M, u, s) \in Nat
    BY <1>4, <2>1, <2>2, GoneWeighs
  <2>4. L[taker].price \in Nat
    BY <2>1, <2>2, BookAssumption DEF Order
  <2>5. Share(L[taker], u, s) = 0
    BY <1>4, <2>4 DEF Share, Worth
  <2> QED BY <1>2, <2>3, <2>5 DEF BookWeight
<1> QED BY <1>1, <1>2, <1>3, <1>4 DEF Promise!Conclude, Without

\* What a cancel takes off the book is what its record says is to be released.
LEMMA CancelWeighs ==
    ASSUME ExTypes, ExTypes', PipeInv, NEW id \in OrderIds, NEW v \in Users,
           CancelOrder(id, v), UNCHANGED settling, NEW u, NEW s
    PROVE  BookWeight(u, s)' + BackWeight(u, s)' = BookWeight(u, s) + BackWeight(u, s)
<1>0. /\ cancels \in Seq(CancelRecord) /\ cancels' \in Seq(CancelRecord)
      /\ settling.released \in Nat /\ Len(cancels) \in Nat
      /\ settling.released =< Len(cancels)
      /\ BookWeight(u, s) \in Nat /\ BackWeight(u, s) \in Nat
  BY LenProperties, WeightsNat DEF ExTypes, BookInv, TypeOK, SettlingOK, SettlingRecord
<1>1. CASE \E i \in DOMAIN Live : Promise!Withdraw(i)
  <2>1. PICK i \in DOMAIN Live : Promise!Withdraw(i)
    BY <1>1
  <2>2. PICK L, M : L = Live /\ M = Live'
    OBVIOUS
  <2>3. PICK c : c = [order_id |-> i, user_id |-> L[i].user_id, side |-> L[i].side,
                      price |-> L[i].price, quantity |-> L[i].quantity]
    OBVIOUS
  <2>4. M = Without(L, i) /\ cancels' = Append(cancels, c)
    BY <2>1, <2>2, <2>3 DEF Promise!Withdraw, Without
  <2>5. Weighable(DOMAIN L, L) /\ i \in DOMAIN L
    BY <2>2, LiveTyped DEF ExTypes, PipeInv
  <2>6. /\ Weigh(DOMAIN L, L, u, s) = Weigh(DOMAIN M, M, u, s) + Share(L[i], u, s)
        /\ Weigh(DOMAIN M, M, u, s) \in Nat /\ Share(L[i], u, s) \in Nat
    BY <2>4, <2>5, GoneWeighs
  <2>7. Share(c, u, s) = Share(L[i], u, s)
    BY <2>3 DEF Share
  <2>8. c \in CancelRecord
    <3>1. Len(cancels') = Len(cancels) + 1 /\ cancels'[Len(cancels) + 1] = c
      BY <1>0, <2>4
    <3>2. Len(cancels) + 1 \in 1 .. Len(cancels')
      BY <1>0, <3>1
    <3> QED BY <1>0, <3>1, <3>2, ElementOfSeq
  <2>9. BackWeight(u, s)' = BackWeight(u, s) + Share(c, u, s)
    <3>1. Weigh(settling.released + 1 .. Len(Append(cancels, c)), Append(cancels, c), u, s) =
             Weigh(settling.released + 1 .. Len(cancels), cancels, u, s) + Share(c, u, s)
      BY <1>0, <2>8, BackAppend
    <3> QED BY <2>4, <3>1 DEF BackWeight
  <2>10. BookWeight(u, s)' = Weigh(DOMAIN M, M, u, s) /\ BookWeight(u, s) = Weigh(DOMAIN L, L, u, s)
    BY <2>2 DEF BookWeight
  <2> QED BY <1>0, <2>6, <2>7, <2>9, <2>10
<1>2. CASE UNCHANGED <<Live, taker, Arrived, results, cancels>>
  BY <1>2 DEF BookWeight, BackWeight
<1> QED BY <1>1, <1>2, CancelOrderImplements DEF ExTypes

-----------------------------------------------------------------------------
(***************************************************************************)
(* What settlement does to the weights.                                    *)
(***************************************************************************)

LEMMA OwedSplit ==
    ASSUME NEW res \in Seq(MatchRecord), NEW T, NEW k, k \notin T,
           T \cup {k} \subseteq DOMAIN res, NEW u, NEW s
    PROVE  /\ Weigh(T \cup {k}, OwedIn(res, s), u, s) =
                  Weigh(T, OwedIn(res, s), u, s) + Owes(res[k], u, s)
           /\ Weigh(T, OwedIn(res, s), u, s) \in Nat /\ Owes(res[k], u, s) \in Nat
<1> DEFINE L == OwedIn(res, s)
<1>1. Len(res) \in Nat /\ DOMAIN res = 1 .. Len(res)
  BY LenProperties
<1>2. DOMAIN res = Owing(0, 0, Len(res), s)
  BY <1>1 DEF Owing
<1>3. Weighable(DOMAIN res, L)
  BY <1>2, OwedTyped
<1>4. Share(L[k], u, s) = Owes(res[k], u, s)
  BY DEF OwedIn, Share, Owes
<1> HIDE DEF L
<1>5. IsFiniteSet(T \cup {k}) /\ IsFiniteSet(T)
  <2>1. IsFiniteSet(DOMAIN res)
    BY <1>3 DEF Weighable
  <2> QED BY <2>1, FS_Subset
<1>6. Weighable(T \cup {k}, L) /\ Weighable(T, L)
  BY <1>3, <1>5 DEF Weighable
<1>7. Weigh(T \cup {k}, L, u, s) = Weigh(T, L, u, s) + Share(L[k], u, s)
  BY <1>6, WeighInsert
<1>8. Weigh(T, L, u, s) \in Nat
  BY <1>6, WeighNat
<1>9. Share(L[k], u, s) \in Nat
  BY <1>3, ShareNat DEF Weighable
<1> QED BY <1>4, <1>7, <1>8, <1>9 DEF L

\* The trade being settled is among those owed, for the buyer until step 5, for the
\* seller until it is over.
LEMMA TradeIsOwed ==
    ASSUME ExTypes, settling.matches > 0, NEW u, NEW s \in Side,
           s = "BUY" => settling.step # 5
    PROVE  /\ OwedWeight(u, s) = Owes(rec, u, s) +
                  Weigh(settling.settled + 2 .. Len(results), OwedIn(results, s), u, s)
           /\ Weigh(settling.settled + 2 .. Len(results), OwedIn(results, s), u, s) \in Nat
           /\ Owes(rec, u, s) \in Nat
<1> DEFINE T == settling.settled + 2 .. Len(results)
           k == settling.settled + 1
<1>1. /\ results \in Seq(MatchRecord) /\ Len(results) \in Nat /\ settling.settled \in Nat
      /\ DOMAIN results = 1 .. Len(results) /\ k \in 1 .. Len(results)
  BY LenProperties, RecTyped DEF ExTypes, BookInv, TypeOK, SettlingOK, SettlingRecord
<1>2. k \notin T /\ T \cup {k} \subseteq DOMAIN results
  BY <1>1
<1>3. Owing(settling.settled, settling.step, Len(results), s) = T \cup {k}
  BY <1>1 DEF Owing
<1>4. rec = results[k]
  BY DEF rec
<1> HIDE DEF T, k
<1>5. /\ Weigh(T \cup {k}, OwedIn(results, s), u, s) =
             Weigh(T, OwedIn(results, s), u, s) + Owes(results[k], u, s)
      /\ Weigh(T, OwedIn(results, s), u, s) \in Nat /\ Owes(results[k], u, s) \in Nat
  BY <1>1, <1>2, OwedSplit
<1> QED BY <1>3, <1>4, <1>5 DEF OwedWeight, T

LEMMA BuyerSettled ==
    ASSUME ExTypes, SettleBuyer, NEW u, NEW s \in Side
    PROVE  OwedWeight(u, s) = OwedWeight(u, s)' + (IF s = "BUY" THEN Owes(rec, u, s) ELSE 0)
<1>1. settling.matches > 0 /\ settling.step = 4 /\ results' = results
  BY DEF SettleBuyer, vars
<1>2. settling'.step = 5 /\ settling'.settled = settling.settled
  BY SettlingMoves DEF SettlingIs
<1>3. Len(results) \in Nat /\ settling.settled \in Nat
  BY <1>1, LenProperties DEF ExTypes, BookInv, TypeOK, SettlingOK, SettlingRecord
<1>4. CASE s = "BUY"
  <2>1. Owing(settling.settled, 5, Len(results), s) = settling.settled + 2 .. Len(results)
    BY <1>3, <1>4 DEF Owing
  <2>2. OwedWeight(u, s)' =
           Weigh(settling.settled + 2 .. Len(results), OwedIn(results, s), u, s)
    BY <1>1, <1>2, <2>1 DEF OwedWeight
  <2> QED BY <1>1, <1>4, <2>2, TradeIsOwed
<1>5. CASE s = "SELL"
  <2>1. Owing(settling.settled, 5, Len(results), s) = Owing(settling.settled, 4, Len(results), s)
    BY <1>5 DEF Owing
  <2>2. OwedWeight(u, s)' = OwedWeight(u, s)
    BY <1>1, <1>2, <2>1 DEF OwedWeight
  <2>3. OwedWeight(u, s) \in Nat
    <3>1. Weighable(Owing(settling.settled, settling.step, Len(results), s), OwedIn(results, s))
      BY <1>3, OwedTyped DEF ExTypes, BookInv, TypeOK
    <3> QED BY <3>1, WeighNat DEF OwedWeight
  <2> QED BY <1>5, <2>2, <2>3
<1> QED BY <1>4, <1>5 DEF Side

LEMMA SellerSettled ==
    ASSUME ExTypes, SettleSeller, NEW u, NEW s \in Side
    PROVE  OwedWeight(u, s) = OwedWeight(u, s)' + (IF s = "SELL" THEN Owes(rec, u, s) ELSE 0)
<1>1. settling.matches > 0 /\ settling.step = 5 /\ results' = results
  BY DEF SettleSeller, vars
<1>2. settling'.step = 0 /\ settling'.settled = settling.settled + 1
  BY SettlingMoves DEF SettlingIs
<1>3. Len(results) \in Nat /\ settling.settled \in Nat
  BY <1>1, LenProperties DEF ExTypes, BookInv, TypeOK, SettlingOK, SettlingRecord
<1>4. Owing(settling.settled + 1, 0, Len(results), s) = settling.settled + 2 .. Len(results)
  BY <1>3 DEF Owing
<1>5. OwedWeight(u, s)' =
         Weigh(settling.settled + 2 .. Len(results), OwedIn(results, s), u, s)
  BY <1>1, <1>2, <1>4 DEF OwedWeight
<1>6. CASE s = "SELL"
  BY <1>1, <1>5, <1>6, TradeIsOwed
<1>7. CASE s = "BUY"
  <2>1. Owing(settling.settled, 5, Len(results), s) = settling.settled + 2 .. Len(results)
    BY <1>3, <1>7 DEF Owing
  <2>2. OwedWeight(u, s)' = OwedWeight(u, s)
    BY <1>1, <1>5, <2>1 DEF OwedWeight
  <2>3. OwedWeight(u, s) \in Nat
    <3>1. Weighable(Owing(settling.settled, settling.step, Len(results), s), OwedIn(results, s))
      BY <1>3, OwedTyped DEF ExTypes, BookInv, TypeOK
    <3> QED BY <3>1, WeighNat DEF OwedWeight
  <2> QED BY <1>7, <2>2, <2>3
<1> QED BY <1>6, <1>7 DEF Side

LEMMA CancelSettled ==
    ASSUME ExTypes, SettleCancel, NEW c, c = cancels[settling.released + 1], NEW u, NEW s
    PROVE  /\ BackWeight(u, s) = BackWeight(u, s)' + Share(c, u, s)
           /\ BackWeight(u, s)' \in Nat /\ Share(c, u, s) \in Nat
<1> DEFINE k == settling.released + 1
           T == k + 1 .. Len(cancels)
<1>1. /\ cancels \in Seq(CancelRecord) /\ Len(cancels) \in Nat /\ settling.released \in Nat
      /\ k \in 1 .. Len(cancels) /\ cancels' = cancels
  BY LenProperties, CancelTyped
  DEF ExTypes, BookInv, TypeOK, SettlingOK, SettlingRecord, SettleCancel, vars
<1>2. settling'.released = k
  BY SettlingMoves DEF SettlingIs
<1>3. settling.released + 1 .. Len(cancels) = T \cup {k} /\ k \notin T
  BY <1>1
<1>4. Weighable(T \cup {k}, cancels)
  BY <1>1, <1>3, BackTyped
<1>5. BackWeight(u, s)' = Weigh(T, cancels, u, s)
  BY <1>1, <1>2 DEF BackWeight
<1>6. Weighable(T, cancels)
  BY <1>1, BackTyped
<1>7. c = cancels[k] /\ k \in T \cup {k}
  OBVIOUS
<1> HIDE DEF T, k
<1>8. Weigh(T \cup {k}, cancels, u, s) = Weigh(T, cancels, u, s) + Share(cancels[k], u, s)
  BY <1>3, <1>4, WeighInsert
<1>9. Weigh(T, cancels, u, s) \in Nat /\ Share(cancels[k], u, s) \in Nat
  BY <1>4, <1>6, <1>7, WeighNat, ShareNat DEF Weighable
<1> QED BY <1>3, <1>5, <1>7, <1>8, <1>9 DEF BackWeight

-----------------------------------------------------------------------------
(***************************************************************************)
(* Orders of a kind.  Once only orders of the kinds in S (a side, a price  *)
(* and a quantity) are accepted, the pipeline, the book and the records    *)
(* hold no others: an order is only ever made smaller.                     *)
(***************************************************************************)

Closed(S) ==
    \A s \in Side, p \in Nat, q \in Nat, r \in Nat :
        <<s, p, q>> \in S /\ r =< q => <<s, p, r>> \in S

IsIn(x, S) == <<x.side, x.price, x.quantity>> \in S

TradeIsIn(r, S) ==
    /\ r.match_quantity > 0
    /\ <<"BUY", r.buyer_expected_price, r.match_quantity>> \in S
    /\ \E p \in Nat : <<"SELL", p, r.match_quantity>> \in S

BookWithin(S) ==
    /\ \A i \in DOMAIN Live : IsIn(Live[i], S)
    /\ \A k \in 1 .. Len(results) : TradeIsIn(results[k], S)
    /\ \A k \in 1 .. Len(cancels) : IsIn(cancels[k], S)

Within(S) == (\A ev \in Underway : IsIn(ev, S)) /\ BookWithin(S)

LEMMA SubmitWithin ==
    ASSUME BookInv, NEW S, BookWithin(S),
           NEW i \in OrderIds, NEW v \in Users, NEW t \in Side, NEW p \in Prices,
           NEW q \in Quantities, NewOrder(i, v, t, p, q), <<t, p, q>> \in S
    PROVE  BookWithin(S)'
<1>1. PICK o : o = [user_id |-> v, side |-> t, price |-> p, quantity |-> q]
  OBVIOUS
<1>2. Live' = [j \in DOMAIN Live \cup {i} |-> IF j = i THEN o ELSE Live[j]]
  <2>1. Promise!Submit(i, v, t, p, q)
    BY NewOrderImplements
  <2> QED BY <1>1, <2>1 DEF Promise!Submit
<1>3. IsIn(o, S)
  BY <1>1 DEF IsIn
<1>4. \A j \in DOMAIN Live' : IsIn(Live'[j], S)
  BY <1>2, <1>3 DEF BookWithin
<1>5. UNCHANGED <<results, cancels>>
  BY DEF NewOrder
<1> QED BY <1>4, <1>5 DEF BookWithin

\* One more at the end of a sequence.
LEMMA OneMore ==
    ASSUME NEW q, NEW T, q \in Seq(T), NEW r
    PROVE  /\ Len(q) \in Nat /\ Len(Append(q, r)) = Len(q) + 1
           /\ \A k \in 1 .. Len(Append(q, r)) :
                 Append(q, r)[k] = IF k = Len(q) + 1 THEN r ELSE q[k]
           /\ \A k \in 1 .. Len(Append(q, r)) : k # Len(q) + 1 => k \in 1 .. Len(q)
OBVIOUS

LEMMA FillWithin ==
    ASSUME BookInv, IsFiniteSet(DOMAIN order), NEW S, Closed(S), BookWithin(S), Fill
    PROVE  BookWithin(S)'
<1>1. PICK m \in Promise!Waiting : \E qty \in 1 .. Live[m].quantity : Promise!Trade(m, qty)
  BY FillImplements
<1>2. PICK d \in 1 .. Live[m].quantity : Promise!Trade(m, d)
  BY <1>1
<1>3. PICK r : r = Promise!TradeWith(m, d)
  OBVIOUS
<1>4. /\ taker # NoOrder /\ Live[m].side # Live[taker].side
      /\ d =< Live[taker].quantity
      /\ Live' = AfterTrade(Live, taker, m, d)
      /\ results' = Append(results, r)
      /\ cancels' = cancels
  BY <1>2, <1>3 DEF Promise!Trade, Promise!Admissible, AfterTrade
<1>5. taker \in DOMAIN Live /\ m \in DOMAIN Live
  BY <1>1, <1>4, LiveDef DEF Promise!Waiting
<1>6. \A i \in DOMAIN Live : Live[i] \in Order /\ IsIn(Live[i], S)
  BY LiveTyped DEF BookWithin
<1>7. PICK L, a : L = Live /\ a = taker
  OBVIOUS
<1>8. /\ a \in DOMAIN L /\ m \in DOMAIN L /\ L[m].side # L[a].side
      /\ Live' = AfterTrade(L, a, m, d) /\ d \in Nat /\ d > 0
      /\ d =< L[a].quantity /\ d =< L[m].quantity
      /\ \A i \in DOMAIN L : L[i] \in Order /\ IsIn(L[i], S)
  BY <1>4, <1>5, <1>6, <1>7
<1>9. \A x \in Order : /\ x.side \in Side /\ x.price \in Nat /\ x.quantity \in Nat
  BY BookAssumption DEF Order
<1>10. ASSUME NEW x \in Order, IsIn(x, S), NEW e \in Nat, e =< x.quantity
       PROVE  <<x.side, x.price, e>> \in S
  BY <1>9, <1>10 DEF Closed, IsIn
<1>11. ASSUME NEW j \in DOMAIN Live' PROVE IsIn(Live'[j], S)
  <2>1. j \in DOMAIN L
    BY <1>8, <1>11 DEF AfterTrade
  <2>2. PICK x \in Order : x = L[j] /\ IsIn(x, S)
    BY <1>8, <2>1
  <2>3. CASE j \notin {m, a}
    <3>1. Live'[j] = x
      BY <1>8, <1>11, <2>2, <2>3 DEF AfterTrade
    <3> QED BY <2>2, <3>1
  <2>4. CASE j \in {m, a}
    <3>1. d =< x.quantity /\ x.quantity \in Nat
      BY <1>8, <1>9, <2>2, <2>4
    <3>2. Live'[j] = [x EXCEPT !.quantity = x.quantity - d]
      BY <1>8, <1>11, <2>2, <2>4 DEF AfterTrade
    <3>3. /\ Live'[j].side = x.side /\ Live'[j].price = x.price
          /\ Live'[j].quantity = x.quantity - d
      BY <3>2 DEF Order
    <3>4. x.quantity - d \in Nat /\ x.quantity - d =< x.quantity
      BY <1>8, <3>1
    <3>5. <<x.side, x.price, x.quantity - d>> \in S
      BY <1>10, <2>2, <3>4
    <3> QED BY <3>3, <3>5 DEF IsIn
  <2> QED BY <2>3, <2>4
<1>12. TradeIsIn(r, S)
  <2>1. PICK x \in Order, y \in Order : x = L[a] /\ y = L[m] /\ IsIn(x, S) /\ IsIn(y, S)
    BY <1>8
  <2>2. /\ r.buyer_expected_price = (IF x.side = "BUY" THEN x.price ELSE y.price)
        /\ r.match_quantity = d
    BY <1>3, <1>7, <2>1 DEF Promise!TradeWith, Promise!IsBuy
  <2>3. /\ x.side \in Side /\ y.side \in Side /\ x.side # y.side
        /\ x.price \in Nat /\ y.price \in Nat
    BY <1>8, <1>9, <2>1
  <2>4. <<x.side, x.price, d>> \in S /\ <<y.side, y.price, d>> \in S
    BY <1>8, <1>10, <2>1
  <2>5. CASE x.side = "BUY"
    <3>1. y.side = "SELL"
      BY <2>3, <2>5 DEF Side
    <3> QED BY <1>8, <2>2, <2>3, <2>4, <2>5, <3>1 DEF TradeIsIn
  <2>6. CASE x.side # "BUY"
    <3>1. x.side = "SELL" /\ y.side = "BUY"
      BY <2>3, <2>6 DEF Side
    <3> QED BY <1>8, <2>2, <2>3, <2>4, <2>6, <3>1 DEF TradeIsIn
  <2> QED BY <2>5, <2>6
<1>13. \A k \in 1 .. Len(results') : TradeIsIn(results'[k], S)
  <2>1. results \in Seq(MatchRecord)
    BY DEF BookInv, TypeOK
  <2>2. \A k \in 1 .. Len(results) : TradeIsIn(results[k], S)
    BY DEF BookWithin
  <2> QED BY <1>4, <1>12, <2>1, <2>2, OneMore
<1> QED BY <1>4, <1>11, <1>13 DEF BookWithin

LEMMA ConcludeWithin ==
    ASSUME BookInv, NEW S, BookWithin(S), Rest \/ Exhausted
    PROVE  BookWithin(S)'
<1>1. Promise!Conclude
  BY RestImplements, ExhaustedImplements
<1>2. UNCHANGED <<results, cancels>>
  BY DEF Rest, Exhausted
<1>3. Live' = Live \/ Live' = Without(Live, taker)
  BY <1>1 DEF Promise!Conclude, Without
<1>4. \A j \in DOMAIN Live' : IsIn(Live'[j], S)
  BY <1>3 DEF BookWithin, Without
<1> QED BY <1>2, <1>4 DEF BookWithin

LEMMA CancelWithin ==
    ASSUME BookInv, NEW S, BookWithin(S), NEW id \in OrderIds, NEW v \in Users,
           CancelOrder(id, v)
    PROVE  BookWithin(S)'
<1>1. CASE \E i \in DOMAIN Live : Promise!Withdraw(i)
  <2>1. PICK i \in DOMAIN Live : Promise!Withdraw(i)
    BY <1>1
  <2>2. PICK c : c = [order_id |-> i, user_id |-> Live[i].user_id, side |-> Live[i].side,
                      price |-> Live[i].price, quantity |-> Live[i].quantity]
    OBVIOUS
  <2>3. Live' = Without(Live, i) /\ cancels' = Append(cancels, c) /\ results' = results
    BY <2>1, <2>2 DEF Promise!Withdraw, Without
  <2>4. IsIn(c, S)
    BY <2>2 DEF BookWithin, IsIn
  <2>5. \A j \in DOMAIN Live' : IsIn(Live'[j], S)
    BY <2>3 DEF BookWithin, Without
  <2>6. \A k \in 1 .. Len(cancels') : IsIn(cancels'[k], S)
    <3>1. cancels \in Seq(CancelRecord)
      BY DEF BookInv, TypeOK
    <3>2. \A k \in 1 .. Len(cancels) : IsIn(cancels[k], S)
      BY DEF BookWithin
    <3> QED BY <2>3, <2>4, <3>1, <3>2, OneMore
  <2> QED BY <2>3, <2>5, <2>6 DEF BookWithin
<1>2. CASE UNCHANGED <<Live, taker, Arrived, results, cancels>>
  BY <1>2 DEF BookWithin
<1> QED BY <1>1, <1>2, CancelOrderImplements

LEMMA BookWithinKept ==
    ASSUME NEW S, BookWithin(S), UNCHANGED vars
    PROVE  BookWithin(S)'
<1>1. Live' = Live /\ results' = results /\ cancels' = cancels
  BY DEF Live, Resting, RestingOn, vars
<1> QED BY <1>1 DEF BookWithin

\* Each step keeps the pipeline in order and the orders in it of their kinds.
LEMMA StepWithin ==
    ASSUME ExTypes, ExTypes', PipeInv, [ExNext]_allVars
    PROVE  /\ PipeInv'
           /\ \A S : /\ Closed(S) /\ Within(S)
                     /\ \A i \in OrderIds, u \in Users, tk \in Tickers, s \in Side,
                           p \in Prices, q \in Quantities :
                              Trade(i, u, tk, s, p, q) => <<s, p, q>> \in S
                     => Within(S)'
<1>1. ASSUME NEW i \in OrderIds, NEW u \in Users, NEW tk \in Tickers, NEW s \in Side,
             NEW p \in Prices, NEW q \in Quantities, Trade(i, u, tk, s, p, q)
      PROVE  PipeInv' /\ \A S : Within(S) /\ <<s, p, q>> \in S => Within(S)'
  <2>1. PICK ev : ev = [type |-> "NEW_ORDER", order_id |-> i, user_id |-> u, ticker |-> tk,
                        side |-> s, price |-> p, quantity |-> q]
    OBVIOUS
  <2>2. PipeInv' /\ Underway' = Underway \cup {ev}
    BY <1>1, <2>1, TradeEnters
  <2>3. UNCHANGED vars
    BY <1>1 DEF Trade
  <2>4. ASSUME NEW S, Within(S), <<s, p, q>> \in S PROVE Within(S)'
    <3>1. IsIn(ev, S)
      BY <2>1, <2>4 DEF IsIn
    <3>2. BookWithin(S)'
      BY <2>3, <2>4, BookWithinKept DEF Within
    <3> QED BY <2>2, <2>4, <3>1, <3>2 DEF Within
  <2> QED BY <2>2, <2>4
<1>2. CASE PipeInv' /\ Underway' = Underway /\ UNCHANGED vars
  <2>1. ASSUME NEW S, Within(S) PROVE Within(S)'
    BY <1>2, <2>1, BookWithinKept DEF Within
  <2> QED BY <1>2, <2>1
<1>3. CASE \E i \in OrderIds, u \in Users, tk \in Tickers : Cancel(i, u, tk)
  <2>1. PipeInv' /\ Underway' = Underway
    BY <1>3, CancelEventMoves
  <2>2. UNCHANGED vars
    BY <1>3 DEF Cancel
  <2> QED BY <1>2, <2>1, <2>2
<1>4. CASE \/ \E u \in Users, a \in DepositAmounts : DepositToDb(u, a)
           \/ \E u \in Users : DepositToMemory(u)
           \/ BookPushes \/ SettlementThread \/ UNCHANGED allVars
  <2>1. /\ UNCHANGED vars
        /\ UNCHANGED <<issued, walQueue, walBatch, bookQueue, bookBatch, dropped>>
    BY <1>4 DEF DepositToDb, DepositToMemory, BookPushes, SettlementThread, TakeMatches,
                SettleInDb, SettleBuyer, SettleSeller, TakeCancels, SettleCancel, allVars,
                exVars
  <2>2. PipeInv' /\ Underway' = Underway
    BY <2>1, PipelineRests DEF vars
  <2> QED BY <1>2, <2>1, <2>2
<1>5. CASE WalThread \/ BookTake
  <2>1. PipeInv' /\ Underway' = Underway
    BY <1>5, OrdersPassOn
  <2>2. UNCHANGED vars
    BY <1>5 DEF WalThread, WalWrite, WalDispatch, BookTake
  <2> QED BY <1>2, <2>1, <2>2
<1>6. BookInv /\ IsFiniteSet(DOMAIN order)
  BY DEF ExTypes, PipeInv
<1>7. CASE BookHandles /\ Head(bookBatch).type = "NEW_ORDER"
  <2>1. PICK ev : ev = Head(bookBatch)
    OBVIOUS
  <2>2. /\ PipeInv' /\ ev \in Underway /\ ev \in NewOrderEvent
        /\ Underway' = Underway \ {ev}
    BY <1>7, <2>1, OrderReachesBook
  <2>3. NewOrder(ev.order_id, ev.user_id, ev.side, ev.price, ev.quantity)
    BY <1>7, <2>1 DEF BookHandles
  <2>4. /\ ev.order_id \in OrderIds /\ ev.user_id \in Users /\ ev.side \in Side
        /\ ev.price \in Prices /\ ev.quantity \in Quantities
    BY <2>2 DEF NewOrderEvent
  <2>5. ASSUME NEW S, Within(S) PROVE Within(S)'
    <3>1. <<ev.side, ev.price, ev.quantity>> \in S /\ BookWithin(S)
      BY <2>2, <2>5 DEF Within, IsIn
    <3>2. BookWithin(S)'
      BY <1>6, <2>3, <2>4, <3>1, SubmitWithin
    <3> QED BY <2>2, <2>5, <3>2 DEF Within
  <2> QED BY <2>2, <2>5
<1>8. CASE BookHandles /\ Head(bookBatch).type = "CANCEL_ORDER"
  <2>1. PICK ev : ev = Head(bookBatch)
    OBVIOUS
  <2>2. PipeInv' /\ Underway' = Underway
    BY <1>8, CancelEventMoves
  <2>3. CancelOrder(ev.order_id, ev.user_id)
    BY <1>8, <2>1 DEF BookHandles
  <2>4. ev.order_id \in OrderIds /\ ev.user_id \in Users
    <3>1. ev \in EngineEvent
      BY <1>8, <2>1, FirstOut DEF BookHandles, ExTypes, PipelineTyped
    <3> QED BY <3>1 DEF EngineEvent, NewOrderEvent, CancelEvent
  <2>5. ASSUME NEW S, Within(S) PROVE Within(S)'
    BY <1>6, <2>2, <2>3, <2>4, <2>5, CancelWithin DEF Within
  <2> QED BY <2>2, <2>5
<1>9. CASE BookMatches
  <2>1. MatchingLoop /\ UNCHANGED exVars
    BY <1>9 DEF BookMatches
  <2>2. DOMAIN order' = DOMAIN order
    BY <2>1 DEF MatchingLoop, Fill, Rest, Exhausted
  <2>3. PipeInv' /\ Underway' = Underway
    BY <2>1, <2>2, PipelineRests DEF exVars
  <2>4. ASSUME NEW S, Closed(S), Within(S) PROVE Within(S)'
    <3>1. BookWithin(S)'
      BY <1>6, <2>1, <2>4, FillWithin, ConcludeWithin DEF MatchingLoop, Within
    <3> QED BY <2>3, <2>4, <3>1 DEF Within
  <2> QED BY <2>3, <2>4
<1>10. BookHandles => Head(bookBatch).type \in {"NEW_ORDER", "CANCEL_ORDER"}
  BY DEF BookHandles
<1>11. CASE \E i \in OrderIds, u \in Users, tk \in Tickers, s \in Side, p \in Prices,
               q \in Quantities : Trade(i, u, tk, s, p, q)
  <2>1. PICK i \in OrderIds, u \in Users, tk \in Tickers, s \in Side, p \in Prices,
             q \in Quantities : Trade(i, u, tk, s, p, q)
    BY <1>11
  <2>2. PipeInv' /\ \A S : Within(S) /\ <<s, p, q>> \in S => Within(S)'
    BY <1>1, <2>1
  <2>3. ASSUME NEW S,
               \A j \in OrderIds, v \in Users, tl \in Tickers, t \in Side, y \in Prices,
                  x \in Quantities : Trade(j, v, tl, t, y, x) => <<t, y, x>> \in S
        PROVE  <<s, p, q>> \in S
    BY <2>1, <2>3
  <2> QED BY <2>2, <2>3
<1> QED
  BY <1>3, <1>4, <1>5, <1>7, <1>8, <1>9, <1>10, <1>11 DEF ExNext, Handlers, BookThread

-----------------------------------------------------------------------------
(***************************************************************************)
(* What is frozen is backed after every step.                              *)
(***************************************************************************)

LEMMA FrozenAfter ==
    ASSUME MoneyTyped, NEW v \in Users, NEW a, account' = [account EXCEPT ![v] = a]
    PROVE  \A u \in Users, s \in Side :
               Frozen(u, s)' = IF u = v THEN IF s = "BUY" THEN a.frozen_balance ELSE a.frozen_stock
                               ELSE Frozen(u, s)
BY DEF MoneyTyped, Frozen

LEMMA FrozenTyped ==
    ASSUME MoneyTyped, NEW u \in Users, NEW s \in Side
    PROVE  Frozen(u, s) \in Int /\ account[u] \in Account
<1>1. account[u] \in Account
  BY DEF MoneyTyped
<1> QED BY <1>1 DEF Frozen, Account

\* The weights depend on no more than this.
LEMMA WeightsKept ==
    ASSUME NEW u, NEW s
    PROVE  /\ Underway' = Underway => WayWeight(u, s)' = WayWeight(u, s)
           /\ UNCHANGED vars => BookWeight(u, s)' = BookWeight(u, s)
           /\ (/\ results' = results /\ settling'.settled = settling.settled
               /\ (settling'.step = 5 <=> settling.step = 5))
              => OwedWeight(u, s)' = OwedWeight(u, s)
           /\ cancels' = cancels /\ settling'.released = settling.released
              => BackWeight(u, s)' = BackWeight(u, s)
<1>1. Underway' = Underway => WayWeight(u, s)' = WayWeight(u, s)
  BY DEF WayWeight
<1>2. ASSUME UNCHANGED vars PROVE BookWeight(u, s)' = BookWeight(u, s)
  <2>1. Live' = Live
    BY <1>2 DEF Live, Resting, RestingOn, vars
  <2> QED BY <2>1 DEF BookWeight
<1>3. ASSUME results' = results, settling'.settled = settling.settled,
             settling'.step = 5 <=> settling.step = 5
      PROVE  OwedWeight(u, s)' = OwedWeight(u, s)
  <2>1. Owing(settling'.settled, settling'.step, Len(results'), s) =
        Owing(settling.settled, settling.step, Len(results), s)
    BY <1>3 DEF Owing
  <2> QED BY <1>3, <2>1 DEF OwedWeight
<1>4. cancels' = cancels /\ settling'.released = settling.released
      => BackWeight(u, s)' = BackWeight(u, s)
  BY DEF BackWeight
<1> QED BY <1>1, <1>2, <1>3, <1>4

\* Orders whose reservation is their worth.
FittingKinds == {t \in Side \X Nat \X Nat : Fits(t[1], t[2], t[3])}

LEMMA FittingIs ==
    ASSUME NEW s \in Side, NEW p \in Nat, NEW q \in Nat
    PROVE  <<s, p, q>> \in FittingKinds <=> Fits(s, p, q)
<1>1. PICK t : t = <<s, p, q>>
  OBVIOUS
<1>2. t \in Side \X Nat \X Nat /\ t[1] = s /\ t[2] = p /\ t[3] = q
  BY <1>1
<1>3. t \in FittingKinds <=> Fits(s, p, q)
  BY <1>2, Zenon DEF FittingKinds
<1> QED BY <1>1, <1>3

LEMMA FittingClosed == Closed(FittingKinds)
<1> SUFFICES ASSUME NEW s \in Side, NEW p \in Nat, NEW q \in Nat, NEW r \in Nat,
                    <<s, p, q>> \in FittingKinds, r =< q
             PROVE  <<s, p, r>> \in FittingKinds
  BY DEF Closed
<1>1. Fits(s, p, q)
  BY FittingIs
<1>2. Fits(s, p, r)
  BY <1>1, FitsLess
<1> QED BY <1>2, FittingIs

Fitted == Within(FittingKinds)

NothingUnlisted == \A u \in Users : account[u].unlisted_stock = 0

\* The inductive invariant while no order with the wrong reservation was accepted.
LedgerInv == ExTypes /\ PipeInv /\ Fitted /\ NothingUnlisted /\ Backed

LEMMA TradeFits ==
    ASSUME NEW i \in OrderIds, NEW v \in Users, NEW tk \in Tickers, NEW t \in Side,
           NEW p \in Prices, NEW q \in Quantities, Trade(i, v, tk, t, p, q), ~ wrapped'
    PROVE  /\ Amount(t, p, q) = Worth(t, p, q) /\ Amount(t, p, q) \in Nat
           /\ <<t, p, q>> \in FittingKinds
<1>1. Amount(t, p, q) = Worth(t, p, q)
  BY DEF Trade
<1>2. p \in Nat /\ q \in Nat
  BY BookAssumption
<1>3. Fits(t, p, q)
  BY <1>1, <1>2, AmountTyped
<1>4. Worth(t, p, q) \in Nat
  BY <1>2, WorthTyped
<1> QED BY <1>1, <1>2, <1>3, <1>4, FittingIs

\* The trade and the cancel that settlement is at, when all orders fit.
LEMMA RecFits ==
    ASSUME ExTypes, Fitted, settling.matches > 0
    PROVE  /\ sell_money \in Nat /\ refund_money \in Nat
           /\ sell_money + refund_money = rec.buyer_expected_price * rec.match_quantity
           /\ shares = rec.match_quantity /\ rec.match_quantity \in Nat
<1>1. /\ settling.settled + 1 \in 1 .. Len(results)
      /\ rec.match_quantity \in Nat /\ rec.buyer_expected_price \in Nat
  BY RecTyped
<1>2. TradeIsIn(rec, FittingKinds)
  BY <1>1 DEF Fitted, Within, BookWithin, rec
<1>3. PICK r : r = rec
  OBVIOUS
<1>4. PICK p \in Nat : /\ <<"BUY", r.buyer_expected_price, r.match_quantity>> \in FittingKinds
                       /\ <<"SELL", p, r.match_quantity>> \in FittingKinds
  BY <1>2, <1>3 DEF TradeIsIn
<1>5. "BUY" \in Side /\ "SELL" \in Side
  BY DEF Side
<1>6. r.match_quantity \in Nat /\ r.buyer_expected_price \in Nat
  BY <1>1, <1>3
<1>7. /\ Fits("BUY", r.buyer_expected_price, r.match_quantity)
      /\ Fits("SELL", p, r.match_quantity)
  BY <1>4, <1>5, <1>6, FittingIs
<1>8. 2 * r.match_quantity < IntSpace
  BY <1>7 DEF Fits
<1> QED BY <1>1, <1>3, <1>7, <1>8, RecExact

LEMMA CancelFits ==
    ASSUME ExTypes, Fitted, settling.cancels > 0,
           NEW c, c = cancels[settling.released + 1]
    PROVE  /\ Amount(c.side, c.price, c.quantity) = Worth(c.side, c.price, c.quantity)
           /\ Amount(c.side, c.price, c.quantity) \in Nat
<1>1. /\ settling.released + 1 \in 1 .. Len(cancels)
      /\ c.side \in Side /\ c.price \in Nat /\ c.quantity \in Nat
  BY CancelTyped
<1>2. IsIn(c, FittingKinds)
  BY <1>1 DEF Fitted, Within, BookWithin
<1>3. Fits(c.side, c.price, c.quantity)
  BY <1>1, <1>2, FittingIs DEF IsIn
<1> QED BY <1>1, <1>3, AmountTyped, WorthTyped

\* Only a sell order for an unknown ticker touches the stock of that ticker.
LEMMA StepUnlisted ==
    ASSUME ExTypes, [ExNext]_allVars, NEW u \in Users
    PROVE  \/ account'[u].unlisted_stock = account[u].unlisted_stock
           \/ \E i \in OrderIds, tk \in Tickers, s \in Side, p \in Prices, q \in Quantities :
                 /\ Trade(i, u, tk, s, p, q) /\ s # "BUY" /\ tk # "listed"
                 /\ account'[u].unlisted_stock = account[u].unlisted_stock - Amount(s, p, q)
<1>0. account \in [Users -> Account]
  BY DEF ExTypes, MoneyTyped
<1>1. ASSUME NEW v \in Users, NEW a, account' = [account EXCEPT ![v] = a],
             a.unlisted_stock = account[v].unlisted_stock
      PROVE  account'[u].unlisted_stock = account[u].unlisted_stock
  BY <1>0, <1>1
<1>2. CASE account' = account
  BY <1>2
<1>3. ASSUME NEW i \in OrderIds, NEW v \in Users, NEW tk \in Tickers, NEW s \in Side,
             NEW p \in Prices, NEW q \in Quantities, Trade(i, v, tk, s, p, q)
      PROVE  \/ account'[u].unlisted_stock = account[u].unlisted_stock
             \/ /\ u = v /\ s # "BUY" /\ tk # "listed"
                /\ account'[u].unlisted_stock = account[u].unlisted_stock - Amount(s, p, q)
  <2>1. PICK a, x : a = account[v] /\ x = Amount(s, p, q)
    OBVIOUS
  <2>2. account' = [account EXCEPT ![v] = Reserve(a, tk, s, p, q)] /\ a \in Account
    BY <1>0, <1>3, <2>1 DEF Trade
  <2>3. CASE s = "BUY" \/ tk = "listed"
    <3>1. Reserve(a, tk, s, p, q).unlisted_stock = a.unlisted_stock
      BY <2>2, <2>3, UnlistedKept DEF Reserve
    <3> QED BY <1>1, <2>1, <2>2, <3>1
  <2>4. CASE s # "BUY" /\ tk # "listed"
    <3>1. Reserve(a, tk, s, p, q).unlisted_stock = a.unlisted_stock - x
      BY <2>1, <2>2, <2>4, UnlistedKept DEF Reserve
    <3>2. account'[u] = IF u = v THEN Reserve(a, tk, s, p, q) ELSE account[u]
      BY <1>0, <2>2
    <3> QED BY <2>1, <2>4, <3>1, <3>2
  <2> QED BY <2>3, <2>4
<1>4. ASSUME NEW v \in Users, DepositToMemory(v)
      PROVE  account'[u].unlisted_stock = account[u].unlisted_stock
  <2>1. AddBalance(account[v], deposits[v]).unlisted_stock = account[v].unlisted_stock
    BY <1>0, UnlistedKept
  <2>2. account' = [account EXCEPT ![v] = AddBalance(account[v], deposits[v])]
    BY <1>4 DEF DepositToMemory
  <2> QED BY <1>1, <2>1, <2>2
<1>5. CASE SettleBuyer
  <2>1. settling.matches > 0
    BY <1>5 DEF SettleBuyer
  <2>2. PICK v \in Users : v = rec.buyer
    BY <2>1, RecTyped
  <2>3. account' = [account EXCEPT ![v] = CommitBuy(account[v], sell_money, shares, refund_money)]
    BY <1>5, <2>2 DEF SettleBuyer
  <2>4. CommitBuy(account[v], sell_money, shares, refund_money).unlisted_stock =
           account[v].unlisted_stock
    BY <1>0, UnlistedKept
  <2> QED BY <1>1, <2>3, <2>4
<1>6. CASE SettleSeller
  <2>1. settling.matches > 0
    BY <1>6 DEF SettleSeller
  <2>2. PICK v \in Users : v = rec.seller
    BY <2>1, RecTyped
  <2>3. account' = [account EXCEPT ![v] = CommitSell(account[v], sell_money, shares)]
    BY <1>6, <2>2 DEF SettleSeller
  <2>4. CommitSell(account[v], sell_money, shares).unlisted_stock = account[v].unlisted_stock
    BY <1>0, UnlistedKept
  <2> QED BY <1>1, <2>3, <2>4
<1>7. CASE SettleCancel
  <2>1. PICK c : c = cancels[settling.released + 1]
    OBVIOUS
  <2>2. settling.cancels > 0 /\ account' = [account EXCEPT ![c.user_id] = Release(account[c.user_id], c)]
    BY <1>7, <2>1 DEF SettleCancel
  <2>3. c.user_id \in Users
    BY <2>1, <2>2, CancelTyped
  <2>4. Release(account[c.user_id], c).unlisted_stock = account[c.user_id].unlisted_stock
    BY <1>0, <2>3, UnlistedKept DEF Release
  <2> QED BY <1>1, <2>2, <2>3, <2>4
<1>8. CASE \/ \E i \in OrderIds, v \in Users, tk \in Tickers : Cancel(i, v, tk)
           \/ \E v \in Users, a \in DepositAmounts : DepositToDb(v, a)
           \/ WalThread \/ BookThread \/ TakeMatches \/ SettleInDb \/ TakeCancels
           \/ UNCHANGED allVars
  <2>1. account' = account
    BY <1>8 DEF Cancel, DepositToDb, WalThread, BookThread, WalWrite, WalDispatch, BookTake,
                BookHandles, BookMatches, BookPushes, TakeMatches, SettleInDb, TakeCancels,
                allVars, exVars
  <2> QED BY <2>1
<1> QED
  BY <1>3, <1>4, <1>5, <1>6, <1>7, <1>8 DEF ExNext, Handlers, SettlementThread

LEMMA TradeBacked ==
    ASSUME LedgerInv, ExTypes', ~ wrapped',
           NEW i \in OrderIds, NEW v \in Users, NEW tk \in Tickers, NEW t \in Side,
           NEW p \in Prices, NEW q \in Quantities, Trade(i, v, tk, t, p, q)
    PROVE  Backed'
<1>1. PICK ev : ev = [type |-> "NEW_ORDER", order_id |-> i, user_id |-> v, ticker |-> tk,
                      side |-> t, price |-> p, quantity |-> q]
  OBVIOUS
<1>2. ev \in NewOrderEvent
  BY <1>1 DEF NewOrderEvent
<1>3. PipeInv' /\ ev \notin Underway /\ Underway' = Underway \cup {ev}
  BY <1>1, TradeEnters DEF LedgerInv
<1>4. ASSUME NEW u \in Users, NEW s \in Side PROVE Balanced(u, s)'
  <2>1. WayWeight(u, s)' = WayWeight(u, s) + Share(ev, u, s)
    BY <1>2, <1>3, WayInsert, UnderwayTyped DEF WayWeight, LedgerInv, PipeInv
  <2>2. UNCHANGED vars /\ UNCHANGED settling
    BY DEF Trade
  <2>3. /\ BookWeight(u, s)' = BookWeight(u, s) /\ OwedWeight(u, s)' = OwedWeight(u, s)
        /\ BackWeight(u, s)' = BackWeight(u, s)
    BY <2>2, WeightsKept DEF vars
  <2>4. Frozen(u, s)' = Frozen(u, s) + Share(ev, u, s)
    <3>1. PICK a, x : a = account[v] /\ x = Amount(t, p, q)
      OBVIOUS
    <3>2. /\ MoneyTyped /\ a \in Account /\ x \in Nat /\ x = Worth(t, p, q)
          /\ Frozen(u, s) \in Int
      BY <3>1, FrozenTyped, TradeFits DEF LedgerInv, ExTypes
    <3>3. t # "BUY" /\ tk # "listed" => x = 0
      <4>1. a.unlisted_stock = 0
        BY <3>1 DEF LedgerInv, NothingUnlisted
      <4>2. Available(a, tk, t) >= x
        BY <3>1 DEF Trade, Affordable
      <4> QED BY <3>2, <4>1, <4>2 DEF Available
    <3>4. PICK b : b = Reserve(a, tk, t, p, q)
      OBVIOUS
    <3>5. account' = [account EXCEPT ![v] = b]
      BY <3>1, <3>4 DEF Trade
    <3>6. a.frozen_balance \in Int /\ a.frozen_stock \in Int
      BY <3>2 DEF Account
    <3>7. /\ b.frozen_balance = (IF t = "BUY" THEN a.frozen_balance + x ELSE a.frozen_balance)
          /\ b.frozen_stock = (IF t = "BUY" THEN a.frozen_stock ELSE a.frozen_stock + x)
      <4>1. b = IF t = "BUY" THEN FreezeBalance(a, x)
                ELSE IF tk = "listed" THEN FreezeStock(a, x) ELSE FreezeUnlisted(a, x)
        BY <3>1, <3>4 DEF Reserve
      <4>2. AccountIs(FreezeBalance(a, x), a.available_balance - x, a.frozen_balance + x,
                      a.available_stock, a.frozen_stock)
        BY <3>2, AccountOps
      <4>3. AccountIs(FreezeStock(a, x), a.available_balance, a.frozen_balance,
                      a.available_stock - x, a.frozen_stock + x)
        BY <3>2, AccountOps
      <4>4. AccountIs(FreezeUnlisted(a, x), a.available_balance, a.frozen_balance,
                      a.available_stock, a.frozen_stock)
        BY <3>2, AccountOps
      <4> QED BY <3>3, <3>6, <4>1, <4>2, <4>3, <4>4 DEF AccountIs
    <3>8. Share(ev, u, s) = IF u = v /\ s = t THEN x ELSE 0
      BY <1>1, <3>2 DEF Share
    <3>9. Frozen(u, s)' = IF u = v THEN IF s = "BUY" THEN b.frozen_balance ELSE b.frozen_stock
                          ELSE Frozen(u, s)
      BY <3>2, <3>5, FrozenAfter
    <3>10. CASE u # v
      BY <3>2, <3>8, <3>9, <3>10
    <3>11. CASE u = v
      <4>1. Frozen(u, s) = IF s = "BUY" THEN a.frozen_balance ELSE a.frozen_stock
        BY <3>1, <3>11 DEF Frozen
      <4> QED BY <3>2, <3>6, <3>7, <3>8, <3>9, <3>11, <4>1 DEF Side
    <3> QED BY <3>10, <3>11
  <2>5. Share(ev, u, s) \in Nat
    BY <1>2, ShareNat, BookAssumption DEF NewOrderEvent
  <2>6. Balanced(u, s)
    BY DEF LedgerInv, Backed
  <2>7. /\ WayWeight(u, s) \in Nat /\ BookWeight(u, s) \in Nat
        /\ OwedWeight(u, s) \in Nat /\ BackWeight(u, s) \in Nat
    BY WeightsNat DEF LedgerInv
  <2> QED BY <2>1, <2>3, <2>4, <2>5, <2>6, <2>7 DEF Balanced
<1> QED BY <1>4 DEF Backed

\* Steps that change neither what is frozen nor a weight.
LEMMA RestBacked ==
    ASSUME Backed, Underway' = Underway, UNCHANGED vars,
           \A u \in Users, s \in Side : Frozen(u, s)' = Frozen(u, s),
           settling'.settled = settling.settled, settling'.step = 5 <=> settling.step = 5,
           settling'.released = settling.released
    PROVE  Backed'
<1> SUFFICES ASSUME NEW u \in Users, NEW s \in Side PROVE Balanced(u, s)'
  BY DEF Backed
<1>1. /\ WayWeight(u, s)' = WayWeight(u, s) /\ BookWeight(u, s)' = BookWeight(u, s)
      /\ OwedWeight(u, s)' = OwedWeight(u, s) /\ BackWeight(u, s)' = BackWeight(u, s)
  BY WeightsKept DEF vars
<1>2. Balanced(u, s)
  BY DEF Backed
<1> QED BY <1>1, <1>2 DEF Balanced

LEMMA HandlersBacked ==
    ASSUME LedgerInv, ExTypes', ~ wrapped', Handlers
    PROVE  Backed'
<1> USE DEF LedgerInv
<1>1. ASSUME NEW i \in OrderIds, NEW v \in Users, NEW tk \in Tickers, NEW t \in Side,
             NEW p \in Prices, NEW q \in Quantities, Trade(i, v, tk, t, p, q)
      PROVE  Backed'
  BY <1>1, TradeBacked
<1>2. ASSUME NEW i \in OrderIds, NEW v \in Users, NEW tk \in Tickers, Cancel(i, v, tk)
      PROVE  Backed'
  <2>1. PipeInv' /\ Underway' = Underway
    BY <1>2, CancelEventMoves
  <2>2. UNCHANGED <<vars, account, settling>>
    BY <1>2 DEF Cancel
  <2>3. \A u \in Users, s \in Side : Frozen(u, s)' = Frozen(u, s)
    BY <2>2 DEF Frozen
  <2> QED BY <2>1, <2>2, <2>3, RestBacked
<1>3. ASSUME NEW v \in Users, NEW a \in DepositAmounts, DepositToDb(v, a)
      PROVE  Backed'
  <2>1. UNCHANGED <<vars, account, settling>>
        /\ UNCHANGED <<issued, walQueue, walBatch, bookQueue, bookBatch, dropped>>
    BY <1>3 DEF DepositToDb
  <2>2. PipeInv' /\ Underway' = Underway
    BY <2>1, PipelineRests DEF vars
  <2>3. \A u \in Users, s \in Side : Frozen(u, s)' = Frozen(u, s)
    BY <2>1 DEF Frozen
  <2> QED BY <2>1, <2>2, <2>3, RestBacked
<1>4. ASSUME NEW v \in Users, DepositToMemory(v)
      PROVE  Backed'
  <2>1. UNCHANGED <<vars, settling>>
        /\ UNCHANGED <<issued, walQueue, walBatch, bookQueue, bookBatch, dropped>>
        /\ account' = [account EXCEPT ![v] = AddBalance(account[v], deposits[v])]
    BY <1>4 DEF DepositToMemory
  <2>2. PipeInv' /\ Underway' = Underway
    BY <2>1, PipelineRests DEF vars
  <2>3. deposits[v] \in Int
    <3>1. deposits[v] \in DepositAmounts \cup {0}
      BY DEF ExTypes, MoneyTyped
    <3>2. \A a \in DepositAmounts \cup {0} : a \in Int
      BY ExchangeAssumption
    <3> QED BY <3>1, <3>2
  <2>4. account[v] \in Account
    BY DEF ExTypes, MoneyTyped
  <2>5. ASSUME NEW u \in Users, NEW s \in Side PROVE Frozen(u, s)' = Frozen(u, s)
    <3>1. /\ AddBalance(account[v], deposits[v]).frozen_balance = account[v].frozen_balance
          /\ AddBalance(account[v], deposits[v]).frozen_stock = account[v].frozen_stock
      BY <2>3, <2>4, AccountOps DEF AccountIs
    <3>2. Frozen(u, s)' = IF u = v THEN IF s = "BUY" THEN account[v].frozen_balance
                                                     ELSE account[v].frozen_stock
                          ELSE Frozen(u, s)
      BY <2>1, <3>1, FrozenAfter DEF ExTypes
    <3> QED BY <3>2 DEF Frozen
  <2> QED BY <2>1, <2>2, <2>5, RestBacked
<1> QED BY <1>1, <1>2, <1>3, <1>4 DEF Handlers

LEMMA WeightsNatNext ==
    ASSUME ExTypes', PipeInv', NEW u, NEW s
    PROVE  /\ BookWeight(u, s)' \in Nat /\ OwedWeight(u, s)' \in Nat
           /\ BackWeight(u, s)' \in Nat
<1>1. DOMAIN Live' \subseteq DOMAIN order'
  BY LiveNextDef DEF ExTypes, BookInv, HistoryAgrees, Resting, RestingOn
<1>2. order' \in [DOMAIN order' -> Order]
  BY DEF ExTypes, BookInv, TypeOK, IsOrders
<1>3. \A i \in DOMAIN Live' : Live'[i] \in Order
  BY <1>1, <1>2, LiveNextDef
<1>4. IsFiniteSet(DOMAIN Live')
  <2>1. IsFiniteSet(DOMAIN order')
    BY DEF PipeInv
  <2> QED BY <1>1, <2>1, FS_Subset
<1>5. \A x \in Order : x.price \in Nat /\ x.quantity \in Nat
  BY BookAssumption DEF Order
<1>6. Weighable(DOMAIN Live', Live')
  BY <1>3, <1>4, <1>5 DEF Weighable
<1>7. BookWeight(u, s)' \in Nat
  BY <1>6, WeighNat DEF BookWeight
<1>8. settling'.settled \in Nat /\ settling'.released \in Nat
      /\ results' \in Seq(MatchRecord) /\ cancels' \in Seq(CancelRecord)
  BY DEF ExTypes, SettlingOK, SettlingRecord, BookInv, TypeOK
<1>9. Weighable(Owing(settling'.settled, settling'.step, Len(results'), s), OwedIn(results', s))
  BY <1>8, OwedTyped
<1>10. OwedWeight(u, s)' \in Nat
  BY <1>9, WeighNat DEF OwedWeight
<1>11. BackWeight(u, s)' \in Nat
  BY <1>8, BackTyped, WeighNat DEF BackWeight
<1> QED BY <1>7, <1>10, <1>11

LEMMA PipelineBacked ==
    ASSUME LedgerInv, ExTypes', WalThread \/ BookThread
    PROVE  Backed'
<1>0. UNCHANGED <<account, settling>>
  BY DEF WalThread, BookThread, WalWrite, WalDispatch, BookTake, BookHandles, BookMatches,
         BookPushes, exVars
<1>1. \A u \in Users, s \in Side : Frozen(u, s)' = Frozen(u, s)
  BY <1>0 DEF Frozen
<1>2. ASSUME NEW u \in Users, NEW s \in Side
      PROVE  /\ WayWeight(u, s) \in Nat /\ BookWeight(u, s) \in Nat
             /\ OwedWeight(u, s) \in Nat /\ BackWeight(u, s) \in Nat
             /\ Balanced(u, s)
  BY WeightsNat DEF LedgerInv, Backed
<1>3. CASE WalThread \/ BookTake
  <2>1. PipeInv' /\ Underway' = Underway
    BY <1>3, OrdersPassOn DEF LedgerInv
  <2>2. UNCHANGED vars
    BY <1>3 DEF WalThread, WalWrite, WalDispatch, BookTake
  <2> QED BY <1>0, <1>1, <2>1, <2>2, RestBacked DEF LedgerInv
<1>4. CASE BookPushes
  <2>1. UNCHANGED vars
        /\ UNCHANGED <<issued, walQueue, walBatch, bookQueue, bookBatch, dropped>>
    BY <1>4 DEF BookPushes
  <2>2. PipeInv' /\ Underway' = Underway
    BY <2>1, PipelineRests DEF LedgerInv, vars
  <2> QED BY <1>0, <1>1, <2>1, <2>2, RestBacked DEF LedgerInv
<1>5. CASE BookHandles /\ Head(bookBatch).type = "NEW_ORDER"
  <2>1. PICK ev : ev = Head(bookBatch)
    OBVIOUS
  <2>2. /\ PipeInv' /\ ev \in Underway /\ ev \in NewOrderEvent
        /\ Underway' = Underway \ {ev}
    BY <1>5, <2>1, OrderReachesBook DEF LedgerInv
  <2>3. /\ NewOrder(ev.order_id, ev.user_id, ev.side, ev.price, ev.quantity)
        /\ UNCHANGED <<results, cancels>>
    BY <1>5, <2>1 DEF BookHandles, NewOrder
  <2>4. /\ ev.order_id \in OrderIds /\ ev.user_id \in Users /\ ev.side \in Side
        /\ ev.price \in Prices /\ ev.quantity \in Quantities
    BY <2>2 DEF NewOrderEvent
  <2>5. ASSUME NEW u \in Users, NEW s \in Side PROVE Balanced(u, s)'
    <3>1. BookWeight(u, s)' = BookWeight(u, s) + Share(ev, u, s)
      BY <2>3, <2>4, SubmitWeighs DEF LedgerInv, ExTypes, PipeInv
    <3>2. WayWeight(u, s) = WayWeight(u, s)' + Share(ev, u, s)
      <4>1. PICK E : E = Underway'
        OBVIOUS
      <4>2. /\ E \cup {ev} = Underway /\ ev \notin E /\ IsFiniteSet(E)
            /\ E \subseteq NewOrderEvent
        BY <2>2, <4>1, UnderwayTyped DEF LedgerInv, PipeInv
      <4>3. Weigh(E \cup {ev}, Itself(E \cup {ev}), u, s) =
               Weigh(E, Itself(E), u, s) + Share(ev, u, s)
        BY <2>2, <4>2, WayInsert
      <4> QED BY <4>1, <4>2, <4>3 DEF WayWeight
    <3>3. OwedWeight(u, s)' = OwedWeight(u, s) /\ BackWeight(u, s)' = BackWeight(u, s)
      BY <1>0, <2>3, WeightsKept
    <3>4. Share(ev, u, s) \in Nat
      BY <2>4, ShareNat, BookAssumption
    <3>5. WayWeight(u, s)' \in Nat
      <4>1. \A e \in Underway' : Itself(Underway')[e] = e /\ e.price \in Nat /\ e.quantity \in Nat
        BY <2>2, UnderwayTyped, BookAssumption DEF Itself, NewOrderEvent, LedgerInv
      <4>2. Weighable(Underway', Itself(Underway'))
        BY <2>2, <4>1 DEF Weighable, PipeInv
      <4> QED BY <4>2, WeighNat DEF WayWeight
    <3> QED BY <1>1, <1>2, <3>1, <3>2, <3>3, <3>4, <3>5 DEF Balanced
  <2> QED BY <2>5 DEF Backed
<1>6. CASE BookHandles /\ Head(bookBatch).type = "CANCEL_ORDER"
  <2>1. PICK ev : ev = Head(bookBatch)
    OBVIOUS
  <2>2. PipeInv' /\ Underway' = Underway
    BY <1>6, CancelEventMoves DEF LedgerInv
  <2>3. CancelOrder(ev.order_id, ev.user_id) /\ UNCHANGED results
    BY <1>6, <2>1 DEF BookHandles, CancelOrder
  <2>4. ev.order_id \in OrderIds /\ ev.user_id \in Users
    <3>1. ev \in EngineEvent
      BY <1>6, <2>1, FirstOut DEF BookHandles, LedgerInv, ExTypes, PipelineTyped
    <3> QED BY <3>1 DEF EngineEvent, NewOrderEvent, CancelEvent
  <2>5. ASSUME NEW u \in Users, NEW s \in Side PROVE Balanced(u, s)'
    <3>1. BookWeight(u, s)' + BackWeight(u, s)' = BookWeight(u, s) + BackWeight(u, s)
      BY <1>0, <2>3, <2>4, CancelWeighs DEF LedgerInv
    <3>2. WayWeight(u, s)' = WayWeight(u, s) /\ OwedWeight(u, s)' = OwedWeight(u, s)
      BY <1>0, <2>2, <2>3, WeightsKept
    <3>3. BookWeight(u, s)' \in Int /\ BackWeight(u, s)' \in Int
      BY WeightsNatNext, <2>2
    <3> QED BY <1>1, <1>2, <3>1, <3>2, <3>3 DEF Balanced
  <2> QED BY <2>5 DEF Backed
<1>7. CASE BookMatches
  <2>1. MatchingLoop /\ UNCHANGED exVars /\ UNCHANGED cancels
    BY <1>7 DEF BookMatches, MatchingLoop, Fill, Rest, Exhausted
  <2>2. DOMAIN order' = DOMAIN order
    BY <2>1 DEF MatchingLoop, Fill, Rest, Exhausted
  <2>3. PipeInv' /\ Underway' = Underway
    BY <2>1, <2>2, PipelineRests DEF LedgerInv, exVars
  <2>4. ASSUME NEW u \in Users, NEW s \in Side PROVE Balanced(u, s)'
    <3>1. BookWeight(u, s)' + OwedWeight(u, s)' = BookWeight(u, s) + OwedWeight(u, s)
      <4>1. CASE Fill
        BY <1>0, <4>1, FillWeighs DEF LedgerInv
      <4>2. CASE Rest \/ Exhausted
        <5>1. BookWeight(u, s)' = BookWeight(u, s)
          BY <4>2, ConcludeWeighs DEF LedgerInv
        <5>2. results' = results
          BY <4>2 DEF Rest, Exhausted
        <5>3. OwedWeight(u, s)' = OwedWeight(u, s)
          BY <1>0, <5>2, WeightsKept
        <5> QED BY <5>1, <5>3
      <4> QED BY <2>1, <4>1, <4>2 DEF MatchingLoop
    <3>2. WayWeight(u, s)' = WayWeight(u, s) /\ BackWeight(u, s)' = BackWeight(u, s)
      BY <1>0, <2>1, <2>3, WeightsKept
    <3>3. BookWeight(u, s)' \in Int /\ OwedWeight(u, s)' \in Int
      BY WeightsNatNext, <2>3
    <3> QED BY <1>1, <1>2, <3>1, <3>2, <3>3 DEF Balanced
  <2> QED BY <2>4 DEF Backed
<1>8. BookHandles => Head(bookBatch).type \in {"NEW_ORDER", "CANCEL_ORDER"}
  BY DEF BookHandles
<1> QED BY <1>3, <1>4, <1>5, <1>6, <1>7, <1>8 DEF BookThread

LEMMA SettlementBacked ==
    ASSUME LedgerInv, ExTypes', SettlementThread
    PROVE  Backed'
<1>0. /\ UNCHANGED vars
      /\ UNCHANGED <<issued, walQueue, walBatch, bookQueue, bookBatch, dropped>>
  BY DEF SettlementThread, TakeMatches, SettleInDb, SettleBuyer, SettleSeller, TakeCancels,
         SettleCancel
<1>1. PipeInv' /\ Underway' = Underway
  BY <1>0, PipelineRests DEF LedgerInv, vars
<1>2. ASSUME NEW u \in Users, NEW s \in Side
      PROVE  /\ WayWeight(u, s) \in Nat /\ BookWeight(u, s) \in Nat
             /\ OwedWeight(u, s) \in Nat /\ BackWeight(u, s) \in Nat
             /\ Balanced(u, s) /\ Frozen(u, s) \in Int
             /\ WayWeight(u, s)' = WayWeight(u, s) /\ BookWeight(u, s)' = BookWeight(u, s)
             /\ OwedWeight(u, s)' \in Nat
  BY <1>0, <1>1, WeightsNat, WeightsNatNext, WeightsKept, FrozenTyped
  DEF LedgerInv, ExTypes, Backed
<1>3. MoneyTyped /\ \A v \in Users : account[v] \in Account
  BY DEF LedgerInv, ExTypes, MoneyTyped
<1>4. CASE TakeMatches \/ SettleInDb \/ TakeCancels
  <2>1. UNCHANGED account
    BY <1>4 DEF TakeMatches, SettleInDb, TakeCancels
  <2>2. \A u \in Users, s \in Side : Frozen(u, s)' = Frozen(u, s)
    BY <2>1 DEF Frozen
  <2>3. /\ settling'.settled = settling.settled /\ settling'.released = settling.released
        /\ (settling'.step = 5 <=> settling.step = 5)
    <3>1. SettleInDb => settling.step \in 0 .. 3
      BY DEF SettleInDb, Statement
    <3> QED BY <1>4, <3>1, SettlingMoves DEF SettlingIs, LedgerInv
  <2> QED BY <1>0, <1>1, <2>2, <2>3, RestBacked DEF LedgerInv
<1>5. CASE SettleBuyer
  <2>1. PICK a : a = CommitBuy(account[rec.buyer], sell_money, shares, refund_money)
    OBVIOUS
  <2>2. settling.matches > 0 /\ account' = [account EXCEPT ![rec.buyer] = a]
    BY <1>5, <2>1 DEF SettleBuyer
  <2>3. /\ rec.buyer \in Users /\ sell_money \in Nat /\ refund_money \in Nat
        /\ shares \in Int
        /\ sell_money + refund_money = rec.buyer_expected_price * rec.match_quantity
    BY <2>2, RecTyped, RecFits DEF LedgerInv
  <2>4. /\ a.frozen_balance = account[rec.buyer].frozen_balance - (sell_money + refund_money)
        /\ a.frozen_stock = account[rec.buyer].frozen_stock
    <3>1. PICK b, x, y, z : /\ b = account[rec.buyer] /\ x = sell_money /\ y = shares
                            /\ z = refund_money
      OBVIOUS
    <3>2. b \in Account /\ x \in Int /\ y \in Int /\ z \in Int
      BY <1>3, <2>3, <3>1
    <3>3. AccountIs(CommitBuy(b, x, y, z), b.available_balance + z, b.frozen_balance - (x + z),
                    b.available_stock + y, b.frozen_stock)
      BY <3>2, AccountOps
    <3> QED BY <2>1, <3>1, <3>3 DEF AccountIs
  <2>5. ASSUME NEW u \in Users, NEW s \in Side PROVE Balanced(u, s)'
    <3>1. OwedWeight(u, s) = OwedWeight(u, s)' + (IF s = "BUY" THEN Owes(rec, u, s) ELSE 0)
      BY <1>5, BuyerSettled DEF LedgerInv
    <3>2. BackWeight(u, s)' = BackWeight(u, s)
      BY <1>0, <1>5, WeightsKept, SettlingMoves DEF SettlingIs, LedgerInv, vars
    <3>3. s = "BUY" => Owes(rec, u, s) = IF u = rec.buyer THEN sell_money + refund_money ELSE 0
      BY <2>3 DEF Owes, Worth
    <3>4. Frozen(u, s)' = IF u = rec.buyer THEN IF s = "BUY" THEN a.frozen_balance ELSE a.frozen_stock
                          ELSE Frozen(u, s)
      BY <1>3, <2>2, <2>3, FrozenAfter
    <3>5. Frozen(u, s)' = Frozen(u, s) - (IF s = "BUY" THEN Owes(rec, u, s) ELSE 0)
      BY <1>2, <2>3, <2>4, <3>3, <3>4 DEF Frozen
    <3>6. (IF s = "BUY" THEN Owes(rec, u, s) ELSE 0) \in Int
      BY <2>3, <3>3
    <3> QED BY <1>2, <3>1, <3>2, <3>5, <3>6 DEF Balanced
  <2> QED BY <2>5 DEF Backed
<1>6. CASE SettleSeller
  <2>1. PICK a : a = CommitSell(account[rec.seller], sell_money, shares)
    OBVIOUS
  <2>2. settling.matches > 0 /\ account' = [account EXCEPT ![rec.seller] = a]
    BY <1>6, <2>1 DEF SettleSeller
  <2>3. /\ rec.seller \in Users /\ sell_money \in Nat /\ rec.match_quantity \in Nat
        /\ shares = rec.match_quantity
    BY <2>2, RecTyped, RecFits DEF LedgerInv
  <2>4. /\ a.frozen_balance = account[rec.seller].frozen_balance
        /\ a.frozen_stock = account[rec.seller].frozen_stock - rec.match_quantity
    <3>1. PICK b, x, y : b = account[rec.seller] /\ x = sell_money /\ y = shares
      OBVIOUS
    <3>2. b \in Account /\ x \in Int /\ y \in Int
      BY <1>3, <2>3, <3>1
    <3>3. AccountIs(CommitSell(b, x, y), b.available_balance + x, b.frozen_balance,
                    b.available_stock, b.frozen_stock - y)
      BY <3>2, AccountOps
    <3> QED BY <2>1, <2>3, <3>1, <3>3 DEF AccountIs
  <2>5. ASSUME NEW u \in Users, NEW s \in Side PROVE Balanced(u, s)'
    <3>1. OwedWeight(u, s) = OwedWeight(u, s)' + (IF s = "SELL" THEN Owes(rec, u, s) ELSE 0)
      BY <1>6, SellerSettled DEF LedgerInv
    <3>2. BackWeight(u, s)' = BackWeight(u, s)
      BY <1>0, <1>6, WeightsKept, SettlingMoves DEF SettlingIs, LedgerInv, vars
    <3>3. s = "SELL" => Owes(rec, u, s) = IF u = rec.seller THEN rec.match_quantity ELSE 0
      BY <2>3 DEF Owes, Worth
    <3>4. Frozen(u, s)' = IF u = rec.seller THEN IF s = "BUY" THEN a.frozen_balance ELSE a.frozen_stock
                          ELSE Frozen(u, s)
      BY <1>3, <2>2, <2>3, FrozenAfter
    <3>5. Frozen(u, s)' = Frozen(u, s) - (IF s = "SELL" THEN Owes(rec, u, s) ELSE 0)
      BY <1>2, <2>3, <2>4, <3>3, <3>4 DEF Frozen, Side
    <3>6. (IF s = "SELL" THEN Owes(rec, u, s) ELSE 0) \in Int
      BY <2>3, <3>3
    <3> QED BY <1>2, <3>1, <3>2, <3>5, <3>6 DEF Balanced
  <2> QED BY <2>5 DEF Backed
<1>7. CASE SettleCancel
  <2>1. PICK c : c = cancels[settling.released + 1]
    OBVIOUS
  <2>2. settling.cancels > 0 /\ account' = [account EXCEPT ![c.user_id] = Release(account[c.user_id], c)]
    BY <1>7, <2>1 DEF SettleCancel
  <2>3. c.user_id \in Users /\ c.side \in Side
    BY <2>1, <2>2, CancelTyped DEF LedgerInv
  <2>4. PICK a, x : a = Release(account[c.user_id], c) /\ x = Amount(c.side, c.price, c.quantity)
    OBVIOUS
  <2>5. x \in Nat /\ x = Worth(c.side, c.price, c.quantity)
    BY <2>1, <2>2, <2>4, CancelFits DEF LedgerInv
  <2>6. /\ a.frozen_balance = account[c.user_id].frozen_balance - (IF c.side = "BUY" THEN x ELSE 0)
        /\ a.frozen_stock = account[c.user_id].frozen_stock - (IF c.side = "BUY" THEN 0 ELSE x)
    <3>1. PICK b : b = account[c.user_id]
      OBVIOUS
    <3>2. b \in Account /\ x \in Int
      BY <1>3, <2>3, <2>5, <3>1
    <3>3. b.frozen_balance \in Int /\ b.frozen_stock \in Int
      BY <3>2 DEF Account
    <3>4. AccountIs(UnfreezeBalance(b, x), b.available_balance + x, b.frozen_balance - x,
                    b.available_stock, b.frozen_stock)
      BY <3>2, AccountOps
    <3>5. AccountIs(UnfreezeStock(b, x), b.available_balance, b.frozen_balance,
                    b.available_stock + x, b.frozen_stock - x)
      BY <3>2, AccountOps
    <3>6. a = IF c.side = "BUY" THEN UnfreezeBalance(b, x) ELSE UnfreezeStock(b, x)
      BY <2>3, <2>4, <3>1 DEF Release, Side
    <3>7. /\ a.frozen_balance = b.frozen_balance - (IF c.side = "BUY" THEN x ELSE 0)
          /\ a.frozen_stock = b.frozen_stock - (IF c.side = "BUY" THEN 0 ELSE x)
      BY <3>3, <3>4, <3>5, <3>6 DEF AccountIs
    <3> QED BY <3>1, <3>7
  <2>7. ASSUME NEW u \in Users, NEW s \in Side PROVE Balanced(u, s)'
    <3>1. /\ BackWeight(u, s) = BackWeight(u, s)' + Share(c, u, s)
          /\ BackWeight(u, s)' \in Nat /\ Share(c, u, s) \in Nat
      BY <1>7, <2>1, CancelSettled DEF LedgerInv
    <3>2. OwedWeight(u, s)' = OwedWeight(u, s)
      BY <1>0, <1>7, WeightsKept, SettlingMoves DEF SettlingIs, LedgerInv, vars
    <3>3. Share(c, u, s) = IF u = c.user_id /\ s = c.side THEN x ELSE 0
      BY <2>5 DEF Share
    <3>4. Frozen(u, s)' = IF u = c.user_id THEN IF s = "BUY" THEN a.frozen_balance ELSE a.frozen_stock
                          ELSE Frozen(u, s)
      BY <1>3, <2>2, <2>3, <2>4, FrozenAfter
    <3>5. Frozen(u, s)' = Frozen(u, s) - Share(c, u, s)
      <4>1. CASE u # c.user_id
        BY <1>2, <3>3, <3>4, <4>1
      <4>2. CASE u = c.user_id
        BY <1>2, <2>3, <2>5, <2>6, <3>3, <3>4, <4>2 DEF Frozen, Side
      <4> QED BY <4>1, <4>2
    <3> QED BY <1>2, <3>1, <3>2, <3>5 DEF Balanced
  <2> QED BY <2>7 DEF Backed
<1> QED BY <1>4, <1>5, <1>6, <1>7 DEF SettlementThread

LEMMA FreshWithin == FreshLife => \A S : Within(S)
<1> SUFFICES ASSUME FreshLife, NEW S PROVE Within(S)
  OBVIOUS
<1>1. ExTypes /\ PipeInv
  BY FreshExTypes, FreshPipeInv
<1>2. Underway = {}
  BY <1>1, UnderwayParts, NewsEmpty DEF FreshLife
<1>3. DOMAIN Live = {}
  BY <1>1, LiveTyped DEF ExTypes, PipeInv, FreshLife, Init
<1>4. Len(results) = 0 /\ Len(cancels) = 0
  BY DEF FreshLife, Init
<1> QED BY <1>2, <1>3, <1>4 DEF Within, BookWithin

LEMMA FreshLedgerInv == FreshLife => LedgerInv
<1> SUFFICES ASSUME FreshLife PROVE LedgerInv
  OBVIOUS
<1>1. ExTypes /\ PipeInv
  BY FreshExTypes, FreshPipeInv
<1>2. ASSUME NEW u \in Users, NEW s \in Side PROVE Balanced(u, s)
  <2>1. Underway = {}
    BY <1>1, UnderwayParts, NewsEmpty DEF FreshLife
  <2>2. DOMAIN Live = {}
    BY <1>1, LiveTyped DEF ExTypes, PipeInv, FreshLife, Init
  <2>3. ASSUME NEW L PROVE Weigh({}, L, u, s) = 0
    BY WholeSumEmpty DEF Weigh
  <2>4. Len(results) = 0 /\ Len(cancels) = 0 /\ settling.settled = 0 /\ settling.released = 0
    BY DEF FreshLife, Init, TopOfLoop
  <2>5. Owing(settling.settled, settling.step, Len(results), s) = {}
        /\ settling.released + 1 .. Len(cancels) = {}
    BY <2>4 DEF Owing
  <2>6. /\ WayWeight(u, s) = 0 /\ BookWeight(u, s) = 0
        /\ OwedWeight(u, s) = 0 /\ BackWeight(u, s) = 0
    BY <2>1, <2>2, <2>3, <2>5 DEF WayWeight, BookWeight, OwedWeight, BackWeight
  <2>7. Frozen(u, s) = 0
    BY FreshAccount DEF Frozen
  <2> QED BY <2>6, <2>7 DEF Balanced
<1>3. Fitted
  BY FreshWithin DEF Fitted
<1>4. NothingUnlisted
  BY FreshAccount DEF NothingUnlisted
<1> QED BY <1>1, <1>2, <1>3, <1>4 DEF LedgerInv, Backed

LEMMA StepLedgerInv == LedgerInv /\ [ExNext]_allVars /\ ~ wrapped' => LedgerInv'
<1> SUFFICES ASSUME LedgerInv, [ExNext]_allVars, ~ wrapped' PROVE LedgerInv'
  OBVIOUS
<1>1. ExTypes'
  BY StepExTypes DEF LedgerInv
<1>2. PipeInv' /\ Fitted'
  <2>1. \A i \in OrderIds, u \in Users, tk \in Tickers, s \in Side, p \in Prices,
           q \in Quantities : Trade(i, u, tk, s, p, q) => <<s, p, q>> \in FittingKinds
    BY TradeFits
  <2>2. ExTypes /\ PipeInv /\ Within(FittingKinds)
    BY DEF LedgerInv, Fitted
  <2>3. PipeInv' /\ Within(FittingKinds)'
    BY <1>1, <2>1, <2>2, StepWithin, FittingClosed
  <2> QED BY <2>3 DEF Fitted
<1>3. NothingUnlisted'
  <2> SUFFICES ASSUME NEW u \in Users PROVE account'[u].unlisted_stock = 0
    BY DEF NothingUnlisted
  <2>1. account[u].unlisted_stock = 0
    BY DEF LedgerInv, NothingUnlisted
  <2>2. ASSUME NEW i \in OrderIds, NEW tk \in Tickers, NEW s \in Side, NEW p \in Prices,
               NEW q \in Quantities, Trade(i, u, tk, s, p, q), s # "BUY", tk # "listed",
               account'[u].unlisted_stock = account[u].unlisted_stock - Amount(s, p, q)
        PROVE  account'[u].unlisted_stock = 0
    <3>1. Amount(s, p, q) \in Nat
      BY <2>2, TradeFits
    <3>2. account[u].unlisted_stock >= Amount(s, p, q)
      BY <2>2 DEF Trade, Affordable, Available
    <3> QED BY <2>1, <2>2, <3>1, <3>2
  <2> QED BY <2>1, <2>2, StepUnlisted DEF LedgerInv
<1>4. ASSUME UNCHANGED allVars PROVE Backed'
  <2>1. /\ UNCHANGED <<vars, account, settling>>
        /\ UNCHANGED <<issued, walQueue, walBatch, bookQueue, bookBatch, dropped>>
    BY <1>4 DEF allVars, exVars
  <2>2. PipeInv' /\ Underway' = Underway
    BY <1>1, <2>1, PipelineRests DEF LedgerInv, vars
  <2>3. \A u \in Users, s \in Side : Frozen(u, s)' = Frozen(u, s)
    BY <2>1 DEF Frozen
  <2> QED BY <2>1, <2>2, <2>3, RestBacked DEF LedgerInv
<1>5. Backed'
  BY <1>1, <1>4, HandlersBacked, PipelineBacked, SettlementBacked DEF ExNext
<1> QED BY <1>1, <1>2, <1>3, <1>5 DEF LedgerInv

-----------------------------------------------------------------------------
(***************************************************************************)
(* What each step does to the money and the stock of a user in memory.     *)
(***************************************************************************)

Money(u) == account[u].available_balance + account[u].frozen_balance

Stock(u) == account[u].available_stock + account[u].frozen_stock

\* A step adds dm and ds to what user v owns, and nothing to what others do.
Moves(v, dm, ds) ==
    \A u \in Users : /\ Money(u)' = Money(u) + (IF u = v THEN dm ELSE 0)
                     /\ Stock(u)' = Stock(u) + (IF u = v THEN ds ELSE 0)

\* A step takes no available money or stock below zero.
StaysAvailable ==
    \A u \in Users : /\ account[u].available_balance >= 0 => account'[u].available_balance >= 0
                     /\ account[u].available_stock >= 0 => account'[u].available_stock >= 0

LEMMA AccountAfter ==
    ASSUME MoneyTyped, NEW v \in Users, NEW a, account' = [account EXCEPT ![v] = a],
           NEW ab \in Int, NEW fb \in Int, NEW as \in Int, NEW fs \in Int,
           AccountIs(a, ab, fb, as, fs)
    PROVE  /\ Moves(v, ab + fb - Money(v), as + fs - Stock(v))
           /\ (/\ account[v].available_balance >= 0 => ab >= 0
               /\ account[v].available_stock >= 0 => as >= 0) => StaysAvailable
<1>1. \A u \in Users : account'[u] = IF u = v THEN a ELSE account[u]
  BY DEF MoneyTyped
<1>2. \A u \in Users : Money(u) \in Int /\ Stock(u) \in Int
  <2>1. ASSUME NEW u \in Users PROVE account[u] \in Account
    BY DEF MoneyTyped
  <2> QED BY <2>1 DEF Money, Stock, Account
<1>3. ASSUME NEW u \in Users
      PROVE  /\ Money(u)' = Money(u) + (IF u = v THEN ab + fb - Money(v) ELSE 0)
             /\ Stock(u)' = Stock(u) + (IF u = v THEN as + fs - Stock(v) ELSE 0)
  <2>1. CASE u = v
    <3>1. Money(u)' = ab + fb /\ Stock(u)' = as + fs
      BY <1>1, <2>1 DEF Money, Stock, AccountIs
    <3>2. PICK m, n : m = Money(v) /\ n = Stock(v)
      OBVIOUS
    <3>3. m \in Int /\ n \in Int /\ Money(u) = m /\ Stock(u) = n
      BY <1>2, <2>1, <3>2
    <3>4. ab + fb = m + (ab + fb - m) /\ as + fs = n + (as + fs - n)
      BY <3>3
    <3> QED BY <2>1, <3>1, <3>2, <3>3, <3>4
  <2>2. CASE u # v
    <3>1. Money(u)' = Money(u) /\ Stock(u)' = Stock(u)
      BY <1>1, <2>2 DEF Money, Stock
    <3> QED BY <1>2, <2>2, <3>1
  <2> QED BY <2>1, <2>2
<1>4. ASSUME account[v].available_balance >= 0 => ab >= 0,
             account[v].available_stock >= 0 => as >= 0
      PROVE  StaysAvailable
  BY <1>1, <1>4 DEF StaysAvailable, AccountIs
<1> QED BY <1>3, <1>4 DEF Moves

LEMMA NothingMoves ==
    ASSUME MoneyTyped, UNCHANGED account
    PROVE  StaysAvailable /\ \A v \in Users : Moves(v, 0, 0)
<1>1. \A u \in Users : Money(u) \in Int /\ Stock(u) \in Int
  <2>1. ASSUME NEW u \in Users PROVE account[u] \in Account
    BY DEF MoneyTyped
  <2> QED BY <2>1 DEF Money, Stock, Account
<1>2. \A u \in Users : Money(u)' = Money(u) /\ Stock(u)' = Stock(u)
  BY DEF Money, Stock
<1> QED BY <1>1, <1>2 DEF Moves, StaysAvailable

LEMMA TradeMoves ==
    ASSUME ExTypes,
           NEW i \in OrderIds, NEW v \in Users, NEW tk \in Tickers, NEW t \in Side,
           NEW p \in Prices, NEW q \in Quantities, Trade(i, v, tk, t, p, q)
    PROVE  Moves(v, 0, 0) /\ StaysAvailable
<1>1. PICK b, x, a : b = account[v] /\ x = Amount(t, p, q) /\ a = Reserve(b, tk, t, p, q)
  OBVIOUS
<1>2. MoneyTyped /\ b \in Account /\ p \in Nat /\ q \in Nat
  BY <1>1, BookAssumption DEF ExTypes, MoneyTyped
<1>3. x \in Int /\ account' = [account EXCEPT ![v] = a]
  BY <1>1, <1>2, AmountTyped DEF Trade
<1>4. /\ b.available_balance \in Int /\ b.frozen_balance \in Int
      /\ b.available_stock \in Int /\ b.frozen_stock \in Int
  BY <1>2 DEF Account
<1>5. Money(v) = b.available_balance + b.frozen_balance
      /\ Stock(v) = b.available_stock + b.frozen_stock
  BY <1>1 DEF Money, Stock
<1>6. CASE t = "BUY"
  <2>1. a = FreezeBalance(b, x) /\ b.available_balance >= x
    BY <1>1, <1>6 DEF Reserve, Trade, Affordable, Available
  <2>2. AccountIs(a, b.available_balance - x, b.frozen_balance + x,
                  b.available_stock, b.frozen_stock)
    BY <1>2, <1>3, <2>1, AccountOps
  <2>3. Moves(v, (b.available_balance - x) + (b.frozen_balance + x) - Money(v),
              b.available_stock + b.frozen_stock - Stock(v)) /\ StaysAvailable
    <3>1. b.available_balance - x \in Int /\ b.frozen_balance + x \in Int
          /\ b.available_balance - x >= 0
      BY <1>3, <1>4, <2>1
    <3> QED BY <1>1, <1>2, <1>3, <1>4, <2>2, <3>1, AccountAfter
  <2>4. (b.available_balance - x) + (b.frozen_balance + x) - Money(v) = 0
        /\ b.available_stock + b.frozen_stock - Stock(v) = 0
    BY <1>3, <1>4, <1>5
  <2> QED BY <2>3, <2>4
<1>7. CASE t # "BUY" /\ tk = "listed"
  <2>1. a = FreezeStock(b, x) /\ b.available_stock >= x
    BY <1>1, <1>7 DEF Reserve, Trade, Affordable, Available
  <2>2. AccountIs(a, b.available_balance, b.frozen_balance,
                  b.available_stock - x, b.frozen_stock + x)
    BY <1>2, <1>3, <2>1, AccountOps
  <2>3. Moves(v, b.available_balance + b.frozen_balance - Money(v),
              (b.available_stock - x) + (b.frozen_stock + x) - Stock(v)) /\ StaysAvailable
    <3>1. b.available_stock - x \in Int /\ b.frozen_stock + x \in Int
          /\ b.available_stock - x >= 0
      BY <1>3, <1>4, <2>1
    <3> QED BY <1>1, <1>2, <1>3, <1>4, <2>2, <3>1, AccountAfter
  <2>4. b.available_balance + b.frozen_balance - Money(v) = 0
        /\ (b.available_stock - x) + (b.frozen_stock + x) - Stock(v) = 0
    BY <1>3, <1>4, <1>5
  <2> QED BY <2>3, <2>4
<1>8. CASE t # "BUY" /\ tk # "listed"
  <2>1. a = FreezeUnlisted(b, x)
    BY <1>1, <1>8 DEF Reserve
  <2>2. AccountIs(a, b.available_balance, b.frozen_balance, b.available_stock, b.frozen_stock)
    BY <1>2, <1>3, <2>1, AccountOps
  <2>3. Moves(v, b.available_balance + b.frozen_balance - Money(v),
              b.available_stock + b.frozen_stock - Stock(v)) /\ StaysAvailable
    BY <1>1, <1>2, <1>3, <1>4, <2>2, AccountAfter
  <2>4. b.available_balance + b.frozen_balance - Money(v) = 0
        /\ b.available_stock + b.frozen_stock - Stock(v) = 0
    BY <1>4, <1>5
  <2> QED BY <2>3, <2>4
<1> QED BY <1>6, <1>7, <1>8

LEMMA DepositMoves ==
    ASSUME ExTypes, NEW v \in Users, DepositToMemory(v)
    PROVE  Moves(v, deposits[v], 0) /\ StaysAvailable /\ deposits[v] \in Nat
<1>1. PICK b, x, a : b = account[v] /\ x = deposits[v] /\ a = AddBalance(b, x)
  OBVIOUS
<1>2. MoneyTyped /\ b \in Account /\ x \in DepositAmounts \cup {0}
  BY <1>1 DEF ExTypes, MoneyTyped
<1>3. x \in Nat
  BY <1>2, ExchangeAssumption
<1>4. account' = [account EXCEPT ![v] = a]
  BY <1>1 DEF DepositToMemory
<1>5. /\ b.available_balance \in Int /\ b.frozen_balance \in Int
      /\ b.available_stock \in Int /\ b.frozen_stock \in Int
  BY <1>2 DEF Account
<1>6. AccountIs(a, b.available_balance + x, b.frozen_balance,
                b.available_stock, b.frozen_stock)
  <2>1. x \in Int
    BY <1>3
  <2>2. AccountIs(AddBalance(b, x), b.available_balance + x, b.frozen_balance,
                  b.available_stock, b.frozen_stock)
    BY <1>2, <2>1, AccountOps
  <2> QED BY <1>1, <2>2
<1>7. Moves(v, (b.available_balance + x) + b.frozen_balance - Money(v),
            b.available_stock + b.frozen_stock - Stock(v)) /\ StaysAvailable
  <2>1. b.available_balance + x \in Int
        /\ (b.available_balance >= 0 => b.available_balance + x >= 0)
    BY <1>3, <1>5
  <2> QED BY <1>1, <1>2, <1>4, <1>5, <1>6, <2>1, AccountAfter
<1>8. (b.available_balance + x) + b.frozen_balance - Money(v) = x
      /\ b.available_stock + b.frozen_stock - Stock(v) = 0
  BY <1>1, <1>3, <1>5 DEF Money, Stock
<1> QED BY <1>1, <1>3, <1>7, <1>8

LEMMA BuyerMoves ==
    ASSUME ExTypes, SettleBuyer
    PROVE  Moves(rec.buyer, - sell_money, shares) /\ (Fitted => StaysAvailable)
<1>1. PICK v, b, x, y, z, a :
         /\ v = rec.buyer /\ b = account[v] /\ x = sell_money /\ y = shares
         /\ z = refund_money /\ a = CommitBuy(b, x, y, z)
  OBVIOUS
<1>2. /\ MoneyTyped /\ v \in Users /\ b \in Account /\ x \in Int /\ y \in Int /\ z \in Int
      /\ Fitted => y \in Nat /\ z \in Nat
  <2>1. settling.matches > 0
    BY DEF SettleBuyer
  <2>2. /\ v \in Users /\ x \in Int /\ y \in Int /\ z \in Int
        /\ Fitted => y \in Nat /\ z \in Nat
    BY <1>1, <2>1, RecTyped, RecFits
  <2> QED BY <1>1, <2>2 DEF ExTypes, MoneyTyped
<1>3. account' = [account EXCEPT ![v] = a]
  BY <1>1 DEF SettleBuyer
<1>4. /\ b.available_balance \in Int /\ b.frozen_balance \in Int
      /\ b.available_stock \in Int /\ b.frozen_stock \in Int
  BY <1>2 DEF Account
<1>5. AccountIs(a, b.available_balance + z, b.frozen_balance - (x + z),
                b.available_stock + y, b.frozen_stock)
  BY <1>1, <1>2, AccountOps
<1>6. Moves(v, (b.available_balance + z) + (b.frozen_balance - (x + z)) - Money(v),
            (b.available_stock + y) + b.frozen_stock - Stock(v)) /\ (Fitted => StaysAvailable)
  <2>1. /\ b.available_balance + z \in Int /\ b.frozen_balance - (x + z) \in Int
        /\ b.available_stock + y \in Int
        /\ Fitted => /\ b.available_balance >= 0 => b.available_balance + z >= 0
                     /\ b.available_stock >= 0 => b.available_stock + y >= 0
    BY <1>2, <1>4
  <2> QED BY <1>1, <1>2, <1>3, <1>4, <1>5, <2>1, AccountAfter
<1>7. (b.available_balance + z) + (b.frozen_balance - (x + z)) - Money(v) = - x
      /\ (b.available_stock + y) + b.frozen_stock - Stock(v) = y
  BY <1>1, <1>2, <1>4 DEF Money, Stock
<1> QED BY <1>1, <1>6, <1>7

LEMMA SellerMoves ==
    ASSUME ExTypes, SettleSeller
    PROVE  Moves(rec.seller, sell_money, - shares) /\ (Fitted => StaysAvailable)
<1>1. PICK v, b, x, y, a :
         /\ v = rec.seller /\ b = account[v] /\ x = sell_money /\ y = shares
         /\ a = CommitSell(b, x, y)
  OBVIOUS
<1>2. /\ MoneyTyped /\ v \in Users /\ b \in Account /\ x \in Int /\ y \in Int
      /\ Fitted => x \in Nat
  <2>1. settling.matches > 0
    BY DEF SettleSeller
  <2>2. v \in Users /\ x \in Int /\ y \in Int /\ (Fitted => x \in Nat)
    BY <1>1, <2>1, RecTyped, RecFits
  <2> QED BY <1>1, <2>2 DEF ExTypes, MoneyTyped
<1>3. account' = [account EXCEPT ![v] = a]
  BY <1>1 DEF SettleSeller
<1>4. /\ b.available_balance \in Int /\ b.frozen_balance \in Int
      /\ b.available_stock \in Int /\ b.frozen_stock \in Int
  BY <1>2 DEF Account
<1>5. AccountIs(a, b.available_balance + x, b.frozen_balance,
                b.available_stock, b.frozen_stock - y)
  <2>1. x \in Int /\ y \in Int
    BY <1>2
  <2>2. AccountIs(CommitSell(b, x, y), b.available_balance + x, b.frozen_balance,
                  b.available_stock, b.frozen_stock - y)
    BY <1>2, <2>1, AccountOps
  <2> QED BY <1>1, <2>2
<1>6. Moves(v, (b.available_balance + x) + b.frozen_balance - Money(v),
            b.available_stock + (b.frozen_stock - y) - Stock(v)) /\ (Fitted => StaysAvailable)
  <2>1. /\ b.available_balance + x \in Int /\ b.frozen_stock - y \in Int
        /\ Fitted /\ b.available_balance >= 0 => b.available_balance + x >= 0
    BY <1>2, <1>4
  <2> QED BY <1>1, <1>2, <1>3, <1>4, <1>5, <2>1, AccountAfter
<1>7. (b.available_balance + x) + b.frozen_balance - Money(v) = x
      /\ b.available_stock + (b.frozen_stock - y) - Stock(v) = - y
  BY <1>1, <1>2, <1>4 DEF Money, Stock
<1> QED BY <1>1, <1>6, <1>7

LEMMA ReleaseMoves ==
    ASSUME ExTypes, SettleCancel
    PROVE  (Fitted => StaysAvailable) /\ \E v \in Users : Moves(v, 0, 0)
<1>1. PICK c, v, b, a :
         /\ c = cancels[settling.released + 1] /\ v = c.user_id /\ b = account[v]
         /\ a = Release(b, c)
  OBVIOUS
<1>2. /\ MoneyTyped /\ v \in Users /\ b \in Account
      /\ c.side \in Side /\ Amount("BUY", c.price, c.quantity) \in Int
      /\ Amount("SELL", c.price, c.quantity) \in Int
      /\ Fitted => Amount(c.side, c.price, c.quantity) \in Nat
  <2>1. settling.cancels > 0
    BY DEF SettleCancel
  <2>2. /\ v \in Users /\ c.side \in Side /\ Amount("BUY", c.price, c.quantity) \in Int
        /\ Amount("SELL", c.price, c.quantity) \in Int
    BY <1>1, <2>1, CancelTyped
  <2>3. Fitted => Amount(c.side, c.price, c.quantity) \in Nat
    BY <1>1, <2>1, CancelFits
  <2> QED BY <1>1, <2>2, <2>3 DEF ExTypes, MoneyTyped
<1>3. account' = [account EXCEPT ![v] = a]
  BY <1>1 DEF SettleCancel
<1>4. /\ b.available_balance \in Int /\ b.frozen_balance \in Int
      /\ b.available_stock \in Int /\ b.frozen_stock \in Int
  BY <1>2 DEF Account
<1>5. PICK x, y : x = (IF c.side = "BUY" THEN Amount("BUY", c.price, c.quantity) ELSE 0)
                  /\ y = (IF c.side = "BUY" THEN 0 ELSE Amount("SELL", c.price, c.quantity))
  OBVIOUS
<1>6. x \in Int /\ y \in Int /\ (Fitted => x \in Nat /\ y \in Nat)
  BY <1>2, <1>5 DEF Side
<1>7. AccountIs(a, b.available_balance + x, b.frozen_balance - x,
                b.available_stock + y, b.frozen_stock - y)
  <2>1. CASE c.side = "BUY"
    <3>1. a = UnfreezeBalance(b, x) /\ y = 0
      BY <1>1, <1>5, <2>1 DEF Release
    <3>2. AccountIs(a, b.available_balance + x, b.frozen_balance - x,
                    b.available_stock, b.frozen_stock)
      BY <1>2, <1>6, <3>1, AccountOps
    <3>3. b.available_stock + y = b.available_stock /\ b.frozen_stock - y = b.frozen_stock
      BY <1>4, <3>1
    <3> QED BY <3>2, <3>3
  <2>2. CASE c.side # "BUY"
    <3>1. a = UnfreezeStock(b, y) /\ x = 0
      BY <1>1, <1>5, <2>2 DEF Release
    <3>2. AccountIs(a, b.available_balance, b.frozen_balance,
                    b.available_stock + y, b.frozen_stock - y)
      <4>1. y \in Int
        BY <1>6
      <4>2. AccountIs(UnfreezeStock(b, y), b.available_balance, b.frozen_balance,
                      b.available_stock + y, b.frozen_stock - y)
        BY <1>2, <4>1, AccountOps
      <4> QED BY <3>1, <4>2
    <3>3. b.available_balance + x = b.available_balance
          /\ b.frozen_balance - x = b.frozen_balance
      BY <1>4, <3>1
    <3> QED BY <3>2, <3>3
  <2> QED BY <2>1, <2>2
<1>8. Moves(v, (b.available_balance + x) + (b.frozen_balance - x) - Money(v),
            (b.available_stock + y) + (b.frozen_stock - y) - Stock(v))
      /\ (Fitted => StaysAvailable)
  <2>1. /\ b.available_balance + x \in Int /\ b.frozen_balance - x \in Int
        /\ b.available_stock + y \in Int /\ b.frozen_stock - y \in Int
        /\ Fitted => /\ b.available_balance >= 0 => b.available_balance + x >= 0
                     /\ b.available_stock >= 0 => b.available_stock + y >= 0
    BY <1>4, <1>6
  <2> QED BY <1>1, <1>2, <1>3, <1>7, <2>1, AccountAfter
<1>9. (b.available_balance + x) + (b.frozen_balance - x) - Money(v) = 0
      /\ (b.available_stock + y) + (b.frozen_stock - y) - Stock(v) = 0
  BY <1>1, <1>4, <1>6 DEF Money, Stock
<1> QED BY <1>2, <1>8, <1>9

\* What a step does to the rows: it adds dm and ds to those of user v.
RowsMove(v, dm, ds) ==
    \A u \in Users : /\ db'[u].balance = db[u].balance + (IF u = v THEN dm ELSE 0)
                     /\ db'[u].holding = db[u].holding + (IF u = v THEN ds ELSE 0)

LEMMA RowsTyped ==
    ASSUME MoneyTyped, NEW u \in Users
    PROVE  /\ db[u] \in Rows /\ db[u].balance \in Int /\ db[u].holding \in Int
           /\ deposits[u] \in Nat
<1>1. db[u] \in Rows /\ deposits[u] \in DepositAmounts \cup {0}
  BY DEF MoneyTyped, Rows
<1>2. \A a \in DepositAmounts \cup {0} : a \in Nat
  BY ExchangeAssumption
<1> QED BY <1>1, <1>2 DEF Rows

LEMMA RowAfter ==
    ASSUME MoneyTyped, NEW v \in Users, NEW r, db' = [db EXCEPT ![v] = r],
           NEW dm \in Int, NEW ds \in Int,
           r.balance = db[v].balance + dm, r.holding = db[v].holding + ds
    PROVE  RowsMove(v, dm, ds)
<1>1. \A u \in Users : db'[u] = IF u = v THEN r ELSE db[u]
  BY DEF MoneyTyped
<1>2. \A u \in Users : db[u].balance \in Int /\ db[u].holding \in Int
  BY RowsTyped
<1> QED BY <1>1, <1>2 DEF RowsMove

\* RowOps, each statement on its own.
LEMMA RowSums ==
    /\ \A r \in Rows, x \in Int : /\ UpdateBalance(r, x).balance = r.balance + x
                                 /\ UpdateBalance(r, x).holding = r.holding + 0
    /\ \A r \in Rows, x \in Int : /\ UpdateStockHolding(r, x).balance = r.balance + 0
                                 /\ UpdateStockHolding(r, x).holding = r.holding + x
    /\ \A r \in Rows, x \in Int : r.balance >= x =>
                                 /\ DeductBalance(r, x).balance = r.balance + (- x)
                                 /\ DeductBalance(r, x).holding = r.holding + 0
    /\ \A r \in Rows, x \in Int : r.holding >= x =>
                                 /\ DeductStockHolding(r, x).balance = r.balance + 0
                                 /\ DeductStockHolding(r, x).holding = r.holding + (- x)
<1> SUFFICES ASSUME NEW r \in Rows, NEW x \in Int
             PROVE  /\ /\ UpdateBalance(r, x).balance = r.balance + x
                       /\ UpdateBalance(r, x).holding = r.holding + 0
                    /\ /\ UpdateStockHolding(r, x).balance = r.balance + 0
                       /\ UpdateStockHolding(r, x).holding = r.holding + x
                    /\ r.balance >= x =>
                          /\ DeductBalance(r, x).balance = r.balance + (- x)
                          /\ DeductBalance(r, x).holding = r.holding + 0
                    /\ r.holding >= x =>
                          /\ DeductStockHolding(r, x).balance = r.balance + 0
                          /\ DeductStockHolding(r, x).holding = r.holding + (- x)
  OBVIOUS
<1>1. r.balance \in Int /\ r.holding \in Int /\ x \in Int
  BY DEF Rows
<1>2. UpdateBalance(r, x).balance = r.balance + x /\ UpdateBalance(r, x).holding = r.holding + 0
  BY <1>1 DEF Rows, UpdateBalance, UpdateStockHolding
<1>3. /\ UpdateStockHolding(r, x).balance = r.balance + 0
      /\ UpdateStockHolding(r, x).holding = r.holding + x
  BY <1>1 DEF Rows, UpdateBalance, UpdateStockHolding
<1>4. ASSUME r.balance >= x
      PROVE  /\ DeductBalance(r, x).balance = r.balance + (- x)
             /\ DeductBalance(r, x).holding = r.holding + 0
  BY <1>1, <1>4 DEF Rows, DeductBalance
<1>5. ASSUME r.holding >= x
      PROVE  /\ DeductStockHolding(r, x).balance = r.balance + 0
             /\ DeductStockHolding(r, x).holding = r.holding + (- x)
  BY <1>1, <1>5 DEF Rows, DeductStockHolding
<1> QED BY <1>2, <1>3, <1>4, <1>5

LEMMA DepositRowsMove ==
    ASSUME ExTypes, NEW v \in Users, NEW a \in DepositAmounts, DepositToDb(v, a)
    PROVE  RowsMove(v, a, 0) /\ a \in Nat
<1>1. a \in Nat /\ MoneyTyped
  BY ExchangeAssumption DEF ExTypes
<1>2. db[v] \in Rows /\ db[v].balance \in Int /\ db[v].holding \in Int
  BY <1>1, RowsTyped
<1>3. PICK r : r = UpdateBalance(db[v], a)
  OBVIOUS
<1>4. db' = [db EXCEPT ![v] = r]
  BY <1>3 DEF DepositToDb
<1>5. r.balance = db[v].balance + a /\ r.holding = db[v].holding + 0
  BY <1>1, <1>2, <1>3, RowSums
<1>6. a \in Int /\ 0 \in Int
  BY <1>1
<1> QED BY <1>1, <1>4, <1>5, <1>6, RowAfter

\* A statement of settlement that did what it says.
Effective ==
    \/ /\ settling.step = 0 /\ db[rec.buyer].balance >= sell_money
       /\ RowsMove(rec.buyer, - sell_money, 0)
    \/ settling.step = 1 /\ RowsMove(rec.buyer, 0, shares)
    \/ settling.step = 2 /\ RowsMove(rec.seller, sell_money, 0)
    \/ /\ settling.step = 3 /\ db[rec.seller].holding >= shares
       /\ RowsMove(rec.seller, 0, - shares)

\* A statement is effective, fails or is refused by its WHERE clause.
LEMMA StatementOutcome ==
    ASSUME ExTypes, SettleInDb
    PROVE  /\ \/ Effective
              \/ DbMayFail /\ db' = db
              \/ ~ DeductionsCovered /\ db' = db
           /\ settling.matches > 0
<1>1. PICK b, v, x, q : b = rec.buyer /\ v = rec.seller /\ x = sell_money /\ q = shares
  OBVIOUS
<1>2. settling.matches > 0
  BY DEF SettleInDb
<1>3. b \in Users /\ v \in Users /\ x \in Int /\ q \in Int /\ MoneyTyped
  BY <1>1, <1>2, RecTyped DEF ExTypes
<1>4. \A u \in Users : db[u] \in Rows /\ db[u].balance \in Int /\ db[u].holding \in Int
  BY <1>3, RowsTyped
<1>5. \/ settling.step = 0 /\ db' = [db EXCEPT ![b] = DeductBalance(@, x)]
      \/ settling.step = 1 /\ db' = [db EXCEPT ![b] = UpdateStockHolding(@, q)]
      \/ settling.step = 2 /\ db' = [db EXCEPT ![v] = UpdateBalance(@, x)]
      \/ settling.step = 3 /\ db' = [db EXCEPT ![v] = DeductStockHolding(@, q)]
      \/ DbMayFail /\ db' = db
  BY <1>1 DEF SettleInDb, Statement
<1>6. CASE settling.step = 0 /\ db' = [db EXCEPT ![b] = DeductBalance(@, x)]
  <2>1. PICK r : r = DeductBalance(db[b], x)
    OBVIOUS
  <2>2. db' = [db EXCEPT ![b] = r]
    BY <1>6, <2>1
  <2>4. CASE db[b].balance >= x
    <3>1. r.balance = db[b].balance + (- x) /\ r.holding = db[b].holding + 0
      BY <1>3, <1>4, <2>1, <2>4, RowSums
    <3>2. - x \in Int /\ 0 \in Int
      BY <1>3
    <3>3. RowsMove(b, - x, 0)
      BY <1>3, <2>2, <3>1, <3>2, RowAfter
    <3> QED BY <1>1, <1>2, <1>6, <2>4, <3>3 DEF Effective
  <2>5. CASE ~ (db[b].balance >= x)
    <3>1. db' = db
      BY <1>3, <1>6, <2>5 DEF DeductBalance, MoneyTyped
    <3> QED BY <1>1, <1>2, <1>6, <2>5, <3>1 DEF DeductionsCovered
  <2> QED BY <2>4, <2>5
<1>7. CASE settling.step = 1 /\ db' = [db EXCEPT ![b] = UpdateStockHolding(@, q)]
  <2>1. PICK r : r = UpdateStockHolding(db[b], q)
    OBVIOUS
  <2>2. db' = [db EXCEPT ![b] = r]
    BY <1>7, <2>1
  <2>3. r.balance = db[b].balance + 0 /\ r.holding = db[b].holding + q
    BY <1>3, <1>4, <2>1, RowSums
  <2>4. RowsMove(b, 0, q)
    <3>1. q \in Int /\ 0 \in Int
      BY <1>3
    <3> QED BY <1>3, <2>2, <2>3, <3>1, RowAfter
  <2> QED BY <1>1, <1>2, <1>7, <2>4 DEF Effective
<1>8. CASE settling.step = 2 /\ db' = [db EXCEPT ![v] = UpdateBalance(@, x)]
  <2>1. PICK r : r = UpdateBalance(db[v], x)
    OBVIOUS
  <2>2. db' = [db EXCEPT ![v] = r]
    BY <1>8, <2>1
  <2>3. r.balance = db[v].balance + x /\ r.holding = db[v].holding + 0
    BY <1>3, <1>4, <2>1, RowSums
  <2>4. RowsMove(v, x, 0)
    <3>1. x \in Int /\ 0 \in Int
      BY <1>3
    <3> QED BY <1>3, <2>2, <2>3, <3>1, RowAfter
  <2> QED BY <1>1, <1>2, <1>8, <2>4 DEF Effective
<1>9. CASE settling.step = 3 /\ db' = [db EXCEPT ![v] = DeductStockHolding(@, q)]
  <2>1. PICK r : r = DeductStockHolding(db[v], q)
    OBVIOUS
  <2>2. db' = [db EXCEPT ![v] = r]
    BY <1>9, <2>1
  <2>4. CASE db[v].holding >= q
    <3>1. r.balance = db[v].balance + 0 /\ r.holding = db[v].holding + (- q)
      BY <1>3, <1>4, <2>1, <2>4, RowSums
    <3>2. - q \in Int /\ 0 \in Int
      BY <1>3
    <3>3. RowsMove(v, 0, - q)
      BY <1>3, <2>2, <3>1, <3>2, RowAfter
    <3> QED BY <1>1, <1>2, <1>9, <2>4, <3>3 DEF Effective
  <2>5. CASE ~ (db[v].holding >= q)
    <3>1. db' = db
      BY <1>3, <1>9, <2>5 DEF DeductStockHolding, MoneyTyped
    <3> QED BY <1>1, <1>2, <1>9, <2>5, <3>1 DEF DeductionsCovered
  <2> QED BY <2>4, <2>5
<1> QED BY <1>2, <1>5, <1>6, <1>7, <1>8, <1>9

-----------------------------------------------------------------------------
(***************************************************************************)
(* No account below zero.                                                  *)
(***************************************************************************)

Solvent ==
    \A u \in Users : /\ account[u].available_balance >= 0 /\ account[u].available_stock >= 0
                     /\ db[u].balance >= 0 /\ db[u].holding >= 0
                     /\ unloaded[u] >= 0

LEMMA SolventImplies == LedgerInv /\ Solvent => NoOverdraft
<1> SUFFICES ASSUME LedgerInv, Solvent, NEW u \in Users
             PROVE  account[u].frozen_balance >= 0 /\ account[u].frozen_stock >= 0
  BY DEF NoOverdraft, Solvent, LedgerInv, NothingUnlisted
<1>1. ASSUME NEW s \in Side PROVE Frozen(u, s) >= 0
  <2>1. /\ WayWeight(u, s) \in Nat /\ BookWeight(u, s) \in Nat
        /\ OwedWeight(u, s) \in Nat /\ BackWeight(u, s) \in Nat
    BY WeightsNat DEF LedgerInv
  <2>2. Balanced(u, s)
    BY DEF LedgerInv, Backed
  <2> QED BY <2>1, <2>2 DEF Balanced
<1>2. Frozen(u, "BUY") >= 0 /\ Frozen(u, "SELL") >= 0
  BY <1>1 DEF Side
<1> QED BY <1>2 DEF Frozen

\* What was not loaded is not looked at again.
LEMMA UnloadedKept == ASSUME [ExNext]_allVars PROVE unloaded' = unloaded
<1>1. \A i \in OrderIds, u \in Users, tk \in Tickers, s \in Side, p \in Prices,
         q \in Quantities : Trade(i, u, tk, s, p, q) => unloaded' = unloaded
  BY DEF Trade
<1>2. \A i \in OrderIds, u \in Users, tk \in Tickers :
         Cancel(i, u, tk) => unloaded' = unloaded
  BY DEF Cancel
<1>3. \A u \in Users :
         /\ \A a \in DepositAmounts : DepositToDb(u, a) => unloaded' = unloaded
         /\ DepositToMemory(u) => unloaded' = unloaded
  BY DEF DepositToDb, DepositToMemory
<1>4. CASE Handlers
  BY <1>1, <1>2, <1>3, <1>4 DEF Handlers
<1>5. CASE WalThread \/ BookThread
  BY <1>5 DEF WalThread, WalWrite, WalDispatch, BookThread, BookTake, BookHandles,
              BookMatches, BookPushes, exVars
<1>6. CASE SettlementThread
  BY <1>6 DEF SettlementThread, TakeMatches, SettleInDb, SettleBuyer, SettleSeller,
              TakeCancels, SettleCancel
<1>7. CASE UNCHANGED allVars
  BY <1>7 DEF allVars, exVars
<1> QED BY <1>4, <1>5, <1>6, <1>7 DEF ExNext

\* Which steps touch the accounts in memory, and which the rows.
LEMMA StepSolvent == LedgerInv /\ Solvent /\ [ExNext]_allVars => Solvent'
<1> SUFFICES ASSUME LedgerInv, Solvent, [ExNext]_allVars PROVE Solvent'
  OBVIOUS
<1>0. ExTypes /\ MoneyTyped /\ Fitted
  BY DEF LedgerInv, ExTypes
<1>1. StaysAvailable
  <2>1. CASE UNCHANGED account
    BY <1>0, <2>1, NothingMoves
  <2>2. ASSUME NEW i \in OrderIds, NEW v \in Users, NEW tk \in Tickers, NEW t \in Side,
               NEW p \in Prices, NEW q \in Quantities, Trade(i, v, tk, t, p, q)
        PROVE  StaysAvailable
    BY <1>0, <2>2, TradeMoves
  <2>3. ASSUME NEW v \in Users, DepositToMemory(v) PROVE StaysAvailable
    BY <1>0, <2>3, DepositMoves
  <2>4. CASE SettleBuyer \/ SettleSeller \/ SettleCancel
    BY <1>0, <2>4, BuyerMoves, SellerMoves, ReleaseMoves
  <2>5. CASE Handlers
    <3>1. CASE \E i \in OrderIds, u \in Users, tk \in Tickers : Cancel(i, u, tk)
      BY <2>1, <3>1 DEF Cancel
    <3>2. CASE \E u \in Users, a \in DepositAmounts : DepositToDb(u, a)
      BY <2>1, <3>2 DEF DepositToDb
    <3> QED BY <2>2, <2>3, <2>5, <3>1, <3>2 DEF Handlers
  <2>6. CASE WalThread \/ BookThread
    BY <2>1, <2>6 DEF WalThread, WalWrite, WalDispatch, BookThread, BookTake, BookHandles,
                      BookMatches, BookPushes, exVars
  <2>7. CASE SettlementThread
    BY <2>1, <2>4, <2>7 DEF SettlementThread, TakeMatches, SettleInDb, TakeCancels
  <2>8. CASE UNCHANGED allVars
    BY <2>1, <2>8 DEF allVars, exVars
  <2> QED BY <2>5, <2>6, <2>7, <2>8 DEF ExNext
<1>2. \A u \in Users : db[u].balance \in Int /\ db[u].holding \in Int
  BY <1>0, RowsTyped
<1>3. ASSUME NEW u \in Users PROVE db'[u].balance >= 0 /\ db'[u].holding >= 0
  <2>1. CASE db' = db
    BY <2>1 DEF Solvent
  <2>2. ASSUME NEW v \in Users, NEW a \in DepositAmounts, DepositToDb(v, a)
        PROVE  db'[u].balance >= 0 /\ db'[u].holding >= 0
    BY <1>0, <1>2, <2>2, DepositRowsMove DEF RowsMove, Solvent
  <2>3. CASE SettleInDb
    <3>1. CASE Effective
      <4>1. settling.matches > 0
        BY <2>3 DEF SettleInDb
      <4>2. rec.buyer \in Users /\ rec.seller \in Users /\ sell_money \in Nat
            /\ shares \in Nat
        BY <1>0, <4>1, RecTyped, RecFits
      <4> QED BY <1>2, <3>1, <4>2 DEF Effective, RowsMove, Solvent
    <3> QED BY <1>0, <2>1, <2>3, <3>1, StatementOutcome
  <2>4. CASE Handlers
    <3>1. CASE \E i \in OrderIds, w \in Users, tk \in Tickers, s \in Side, p \in Prices,
                  q \in Quantities : Trade(i, w, tk, s, p, q)
      BY <2>1, <3>1 DEF Trade
    <3>2. CASE \E i \in OrderIds, w \in Users, tk \in Tickers : Cancel(i, w, tk)
      BY <2>1, <3>2 DEF Cancel
    <3>3. CASE \E w \in Users : DepositToMemory(w)
      BY <2>1, <3>3 DEF DepositToMemory
    <3> QED BY <2>2, <2>4, <3>1, <3>2, <3>3 DEF Handlers
  <2>5. CASE WalThread \/ BookThread
    BY <2>1, <2>5 DEF WalThread, WalWrite, WalDispatch, BookThread, BookTake, BookHandles,
                      BookMatches, BookPushes, exVars
  <2>6. CASE SettlementThread
    BY <2>1, <2>3, <2>6 DEF SettlementThread, TakeMatches, SettleBuyer, SettleSeller,
                            TakeCancels, SettleCancel
  <2>7. CASE UNCHANGED allVars
    BY <2>1, <2>7 DEF allVars, exVars
  <2> QED BY <2>4, <2>5, <2>6, <2>7 DEF ExNext
<1>4. unloaded' = unloaded
  BY UnloadedKept
<1> QED BY <1>1, <1>3, <1>4 DEF Solvent, StaysAvailable

LEMMA FreshSolvent == FreshLife /\ ~ wrapped => Solvent
BY FreshAccount DEF Solvent

-----------------------------------------------------------------------------
(***************************************************************************)
(* The tables and memory agree.                                            *)
(***************************************************************************)

\* By how much the rows of user u are ahead of memory when the trade of buyer b and
\* seller v, for money x and stock q, has been through k of its steps.
MoneyAhead(k, b, v, x, u) ==
    (IF k \in 3 .. 5 /\ u = v THEN x ELSE 0) - (IF k \in 1 .. 4 /\ u = b THEN x ELSE 0)

StockAhead(k, b, v, q, u) ==
    (IF k \in 2 .. 4 /\ u = b THEN q ELSE 0) - (IF k \in 4 .. 5 /\ u = v THEN q ELSE 0)

MoneyDue(u) == MoneyAhead(settling.step, rec.buyer, rec.seller, sell_money, u)

StockDue(u) == StockAhead(settling.step, rec.buyer, rec.seller, shares, u)

\* The stock that loadAllFromDB passed over never comes into play.
Agreed ==
    \A u \in Users : /\ db[u].balance = Money(u) + deposits[u] + MoneyDue(u)
                     /\ db[u].holding = Stock(u) + StockDue(u) + unloaded[u]

\* What each of the six steps adds.
LEMMA AheadSteps ==
    ASSUME NEW b, NEW v, NEW x \in Int, NEW u
    PROVE  /\ MoneyAhead(0, b, v, x, u) = 0
           /\ MoneyAhead(1, b, v, x, u) = MoneyAhead(0, b, v, x, u) + (IF u = b THEN - x ELSE 0)
           /\ MoneyAhead(2, b, v, x, u) = MoneyAhead(1, b, v, x, u)
           /\ MoneyAhead(3, b, v, x, u) = MoneyAhead(2, b, v, x, u) + (IF u = v THEN x ELSE 0)
           /\ MoneyAhead(4, b, v, x, u) = MoneyAhead(3, b, v, x, u)
           /\ MoneyAhead(4, b, v, x, u) = MoneyAhead(5, b, v, x, u) + (IF u = b THEN - x ELSE 0)
           /\ MoneyAhead(5, b, v, x, u) = IF u = v THEN x ELSE 0
           /\ StockAhead(0, b, v, x, u) = 0 /\ StockAhead(1, b, v, x, u) = 0
           /\ StockAhead(2, b, v, x, u) = StockAhead(1, b, v, x, u) + (IF u = b THEN x ELSE 0)
           /\ StockAhead(3, b, v, x, u) = StockAhead(2, b, v, x, u)
           /\ StockAhead(4, b, v, x, u) = StockAhead(3, b, v, x, u) + (IF u = v THEN - x ELSE 0)
           /\ StockAhead(4, b, v, x, u) = StockAhead(5, b, v, x, u) + (IF u = b THEN x ELSE 0)
           /\ StockAhead(5, b, v, x, u) = IF u = v THEN - x ELSE 0
           /\ \A k \in 0 .. 5 : /\ MoneyAhead(k, b, v, x, u) \in Int
                                /\ StockAhead(k, b, v, x, u) \in Int
<1>1. /\ MoneyAhead(0, b, v, x, u) = 0
      /\ MoneyAhead(1, b, v, x, u) = IF u = b THEN - x ELSE 0
      /\ MoneyAhead(2, b, v, x, u) = IF u = b THEN - x ELSE 0
      /\ MoneyAhead(3, b, v, x, u) = (IF u = v THEN x ELSE 0) + (IF u = b THEN - x ELSE 0)
      /\ MoneyAhead(4, b, v, x, u) = (IF u = v THEN x ELSE 0) + (IF u = b THEN - x ELSE 0)
      /\ MoneyAhead(5, b, v, x, u) = IF u = v THEN x ELSE 0
  BY DEF MoneyAhead
<1>2. /\ StockAhead(0, b, v, x, u) = 0 /\ StockAhead(1, b, v, x, u) = 0
      /\ StockAhead(2, b, v, x, u) = IF u = b THEN x ELSE 0
      /\ StockAhead(3, b, v, x, u) = IF u = b THEN x ELSE 0
      /\ StockAhead(4, b, v, x, u) = (IF u = b THEN x ELSE 0) + (IF u = v THEN - x ELSE 0)
      /\ StockAhead(5, b, v, x, u) = IF u = v THEN - x ELSE 0
  BY DEF StockAhead
<1>3. \A k \in 0 .. 5 : MoneyAhead(k, b, v, x, u) \in Int /\ StockAhead(k, b, v, x, u) \in Int
  BY DEF MoneyAhead, StockAhead
<1> QED BY <1>1, <1>2, <1>3

\* Between two trades nothing is due, whatever the records say.
LEMMA NothingDue ==
    ASSUME NEW b, NEW v, NEW x, NEW u
    PROVE  MoneyAhead(0, b, v, x, u) = 0 /\ StockAhead(0, b, v, x, u) = 0
BY DEF MoneyAhead, StockAhead

LEMMA DueTyped ==
    ASSUME ExTypes, NEW u
    PROVE  MoneyDue(u) \in Int /\ StockDue(u) \in Int
<1>1. settling.step \in 0 .. 5 /\ settling.matches \in Nat
      /\ (settling.matches = 0 => settling.step = 0)
  BY DEF ExTypes, SettlingOK, SettlingRecord
<1>2. CASE settling.step = 0
  BY <1>2, NothingDue DEF MoneyDue, StockDue
<1>3. CASE settling.step # 0
  <2>1. settling.matches > 0
    BY <1>1, <1>3
  <2>2. PICK b, v, x, q : /\ b = rec.buyer /\ v = rec.seller /\ x = sell_money
                          /\ q = shares /\ x \in Int /\ q \in Int
    BY <2>1, RecTyped
  <2>3. MoneyAhead(settling.step, b, v, x, u) \in Int
    BY <1>1, <2>2, AheadSteps
  <2>4. StockAhead(settling.step, b, v, q, u) \in Int
    BY <1>1, <2>2, AheadSteps
  <2> QED BY <2>2, <2>3, <2>4 DEF MoneyDue, StockDue
<1> QED BY <1>2, <1>3

LEMMA AgreedImplies == ExTypes /\ Agreed => LedgersAgree
<1> SUFFICES ASSUME ExTypes, Agreed, NEW u \in Users
             PROVE  /\ db[u].balance =
                          account[u].available_balance + account[u].frozen_balance + deposits[u]
                          - During(u, rec.buyer, 1 .. 4, sell_money)
                          + During(u, rec.seller, 3 .. 5, sell_money)
                    /\ db[u].holding =
                          account[u].available_stock + account[u].frozen_stock + unloaded[u]
                          + During(u, rec.buyer, 2 .. 4, shares)
                          - During(u, rec.seller, 4 .. 5, shares)
  BY DEF LedgersAgree
<1>1. settling.step \in 0 .. 5 /\ settling.matches \in Nat
      /\ (settling.matches = 0 => settling.step = 0)
  BY DEF ExTypes, SettlingOK, SettlingRecord
<1>2. Money(u) \in Int /\ Stock(u) \in Int /\ deposits[u] \in Nat /\ unloaded[u] \in Int
  <2>1. account[u] \in Account /\ unloaded[u] \in Int /\ MoneyTyped
    BY DEF ExTypes, MoneyTyped
  <2> QED BY <2>1, RowsTyped DEF Money, Stock, Account
<1>3. PICK m, t, d, g : m = Money(u) /\ t = Stock(u) /\ d = deposits[u] /\ g = unloaded[u]
                        /\ m \in Int /\ t \in Int /\ d \in Int /\ g \in Int
  BY <1>2
<1>4. PICK mb, ms, tb, ts :
         /\ mb = During(u, rec.buyer, 1 .. 4, sell_money)
         /\ ms = During(u, rec.seller, 3 .. 5, sell_money)
         /\ tb = During(u, rec.buyer, 2 .. 4, shares)
         /\ ts = During(u, rec.seller, 4 .. 5, shares)
  OBVIOUS
<1>5. mb \in Int /\ ms \in Int /\ tb \in Int /\ ts \in Int
  <2>1. CASE settling.matches > 0
    <3>1. sell_money \in Int /\ shares \in Int
      BY <2>1, RecTyped
    <3> QED BY <1>4, <3>1 DEF During
  <2>2. CASE ~ (settling.matches > 0)
    BY <1>4, <2>2 DEF During
  <2> QED BY <2>1, <2>2
<1>6. MoneyDue(u) = ms - mb /\ StockDue(u) = tb - ts
  <2>1. CASE settling.matches > 0
    BY <1>4, <2>1 DEF MoneyDue, StockDue, MoneyAhead, StockAhead, During
  <2>2. CASE ~ (settling.matches > 0)
    <3>1. settling.step = 0 /\ mb = 0 /\ ms = 0 /\ tb = 0 /\ ts = 0
      BY <1>1, <1>4, <2>2 DEF During
    <3> QED BY <3>1, NothingDue DEF MoneyDue, StockDue
  <2> QED BY <2>1, <2>2
<1>7. db[u].balance = m + d + (ms - mb) /\ db[u].holding = t + (tb - ts) + g
  BY <1>3, <1>6 DEF Agreed
<1>8. m + d + (ms - mb) = m + d - mb + ms /\ t + (tb - ts) + g = t + g + tb - ts
  BY <1>3, <1>5
<1>9. m = account[u].available_balance + account[u].frozen_balance
      /\ t = account[u].available_stock + account[u].frozen_stock
  BY <1>3 DEF Money, Stock
<1> QED BY <1>3, <1>4, <1>7, <1>8, <1>9

\* The trade being settled stays the one it is until the thread is done with it.
LEMMA DueKept ==
    ASSUME ExTypes, [Next]_vars, settling'.step = settling.step,
           settling'.settled = settling.settled \/ settling.step = 0
    PROVE  \A u : MoneyDue(u)' = MoneyDue(u) /\ StockDue(u)' = StockDue(u)
<1>1. CASE settling.step = 0
  <2>1. \A u : MoneyDue(u) = 0 /\ StockDue(u) = 0
    BY <1>1, NothingDue DEF MoneyDue, StockDue
  <2>2. \A u : MoneyDue(u)' = 0 /\ StockDue(u)' = 0
    BY <1>1, NothingDue DEF MoneyDue, StockDue
  <2> QED BY <2>1, <2>2
<1>2. CASE settling.step # 0
  <2>1. settling.matches > 0 /\ settling'.settled = settling.settled
    BY <1>2 DEF ExTypes, SettlingOK, SettlingRecord
  <2>2. settling.settled + 1 \in 1 .. Len(results) /\ BookInv
    BY <2>1, RecTyped DEF ExTypes
  <2>3. rec' = rec
    BY <2>1, <2>2, RecordsGrow DEF rec
  <2>4. sell_money' = sell_money /\ shares' = shares
    BY <2>3 DEF sell_money, shares
  <2> QED BY <2>3, <2>4 DEF MoneyDue, StockDue
<1> QED BY <1>1, <1>2

LEMMA MoneyStockTyped ==
    ASSUME ExTypes, NEW u \in Users
    PROVE  /\ Money(u) \in Int /\ Stock(u) \in Int /\ deposits[u] \in Nat
           /\ db[u].balance \in Int /\ db[u].holding \in Int /\ unloaded[u] \in Int
<1>1. account[u] \in Account /\ unloaded[u] \in Int /\ MoneyTyped
  BY DEF ExTypes, MoneyTyped
<1> QED BY <1>1, RowsTyped DEF Money, Stock, Account

LEMMA RowsRest ==
    ASSUME MoneyTyped, db' = db
    PROVE  \A v \in Users : RowsMove(v, 0, 0)
<1>1. \A u \in Users : db[u].balance \in Int /\ db[u].holding \in Int
  BY RowsTyped
<1> QED BY <1>1 DEF RowsMove

\* Away from settlement money comes and goes with deposits only.
LEMMA StillAgreed ==
    ASSUME ExTypes, Agreed, unloaded' = unloaded,
           \A u : MoneyDue(u)' = MoneyDue(u) /\ StockDue(u)' = StockDue(u),
           NEW v \in Users, NEW dm \in Int, NEW dr \in Int, NEW dp \in Int,
           Moves(v, dm, 0), RowsMove(v, dr, 0),
           \A u \in Users : deposits'[u] = deposits[u] + (IF u = v THEN dp ELSE 0),
           dr = dm + dp
    PROVE  Agreed'
<1> SUFFICES ASSUME NEW u \in Users
             PROVE  /\ db'[u].balance = Money(u)' + deposits'[u] + MoneyDue(u)'
                    /\ db'[u].holding = Stock(u)' + StockDue(u)' + unloaded[u]
  BY DEF Agreed
<1>1. /\ Money(u) \in Int /\ Stock(u) \in Int /\ deposits[u] \in Int
      /\ MoneyDue(u) \in Int /\ StockDue(u) \in Int /\ unloaded[u] \in Int
  BY MoneyStockTyped, DueTyped
<1>2. /\ db[u].balance = Money(u) + deposits[u] + MoneyDue(u)
      /\ db[u].holding = Stock(u) + StockDue(u) + unloaded[u]
  BY DEF Agreed
<1>3. MoneyDue(u)' = MoneyDue(u) /\ StockDue(u)' = StockDue(u)
  OBVIOUS
<1>4. /\ Money(u)' = Money(u) + (IF u = v THEN dm ELSE 0)
      /\ Stock(u)' = Stock(u) + (IF u = v THEN 0 ELSE 0)
  BY DEF Moves
<1>5. /\ db'[u].balance = db[u].balance + (IF u = v THEN dr ELSE 0)
      /\ db'[u].holding = db[u].holding + (IF u = v THEN 0 ELSE 0)
  BY DEF RowsMove
<1>6. deposits'[u] = deposits[u] + (IF u = v THEN dp ELSE 0)
  OBVIOUS
<1> HIDE DEF Agreed
<1>7. CASE u = v
  BY <1>1, <1>2, <1>3, <1>4, <1>5, <1>6, <1>7
<1>8. CASE u # v
  BY <1>1, <1>2, <1>3, <1>4, <1>5, <1>6, <1>8
<1> QED BY <1>7, <1>8

\* What a step of settlement may do: the rows and memory move as the trade goes on.
LEMMA SettlementAgrees ==
    ASSUME ExTypes, Agreed, SettlementThread, SettleInDb => Effective
    PROVE  Agreed'
<1>0. deposits' = deposits /\ unloaded' = unloaded /\ UNCHANGED vars /\ MoneyTyped
  BY DEF SettlementThread, TakeMatches, SettleInDb, SettleBuyer, SettleSeller, TakeCancels,
         SettleCancel, ExTypes
<1>1. CASE TakeMatches \/ TakeCancels \/ SettleCancel
  <2>1. settling'.step = settling.step /\ settling'.settled = settling.settled
    BY <1>1, SettlingMoves DEF SettlingIs
  <2>2. \A u : MoneyDue(u)' = MoneyDue(u) /\ StockDue(u)' = StockDue(u)
    BY <1>0, <2>1, DueKept
  <2>3. db' = db
    BY <1>1 DEF TakeMatches, TakeCancels, SettleCancel
  <2>4. SUFFICES ASSUME NEW w \in Users PROVE Agreed'
    BY DEF Agreed
  <2>5. PICK v \in Users : Moves(v, 0, 0)
    <3>1. CASE SettleCancel
      BY <3>1, ReleaseMoves
    <3>2. CASE UNCHANGED account
      BY <1>0, <2>4, <3>2, NothingMoves
    <3> QED BY <1>1, <3>1, <3>2 DEF TakeMatches, TakeCancels
  <2>6. RowsMove(v, 0, 0)
    BY <1>0, <2>3, RowsRest
  <2>7. \A u \in Users : deposits'[u] = deposits[u] + (IF u = v THEN 0 ELSE 0)
    BY <1>0, MoneyStockTyped
  <2>8. 0 \in Int /\ 0 = 0 + 0
    OBVIOUS
  <2> QED BY <1>0, <2>2, <2>5, <2>6, <2>7, <2>8, StillAgreed
<1>2. CASE SettleInDb \/ SettleBuyer \/ SettleSeller
  <2>1. settling.matches > 0
    BY <1>2 DEF SettleInDb, SettleBuyer, SettleSeller
  <2>2. PICK b, v, x, q : /\ b = rec.buyer /\ v = rec.seller /\ x = sell_money
                          /\ q = shares
    OBVIOUS
  <2>3. b \in Users /\ v \in Users /\ x \in Int /\ q \in Int
    BY <2>1, <2>2, RecTyped
  <2> SUFFICES ASSUME NEW u \in Users, NEW g, g = unloaded[u]
               PROVE  /\ db'[u].balance = Money(u)' + deposits'[u] + MoneyDue(u)'
                      /\ db'[u].holding = Stock(u)' + StockDue(u)' + g
    BY <1>0 DEF Agreed
  <2>4. PICK m, t, d, k : m = Money(u) /\ t = Stock(u) /\ d = deposits[u] /\ k = settling.step
    OBVIOUS
  <2>5. m \in Int /\ t \in Int /\ d \in Int /\ g \in Int
    BY <2>4, MoneyStockTyped
  <2>6. /\ db[u].balance = m + d + MoneyAhead(k, b, v, x, u)
        /\ db[u].holding = t + StockAhead(k, b, v, q, u) + g
    BY <2>2, <2>4 DEF Agreed, MoneyDue, StockDue
  <2>7. deposits'[u] = d
    BY <1>0, <2>4
  <2>8. CASE SettleInDb
    <3>1. Money(u)' = m /\ Stock(u)' = t
      BY <2>4, <2>8 DEF SettleInDb, Money, Stock
    <3>2. settling'.step = k + 1 /\ settling'.settled = settling.settled
      BY <2>4, <2>8, SettlingMoves DEF SettlingIs
    <3>3. rec' = rec /\ sell_money' = sell_money /\ shares' = shares
      BY <1>0, <3>2 DEF rec, sell_money, shares, vars
    <3>4. MoneyDue(u)' = MoneyAhead(k + 1, b, v, x, u)
          /\ StockDue(u)' = StockAhead(k + 1, b, v, q, u)
      BY <2>2, <3>2, <3>3 DEF MoneyDue, StockDue
    <3>5. \/ k = 0 /\ RowsMove(b, - x, 0)
          \/ k = 1 /\ RowsMove(b, 0, q)
          \/ k = 2 /\ RowsMove(v, x, 0)
          \/ k = 3 /\ RowsMove(v, 0, - q)
      BY <2>2, <2>4, <2>8 DEF Effective
    <3>6. db[u].balance \in Int /\ db[u].holding \in Int
      BY MoneyStockTyped
    <3>7. /\ db'[u].balance = m + d + MoneyAhead(k + 1, b, v, x, u)
          /\ db'[u].holding = t + StockAhead(k + 1, b, v, q, u) + g
      <4>1. CASE k = 0 /\ RowsMove(b, - x, 0)
        <5>1. /\ MoneyAhead(1, b, v, x, u) = MoneyAhead(0, b, v, x, u) + (IF u = b THEN - x ELSE 0)
              /\ MoneyAhead(0, b, v, x, u) = 0
          BY <2>3, AheadSteps
        <5>2. StockAhead(0, b, v, q, u) = 0 /\ StockAhead(1, b, v, q, u) = 0
          BY <2>3, AheadSteps
        <5>3. /\ db'[u].balance = db[u].balance + (IF u = b THEN - x ELSE 0)
              /\ db'[u].holding = db[u].holding + (IF u = b THEN 0 ELSE 0)
          BY <4>1 DEF RowsMove
        <5> QED BY <2>3, <2>5, <2>6, <3>6, <4>1, <5>1, <5>2, <5>3
      <4>2. CASE k = 1 /\ RowsMove(b, 0, q)
        <5>1. MoneyAhead(2, b, v, x, u) = MoneyAhead(1, b, v, x, u)
              /\ MoneyAhead(1, b, v, x, u) \in Int
          BY <2>3, AheadSteps
        <5>2. /\ StockAhead(2, b, v, q, u) = StockAhead(1, b, v, q, u) + (IF u = b THEN q ELSE 0)
              /\ StockAhead(1, b, v, q, u) = 0
          BY <2>3, AheadSteps
        <5> QED BY <2>3, <2>5, <2>6, <3>6, <4>2, <5>1, <5>2 DEF RowsMove
      <4>3. CASE k = 2 /\ RowsMove(v, x, 0)
        <5>1. /\ MoneyAhead(3, b, v, x, u) = MoneyAhead(2, b, v, x, u) + (IF u = v THEN x ELSE 0)
              /\ MoneyAhead(2, b, v, x, u) \in Int
          BY <2>3, AheadSteps
        <5>2. StockAhead(3, b, v, q, u) = StockAhead(2, b, v, q, u)
          BY <2>3, AheadSteps
        <5> QED BY <2>3, <2>5, <2>6, <3>6, <4>3, <5>1, <5>2 DEF RowsMove
      <4>4. CASE k = 3 /\ RowsMove(v, 0, - q)
        <5>1. MoneyAhead(4, b, v, x, u) = MoneyAhead(3, b, v, x, u)
          BY <2>3, AheadSteps
        <5>2. /\ StockAhead(4, b, v, q, u) = StockAhead(3, b, v, q, u) + (IF u = v THEN - q ELSE 0)
              /\ StockAhead(3, b, v, q, u) \in Int
          BY <2>3, AheadSteps
        <5> QED BY <2>3, <2>5, <2>6, <3>6, <4>4, <5>1, <5>2 DEF RowsMove
      <4> QED BY <3>5, <4>1, <4>2, <4>3, <4>4
    <3> QED BY <2>7, <3>1, <3>4, <3>7
  <2>9. CASE SettleBuyer
    <3>1. db' = db /\ k = 4 /\ settling'.step = 5 /\ settling'.settled = settling.settled
      BY <2>4, <2>9, SettlingMoves DEF SettleBuyer, SettlingIs
    <3>2. rec' = rec /\ sell_money' = sell_money /\ shares' = shares
      BY <1>0, <3>1 DEF rec, sell_money, shares, vars
    <3>3. MoneyDue(u)' = MoneyAhead(5, b, v, x, u) /\ StockDue(u)' = StockAhead(5, b, v, q, u)
      BY <2>2, <3>1, <3>2 DEF MoneyDue, StockDue
    <3>4. Money(u)' = m + (IF u = b THEN - x ELSE 0) /\ Stock(u)' = t + (IF u = b THEN q ELSE 0)
      BY <2>2, <2>4, <2>9, BuyerMoves DEF Moves
    <3>5. /\ MoneyAhead(4, b, v, x, u) = MoneyAhead(5, b, v, x, u) + (IF u = b THEN - x ELSE 0)
          /\ MoneyAhead(5, b, v, x, u) \in Int
      BY <2>3, AheadSteps
    <3>6. /\ StockAhead(4, b, v, q, u) = StockAhead(5, b, v, q, u) + (IF u = b THEN q ELSE 0)
          /\ StockAhead(5, b, v, q, u) \in Int
      BY <2>3, AheadSteps
    <3> QED BY <2>3, <2>5, <2>6, <2>7, <3>1, <3>3, <3>4, <3>5, <3>6
  <2>10. CASE SettleSeller
    <3>1. db' = db /\ k = 5 /\ settling'.step = 0
      BY <2>4, <2>10, SettlingMoves DEF SettleSeller, SettlingIs
    <3>2. MoneyDue(u)' = 0 /\ StockDue(u)' = 0
      BY <3>1, NothingDue DEF MoneyDue, StockDue
    <3>3. Money(u)' = m + (IF u = v THEN x ELSE 0) /\ Stock(u)' = t + (IF u = v THEN - q ELSE 0)
      BY <2>2, <2>4, <2>10, SellerMoves DEF Moves
    <3>4. MoneyAhead(5, b, v, x, u) = IF u = v THEN x ELSE 0
      BY <2>3, AheadSteps
    <3>5. StockAhead(5, b, v, q, u) = IF u = v THEN - q ELSE 0
      BY <2>3, AheadSteps
    <3> QED BY <2>3, <2>5, <2>6, <2>7, <3>1, <3>2, <3>3, <3>4, <3>5
  <2> QED BY <1>2, <2>8, <2>9, <2>10
<1> QED BY <1>1, <1>2 DEF SettlementThread

\* The other threads keep the agreement too.
LEMMA OthersAgree ==
    ASSUME ExTypes, Agreed, [ExNext]_allVars,
           Handlers \/ WalThread \/ BookThread \/ UNCHANGED allVars
    PROVE  Agreed'
<1>0. [Next]_vars /\ MoneyTyped /\ unloaded' = unloaded
  BY StepExTypes, UnloadedKept DEF ExTypes
<1> SUFFICES ASSUME NEW w \in Users PROVE Agreed'
  BY DEF Agreed
<1>1. ASSUME settling' = settling
      PROVE  \A u : MoneyDue(u)' = MoneyDue(u) /\ StockDue(u)' = StockDue(u)
  BY <1>0, <1>1, DueKept
<1>2. ASSUME deposits' = deposits, NEW v
      PROVE  \A u \in Users : deposits'[u] = deposits[u] + (IF u = v THEN 0 ELSE 0)
  BY <1>2, MoneyStockTyped
<1>3. 0 \in Int /\ 0 = 0 + 0
  OBVIOUS
<1>4. ASSUME settling' = settling, account' = account, db' = db, deposits' = deposits
      PROVE  Agreed'
  <2>1. Moves(w, 0, 0) /\ RowsMove(w, 0, 0)
    BY <1>0, <1>4, NothingMoves, RowsRest
  <2> QED BY <1>0, <1>1, <1>2, <1>3, <1>4, <2>1, StillAgreed
<1>5. ASSUME NEW i \in OrderIds, NEW v \in Users, NEW tk \in Tickers, NEW t \in Side,
             NEW p \in Prices, NEW q \in Quantities, Trade(i, v, tk, t, p, q)
      PROVE  Agreed'
  <2>1. settling' = settling /\ db' = db /\ deposits' = deposits
    BY <1>5 DEF Trade
  <2>2. Moves(v, 0, 0) /\ RowsMove(v, 0, 0)
    BY <1>0, <1>5, <2>1, TradeMoves, RowsRest
  <2> QED BY <1>0, <1>1, <1>2, <1>3, <2>1, <2>2, StillAgreed
<1>6. ASSUME NEW v \in Users, NEW a \in DepositAmounts, DepositToDb(v, a) PROVE Agreed'
  <2>1. settling' = settling /\ account' = account
    BY <1>6 DEF DepositToDb
  <2>2. Moves(v, 0, 0) /\ RowsMove(v, a, 0) /\ a \in Nat
    BY <1>0, <1>6, <2>1, NothingMoves, DepositRowsMove
  <2>3. \A u \in Users : deposits'[u] = deposits[u] + (IF u = v THEN a ELSE 0)
    <3>1. deposits' = [deposits EXCEPT ![v] = a] /\ deposits[v] = 0
      BY <1>6 DEF DepositToDb
    <3>2. \A u \in Users : deposits[u] \in Nat
      BY MoneyStockTyped
    <3> QED BY <1>0, <2>2, <3>1, <3>2 DEF MoneyTyped
  <2>4. a \in Int /\ a = 0 + a
    BY <2>2
  <2> QED BY <1>0, <1>1, <1>3, <2>1, <2>2, <2>3, <2>4, StillAgreed
<1>7. ASSUME NEW v \in Users, DepositToMemory(v) PROVE Agreed'
  <2>1. settling' = settling /\ db' = db
    BY <1>7 DEF DepositToMemory
  <2>2. PICK a : a = deposits[v]
    OBVIOUS
  <2>3. Moves(v, a, 0) /\ RowsMove(v, 0, 0) /\ a \in Nat
    BY <1>0, <1>7, <2>1, <2>2, DepositMoves, RowsRest
  <2>4. \A u \in Users : deposits'[u] = deposits[u] + (IF u = v THEN - a ELSE 0)
    <3>1. deposits' = [deposits EXCEPT ![v] = 0]
      BY <1>7 DEF DepositToMemory
    <3>2. \A u \in Users : deposits[u] \in Nat
      BY MoneyStockTyped
    <3> QED BY <1>0, <2>2, <2>3, <3>1, <3>2 DEF MoneyTyped
  <2>5. a \in Int /\ - a \in Int /\ 0 = a + (- a)
    BY <2>3
  <2> QED BY <1>0, <1>1, <1>3, <2>1, <2>3, <2>4, <2>5, StillAgreed
<1>8. CASE Handlers
  <2>1. CASE \E i \in OrderIds, u \in Users, tk \in Tickers : Cancel(i, u, tk)
    BY <1>4, <2>1 DEF Cancel
  <2> QED BY <1>5, <1>6, <1>7, <1>8, <2>1 DEF Handlers
<1>9. CASE WalThread \/ BookThread
  BY <1>4, <1>9 DEF WalThread, WalWrite, WalDispatch, BookThread, BookTake, BookHandles,
                    BookMatches, BookPushes, exVars
<1>10. CASE UNCHANGED allVars
  BY <1>4, <1>10 DEF allVars, exVars
<1> QED BY <1>8, <1>9, <1>10

\* What settlement deducts was frozen for it, and the tables hold what is frozen.
LEMMA CoveredByReservation == LedgerInv /\ Solvent /\ Agreed => DeductionsCovered
<1> SUFFICES ASSUME LedgerInv, Solvent, Agreed, settling.matches > 0
             PROVE  /\ settling.step = 0 => db[rec.buyer].balance >= sell_money
                    /\ settling.step = 3 => db[rec.seller].holding >= shares
  BY DEF DeductionsCovered
<1>0. ExTypes /\ Fitted
  BY DEF LedgerInv
<1>1. PICK b, v, x, q, z :
         /\ b = rec.buyer /\ v = rec.seller /\ x = sell_money /\ q = shares
         /\ z = refund_money
  OBVIOUS
<1>2. /\ b \in Users /\ v \in Users /\ x \in Nat /\ q \in Nat /\ z \in Nat
      /\ x + z = rec.buyer_expected_price * q /\ q = rec.match_quantity
  BY <1>0, <1>1, RecTyped, RecFits
<1>3. ASSUME NEW u \in Users, NEW s \in Side, s = "BUY" => settling.step # 5
      PROVE  Frozen(u, s) >= Owes(rec, u, s)
  <2>1. /\ WayWeight(u, s) \in Nat /\ BookWeight(u, s) \in Nat
        /\ OwedWeight(u, s) \in Nat /\ BackWeight(u, s) \in Nat
    BY WeightsNat DEF LedgerInv
  <2>2. Balanced(u, s)
    BY DEF LedgerInv, Backed
  <2>3. PICK r \in Nat : OwedWeight(u, s) = Owes(rec, u, s) + r /\ Owes(rec, u, s) \in Nat
    BY <1>0, <1>3, TradeIsOwed
  <2> QED BY <2>1, <2>2, <2>3 DEF Balanced
<1>4. \A u \in Users : /\ account[u].available_balance \in Int /\ account[u].frozen_balance \in Int
                       /\ account[u].available_stock \in Int /\ account[u].frozen_stock \in Int
  <2>1. \A u \in Users : account[u] \in Account
    BY <1>0 DEF ExTypes, MoneyTyped
  <2> QED BY <2>1 DEF Account
<1>5. ASSUME settling.step = 0 PROVE db[b].balance >= x
  <2>1. Frozen(b, "BUY") >= Owes(rec, b, "BUY")
    BY <1>2, <1>3, <1>5 DEF Side
  <2>2. account[b].frozen_balance >= x + z
    <3>1. Owes(rec, b, "BUY") = rec.buyer_expected_price * q
      BY <1>1, <1>2 DEF Owes, Worth
    <3> QED BY <1>2, <2>1, <3>1 DEF Frozen
  <2>3. db[b].balance = Money(b) + deposits[b] + 0
    BY <1>2, <1>5, NothingDue DEF Agreed, MoneyDue
  <2>4. deposits[b] \in Nat /\ account[b].available_balance >= 0
    BY <1>0, <1>2, MoneyStockTyped DEF Solvent
  <2> QED BY <1>2, <1>4, <2>2, <2>3, <2>4 DEF Money
<1>6. ASSUME settling.step = 3 PROVE db[v].holding >= q
  <2>1. Frozen(v, "SELL") >= Owes(rec, v, "SELL")
    BY <1>2, <1>3 DEF Side
  <2>2. account[v].frozen_stock >= q
    <3>1. Owes(rec, v, "SELL") = q
      BY <1>1, <1>2 DEF Owes, Worth
    <3> QED BY <2>1, <3>1 DEF Frozen
  <2>3. PICK g \in Nat : db[v].holding = Stock(v) + StockAhead(3, b, v, q, v) + g
    <3>1. db[v].holding = Stock(v) + StockAhead(3, b, v, q, v) + unloaded[v]
      BY <1>1, <1>2, <1>6 DEF Agreed, StockDue
    <3>2. unloaded[v] \in Nat
      BY <1>0, <1>2, MoneyStockTyped DEF Solvent
    <3> QED BY <3>1, <3>2
  <2>4. StockAhead(3, b, v, q, v) \in Nat
    BY <1>2 DEF StockAhead
  <2>5. account[v].available_stock >= 0
    BY <1>2 DEF Solvent
  <2> QED BY <1>2, <1>4, <2>2, <2>3, <2>4, <2>5 DEF Stock
<1> QED BY <1>1, <1>5, <1>6

LEMMA FreshAgreed == FreshLife => Agreed
<1> SUFFICES ASSUME FreshLife, NEW u \in Users
             PROVE  /\ db[u].balance = Money(u) + deposits[u] + MoneyDue(u)
                    /\ db[u].holding = Stock(u) + StockDue(u) + unloaded[u]
  BY DEF Agreed
<1>1. PICK b, h : b = db[u].balance /\ h = db[u].holding /\ b \in Int /\ h \in Int
  BY FreshAccount
<1>2. /\ account[u].available_balance = b
      /\ account[u].available_stock = IF TickersKnown THEN h ELSE 0
      /\ account[u].frozen_balance = 0 /\ account[u].frozen_stock = 0
      /\ unloaded[u] = IF TickersKnown THEN 0 ELSE h
  BY <1>1, FreshAccount
<1>3. settling.step = 0 /\ deposits[u] = 0
  BY DEF FreshLife, TopOfLoop
<1>4. MoneyDue(u) = 0 /\ StockDue(u) = 0
  BY <1>3, NothingDue DEF MoneyDue, StockDue
<1>5. db[u].holding = Stock(u) + StockDue(u) + unloaded[u]
  BY <1>1, <1>2, <1>4 DEF Stock
<1>6. db[u].balance = Money(u) + deposits[u] + MoneyDue(u)
  BY <1>1, <1>2, <1>3, <1>4 DEF Money
<1> QED BY <1>5, <1>6

-----------------------------------------------------------------------------
(***************************************************************************)
(* Across crashes.                                                         *)
(***************************************************************************)

\* A step of the exchange as Recovery has it: a step of the process, or its end.
LEMMA RecoverySteps ==
    ASSUME [RNext]_recVars
    PROVE  [ExNext]_allVars \/ Crash
BY DEF RNext, recVars, WriteBatch, RunStatement, OtherStep, ExNext, WalThread, SettlementThread

LEMMA CrashStartsAfresh ==
    ASSUME ExTypes, ~ wrapped => Solvent, Crash
    PROVE  FreshLife'
<1>1. Init'
  BY DEF Crash, Init
<1>2. db' \in [Users -> [balance : Int, holding : Int]] /\ wrapped' \in BOOLEAN
  BY DEF Crash, ExTypes, MoneyTyped, CountsTyped
<1>3. ~ wrapped' => \A u \in Users : db'[u].balance >= 0 /\ db'[u].holding >= 0
  BY DEF Crash, Solvent
<1>4. account' = [u \in Users |-> Loaded(db'[u])]
  BY DEF Crash, LoadedAccounts
<1>5. issued' \subseteq OrderIds /\ deposited' \in 0 .. MaxDeposited
      /\ cancelCalls' \in 0 .. MaxCancelCalls
  BY DEF Crash, ExTypes, CountsTyped
<1>6. unloaded' = [u \in Users |-> PassedOver(db'[u])]
  BY DEF Crash
<1> QED BY <1>1, <1>2, <1>3, <1>4, <1>5, <1>6 DEF FreshLife, Crash

\* Once an order was accepted with the wrong reservation, it stays so.
LEMMA WrappedStays ==
    ASSUME [RNext]_recVars, ~ wrapped'
    PROVE  ~ wrapped
<1>1. ASSUME NEW i \in OrderIds, NEW u \in Users, NEW tk \in Tickers, NEW s \in Side,
             NEW p \in Prices, NEW q \in Quantities, Trade(i, u, tk, s, p, q)
      PROVE  ~ wrapped
  BY <1>1 DEF Trade
<1>2. ASSUME NEW i \in OrderIds, NEW u \in Users, NEW tk \in Tickers, Cancel(i, u, tk)
      PROVE  ~ wrapped
  BY <1>2 DEF Cancel
<1>3. ASSUME NEW u \in Users, DepositToMemory(u) \/ \E a \in DepositAmounts : DepositToDb(u, a)
      PROVE  ~ wrapped
  BY <1>3 DEF DepositToDb, DepositToMemory
<1>4. CASE Handlers
  BY <1>1, <1>2, <1>3, <1>4 DEF Handlers
<1>5. CASE WalThread \/ BookThread
  BY <1>5 DEF WalThread, WalWrite, WalDispatch, BookThread, BookTake, BookHandles,
              BookMatches, BookPushes, exVars
<1>6. CASE SettlementThread
  BY <1>6 DEF SettlementThread, TakeMatches, SettleInDb, SettleBuyer, SettleSeller,
              TakeCancels, SettleCancel
<1>7. CASE UNCHANGED allVars
  BY <1>7 DEF allVars, exVars
<1>8. CASE Crash
  BY <1>8 DEF Crash
<1> QED BY <1>4, <1>5, <1>6, <1>7, <1>8, RecoverySteps DEF ExNext

\* What every life keeps, whatever failed in it or before it: the types, and, while
\* reservations are worth their orders, the ledger.
LifeInv == ExTypes /\ PipeInv /\ (~ wrapped => LedgerInv /\ Solvent)

LEMMA FreshLifeInv == FreshLife => LifeInv /\ Agreed
BY FreshLedgerInv, FreshSolvent, FreshAgreed DEF LifeInv, LedgerInv

LEMMA FreshLifeInvNext == FreshLife' => LifeInv' /\ Agreed'
BY FreshLifeInv, PTL

LEMMA StepLifeInv == LifeInv /\ [RNext]_recVars => LifeInv'
<1> SUFFICES ASSUME LifeInv, [RNext]_recVars PROVE LifeInv'
  OBVIOUS
<1>1. CASE [ExNext]_allVars
  <2>1. ExTypes'
    BY <1>1, StepExTypes DEF LifeInv
  <2>2. PipeInv'
    BY <1>1, <2>1, StepWithin DEF LifeInv
  <2>3. ASSUME ~ wrapped' PROVE LedgerInv' /\ Solvent'
    <3>1. LedgerInv /\ Solvent
      BY <2>3, WrappedStays DEF LifeInv
    <3> QED BY <1>1, <2>3, <3>1, StepLedgerInv, StepSolvent
  <2> QED BY <2>1, <2>2, <2>3 DEF LifeInv
<1>2. CASE Crash
  BY <1>2, CrashStartsAfresh, FreshLifeInvNext DEF LifeInv
<1> QED BY <1>1, <1>2, RecoverySteps

LEMMA InitLifeInv == RInit => LifeInv /\ Agreed
BY InitIsFresh, FreshLifeInv DEF RInit

\* Every variable keeps its type in every life: in particular no counter of settlement
\* runs past the records it counts, whatever the amounts wrap to.
THEOREM ExTypeCorrect == RSpec => []ExTypeOK
<1>1. LifeInv => ExTypeOK
  BY ExTypesImplies DEF LifeInv
<1> QED BY <1>1, InitLifeInv, StepLifeInv, PTL DEF RSpec

\* In every life, and for orders of any size, no account and no row goes below zero before
\* TradeHandler accepts an order whose reservation, in its signed type, is not the order's
\* worth: crashes and failing statements alone never overdraw anything.
THEOREM OnlyWrappingOverdraws == RSpec => []OverdrawnOnlyByWrapping
<1>1. LifeInv => OverdrawnOnlyByWrapping
  BY SolventImplies DEF LifeInv, OverdrawnOnlyByWrapping
<1> QED BY <1>1, InitLifeInv, StepLifeInv, PTL DEF RSpec

\* As long as reservations are worth their orders, what is frozen in memory is exactly what
\* orders, trades and cancels of this life still owe for: a crash forgets the reservations
\* together with the orders they were for.
THEOREM ReservationsBacked == RSpec => []FrozenBacked
<1>1. LifeInv => FrozenBacked
  BY BackedImplies DEF LifeInv, LedgerInv, FrozenBacked
<1> QED BY <1>1, InitLifeInv, StepLifeInv, PTL DEF RSpec

\* A statement that changed the tables did what it says.
LEMMA ChangedIsEffective ==
    ASSUME ExTypes, SettleInDb, db' # db
    PROVE  Effective
BY StatementOutcome

LEMMA StepAgreeUnlessFailed ==
    LifeInv /\ (~ failed => Agreed) /\ [RNext]_recVars => (~ failed => Agreed)'
<1> SUFFICES ASSUME LifeInv, ~ failed => Agreed, [RNext]_recVars, ~ failed' PROVE Agreed'
  OBVIOUS
<1>0. ExTypes /\ (~ wrapped => Solvent)
  BY DEF LifeInv
<1>1. CASE Crash
  BY <1>0, <1>1, CrashStartsAfresh, FreshLifeInvNext
<1>2. CASE RunStatement
  <2>1. SettleInDb /\ Agreed /\ db' # db
    BY <1>2 DEF RunStatement
  <2>2. Effective
    BY <1>0, <2>1, ChangedIsEffective
  <2> QED BY <1>0, <2>1, <2>2, SettlementAgrees DEF SettlementThread
<1>3. CASE WriteBatch \/ OtherStep \/ UNCHANGED recVars
  <2>1. Agreed /\ [ExNext]_allVars
    BY <1>3 DEF WriteBatch, OtherStep, recVars, ExNext, WalThread, SettlementThread
  <2>2. CASE Handlers \/ WalThread \/ BookThread \/ UNCHANGED allVars
    BY <1>0, <2>1, <2>2, OthersAgree
  <2>3. CASE TakeMatches \/ SettleBuyer \/ SettleSeller \/ TakeCancels \/ SettleCancel
    <3>1. ~ SettleInDb
      BY <2>3 DEF TakeMatches, SettleBuyer, SettleSeller, TakeCancels, SettleCancel,
                  SettleInDb, Statement
    <3> QED BY <1>0, <2>1, <2>3, <3>1, SettlementAgrees DEF SettlementThread
  <2> QED BY <1>3, <2>2, <2>3 DEF WriteBatch, OtherStep, recVars, WalThread
<1> QED BY <1>1, <1>2, <1>3 DEF RNext

\* Tables and memory agree in every life until a statement of that life fails, whatever the
\* crashes before it cut in two, whatever amounts wrapped and whether or not the tickers
\* were known when the accounts were loaded: loadAllFromDB starts every life from the tables,
\* and what it passes over stays aside.
THEOREM AgreementUntilFailure == RSpec => []AgreeUnlessFailed
<1>1. RInit => LifeInv /\ (~ failed => Agreed)
  BY InitLifeInv
<1>2. LifeInv /\ (~ failed => Agreed) /\ [RNext]_recVars => LifeInv' /\ (~ failed => Agreed)'
  BY StepLifeInv, StepAgreeUnlessFailed
<1>3. LifeInv /\ (~ failed => Agreed) => AgreeUnlessFailed
  BY AgreedImplies DEF AgreeUnlessFailed, LifeInv
<1> QED BY <1>1, <1>2, <1>3, PTL DEF RSpec

\* As long as no statement of this life failed and no order got the wrong reservation, the
\* WHERE clauses of deductBalance and deductStockHolding refuse no deduction of settlement,
\* so that ignoring their result is harmless: the reservation of the trade is part of what
\* is frozen, and the tables hold at least that.
THEOREM DeductionsStayCovered == RSpec => []CoveredUnlessFailed
<1>1. RInit => LifeInv /\ (~ failed => Agreed)
  BY InitLifeInv
<1>2. LifeInv /\ (~ failed => Agreed) /\ [RNext]_recVars => LifeInv' /\ (~ failed => Agreed)'
  BY StepLifeInv, StepAgreeUnlessFailed
<1>3. LifeInv /\ (~ failed => Agreed) => CoveredUnlessFailed
  BY CoveredByReservation DEF CoveredUnlessFailed, LifeInv
<1> QED BY <1>1, <1>2, <1>3, PTL DEF RSpec

-----------------------------------------------------------------------------
(***************************************************************************)
(* Money and stock in the tables.                                          *)
(***************************************************************************)

AllMoney == SumFunction([u \in Users |-> db[u].balance])

AllStock == SumFunction([u \in Users |-> db[u].holding])

\* What the statements of the trade that settlement is at have taken out of the tables, or
\* put into them, so far.
MoneyOut == IF settling.step \in {1, 2} THEN sell_money ELSE 0

StockIn == IF settling.step \in {2, 3} THEN shares ELSE 0

Conserved ==
    /\ AllMoney = SumFunction(OpeningBalance) + deposited - MoneyOut
    /\ AllStock = SumFunction(OpeningHolding) + StockIn

LEMMA ConservedImplies == ExTypes /\ (~ torn => Conserved) => TablesConserve
<1> SUFFICES ASSUME ExTypes, ~ torn => Conserved PROVE TablesConserve
  OBVIOUS
<1>1. settling.matches \in Nat /\ (settling.matches = 0 => settling.step = 0)
  BY DEF ExTypes, SettlingOK, SettlingRecord
<1>2. settling.step # 0 => settling.matches > 0
  BY <1>1
<1>3. /\ settling.step \in {1, 2} <=> settling.matches > 0 /\ settling.step \in {1, 2}
      /\ settling.step \in {2, 3} <=> settling.matches > 0 /\ settling.step \in {2, 3}
  BY <1>2
<1> QED BY <1>3 DEF TablesConserve, Conserved, AllMoney, AllStock, MoneyOut, StockIn

\* One user's rows move: so do the sums.
LEMMA SumsMove ==
    ASSUME IsFiniteSet(Users), ExTypes, NEW v \in Users, NEW dm \in Int,
           NEW ds \in Int, RowsMove(v, dm, ds)
    PROVE  AllMoney' = AllMoney + dm /\ AllStock' = AllStock + ds
<1>1. PICK f, g, h, k :
         /\ f = [u \in Users |-> db[u].balance] /\ g = [u \in Users |-> db'[u].balance]
         /\ h = [u \in Users |-> db[u].holding] /\ k = [u \in Users |-> db'[u].holding]
  OBVIOUS
<1>2. /\ AllMoney = SumFunction(f) /\ AllMoney' = SumFunction(g)
      /\ AllStock = SumFunction(h) /\ AllStock' = SumFunction(k)
  BY <1>1 DEF AllMoney, AllStock
<1>3. /\ DOMAIN f = Users /\ DOMAIN g = Users /\ DOMAIN h = Users /\ DOMAIN k = Users
  BY <1>1
<1>4. \A u \in Users : f[u] \in Int /\ h[u] \in Int
  BY <1>1, MoneyStockTyped
<1>5. \A u \in Users : g[u] = f[u] + (IF u = v THEN dm ELSE 0)
  BY <1>1 DEF RowsMove
<1>6. \A u \in Users : k[u] = h[u] + (IF u = v THEN ds ELSE 0)
  BY <1>1 DEF RowsMove
<1>7. SumFunction(g) = SumFunction(f) + g[v] - f[v]
  <2>1. \A u \in Users : f[u] \in Int /\ g[u] \in Int
    BY <1>4, <1>5
  <2>2. \A u \in Users : u # v => g[u] = f[u]
    BY <1>4, <1>5
  <2> QED BY <1>3, <2>1, <2>2, WholeSumChange
<1>8. SumFunction(k) = SumFunction(h) + k[v] - h[v]
  <2>1. \A u \in Users : h[u] \in Int /\ k[u] \in Int
    BY <1>4, <1>6
  <2>2. \A u \in Users : u # v => k[u] = h[u]
    BY <1>4, <1>6
  <2> QED BY <1>3, <2>1, <2>2, WholeSumChange
<1>9. SumFunction(f) \in Int /\ SumFunction(h) \in Int
  BY <1>3, <1>4, SumType DEF SumFunction
<1> QED BY <1>2, <1>4, <1>5, <1>6, <1>7, <1>8, <1>9

\* Steps that run no statement leave what is out as it is.
LEMMA OutKept ==
    ASSUME ExTypes, [Next]_vars,
           \/ settling'.step = settling.step /\ settling'.settled = settling.settled
           \/ settling.step \notin 1 .. 3 /\ settling'.step \notin 1 .. 3
    PROVE  MoneyOut' = MoneyOut /\ StockIn' = StockIn
<1>1. CASE settling.step \notin 1 .. 3 /\ settling'.step \notin 1 .. 3
  BY <1>1 DEF MoneyOut, StockIn
<1>2. CASE /\ settling'.step = settling.step /\ settling'.settled = settling.settled
           /\ settling.step \in 1 .. 3
  <2>1. settling.matches > 0
    BY <1>2 DEF ExTypes, SettlingOK, SettlingRecord
  <2>2. settling.settled + 1 \in 1 .. Len(results) /\ BookInv
    BY <2>1, RecTyped DEF ExTypes
  <2>3. rec' = rec
    BY <1>2, <2>2, RecordsGrow DEF rec
  <2>4. sell_money' = sell_money /\ shares' = shares
    BY <2>3 DEF sell_money, shares
  <2> QED BY <1>2, <2>3, <2>4 DEF MoneyOut, StockIn
<1> QED BY <1>1, <1>2

LEMMA OutTyped == ASSUME ExTypes PROVE MoneyOut \in Int /\ StockIn \in Int
<1>1. CASE settling.step \in 1 .. 3
  <2>1. settling.matches > 0
    BY <1>1 DEF ExTypes, SettlingOK, SettlingRecord
  <2>2. sell_money \in Int /\ shares \in Int
    BY <2>1, RecTyped
  <2> QED BY <2>2 DEF MoneyOut, StockIn
<1>2. CASE settling.step \notin 1 .. 3
  BY <1>2 DEF MoneyOut, StockIn
<1> QED BY <1>1, <1>2

LEMMA OpeningSums ==
    ASSUME IsFiniteSet(Users)
    PROVE  SumFunction(OpeningBalance) \in Int /\ SumFunction(OpeningHolding) \in Int
<1>1. /\ DOMAIN OpeningBalance = Users /\ \A u \in Users : OpeningBalance[u] \in Int
      /\ DOMAIN OpeningHolding = Users /\ \A u \in Users : OpeningHolding[u] \in Int
  BY ExchangeAssumption
<1> QED BY <1>1, SumType DEF SumFunction

\* The four statements of a trade take its money out, put its stock in, put the money
\* back and take the stock out again.
LEMMA StatementConserves ==
    ASSUME IsFiniteSet(Users), ExTypes, Conserved, SettleInDb, Effective
    PROVE  Conserved'
<1>1. PICK b, v, x, q, k : /\ b = rec.buyer /\ v = rec.seller /\ x = sell_money
                           /\ q = shares /\ k = settling.step
  OBVIOUS
<1>2. b \in Users /\ v \in Users /\ x \in Int /\ q \in Int
  <2>1. settling.matches > 0
    BY DEF SettleInDb
  <2> QED BY <1>1, <2>1, RecTyped
<1>3. settling'.step = k + 1 /\ settling'.settled = settling.settled
  BY <1>1, SettlingMoves DEF SettlingIs
<1>4. rec' = rec /\ sell_money' = sell_money /\ shares' = shares
  BY <1>3 DEF rec, sell_money, shares, SettleInDb, vars
<1>5. deposited' = deposited /\ deposited \in Int
  BY ExchangeAssumption DEF SettleInDb, ExTypes, CountsTyped
<1>6. /\ MoneyOut = IF k \in {1, 2} THEN x ELSE 0
      /\ StockIn = IF k \in {2, 3} THEN q ELSE 0
      /\ MoneyOut' = IF k + 1 \in {1, 2} THEN x ELSE 0
      /\ StockIn' = IF k + 1 \in {2, 3} THEN q ELSE 0
  BY <1>1, <1>3, <1>4 DEF MoneyOut, StockIn
<1>7. PICK mo, so : /\ mo = SumFunction(OpeningBalance) /\ so = SumFunction(OpeningHolding)
                    /\ mo \in Int /\ so \in Int
  BY OpeningSums
<1>8. AllMoney = mo + deposited - MoneyOut /\ AllStock = so + StockIn
  BY <1>7 DEF Conserved
<1>9. 0 \in Int /\ - x \in Int /\ - q \in Int
  BY <1>2
<1>10. \/ k = 0 /\ AllMoney' = AllMoney + (- x) /\ AllStock' = AllStock + 0
       \/ k = 1 /\ AllMoney' = AllMoney + 0 /\ AllStock' = AllStock + q
       \/ k = 2 /\ AllMoney' = AllMoney + x /\ AllStock' = AllStock + 0
       \/ k = 3 /\ AllMoney' = AllMoney + 0 /\ AllStock' = AllStock + (- q)
  <2>1. CASE k = 0 /\ RowsMove(b, - x, 0)
    BY <1>2, <1>9, <2>1, SumsMove
  <2>2. CASE k = 1 /\ RowsMove(b, 0, q)
    BY <1>2, <1>9, <2>2, SumsMove
  <2>3. CASE k = 2 /\ RowsMove(v, x, 0)
    BY <1>2, <1>9, <2>3, SumsMove
  <2>4. CASE k = 3 /\ RowsMove(v, 0, - q)
    BY <1>2, <1>9, <2>4, SumsMove
  <2> QED BY <1>1, <2>1, <2>2, <2>3, <2>4 DEF Effective
<1>11. AllMoney' = mo + deposited - MoneyOut' /\ AllStock' = so + StockIn'
  BY <1>2, <1>5, <1>6, <1>7, <1>8, <1>10
<1> QED BY <1>5, <1>7, <1>11 DEF Conserved

LEMMA SumsRest ==
    ASSUME db' = db, deposited' = deposited, MoneyOut' = MoneyOut, StockIn' = StockIn, Conserved
    PROVE  Conserved'
BY DEF Conserved, AllMoney, AllStock

\* Any other step of the process: only a deposit changes the tables.
LEMMA OthersConserve ==
    ASSUME IsFiniteSet(Users), ExTypes, Conserved, [ExNext]_allVars,
           \/ Handlers \/ WalThread \/ BookThread \/ UNCHANGED allVars
           \/ TakeMatches \/ SettleBuyer \/ SettleSeller
           \/ TakeCancels \/ SettleCancel
    PROVE  Conserved'
<1>1. [Next]_vars
  BY StepExTypes
<1>2. ASSUME settling' = settling PROVE MoneyOut' = MoneyOut /\ StockIn' = StockIn
  BY <1>1, <1>2, OutKept
<1>3. ASSUME settling' = settling, db' = db, deposited' = deposited PROVE Conserved'
  BY <1>2, <1>3, SumsRest
<1>4. ASSUME NEW v \in Users, NEW a \in DepositAmounts, DepositToDb(v, a) PROVE Conserved'
  <2>1. settling' = settling /\ deposited' = deposited + a
    BY <1>4 DEF DepositToDb
  <2>2. RowsMove(v, a, 0) /\ a \in Int /\ 0 \in Int
    BY <1>4, DepositRowsMove
  <2>3. AllMoney' = AllMoney + a /\ AllStock' = AllStock + 0
    BY <2>2, SumsMove
  <2>4. PICK mo, so : /\ mo = SumFunction(OpeningBalance) /\ so = SumFunction(OpeningHolding)
                      /\ mo \in Int /\ so \in Int
    BY OpeningSums
  <2>5. AllMoney = mo + deposited - MoneyOut /\ AllStock = so + StockIn
    BY <2>4 DEF Conserved
  <2>6. deposited \in Int /\ MoneyOut \in Int /\ StockIn \in Int
    BY OutTyped, ExchangeAssumption DEF ExTypes, CountsTyped
  <2>7. MoneyOut' = MoneyOut /\ StockIn' = StockIn
    BY <1>2, <2>1
  <2>8. AllMoney' = mo + deposited' - MoneyOut' /\ AllStock' = so + StockIn'
    BY <2>1, <2>2, <2>3, <2>4, <2>5, <2>6, <2>7
  <2> QED BY <2>4, <2>8 DEF Conserved
<1>5. CASE Handlers
  <2>1. CASE \E i \in OrderIds, u \in Users, tk \in Tickers, s \in Side, p \in Prices,
                q \in Quantities : Trade(i, u, tk, s, p, q)
    BY <1>3, <2>1 DEF Trade
  <2>2. CASE \E i \in OrderIds, u \in Users, tk \in Tickers : Cancel(i, u, tk)
    BY <1>3, <2>2 DEF Cancel
  <2>3. CASE \E u \in Users : DepositToMemory(u)
    BY <1>3, <2>3 DEF DepositToMemory
  <2> QED BY <1>4, <1>5, <2>1, <2>2, <2>3 DEF Handlers
<1>6. CASE WalThread \/ BookThread
  BY <1>3, <1>6 DEF WalThread, WalWrite, WalDispatch, BookThread, BookTake, BookHandles,
                    BookMatches, BookPushes, exVars
<1>7. CASE UNCHANGED allVars
  BY <1>3, <1>7 DEF allVars, exVars
<1>8. CASE \/ TakeMatches \/ SettleBuyer \/ SettleSeller
           \/ TakeCancels \/ SettleCancel
  <2>1. db' = db /\ deposited' = deposited
    BY <1>8 DEF TakeMatches, SettleBuyer, SettleSeller, TakeCancels, SettleCancel
  <2>2. \/ settling'.step = settling.step /\ settling'.settled = settling.settled
        \/ settling.step \notin 1 .. 3 /\ settling'.step \notin 1 .. 3
    <3>1. CASE TakeMatches \/ TakeCancels \/ SettleCancel
      BY <3>1, SettlingMoves DEF SettlingIs
    <3>2. CASE SettleBuyer
      <4>1. settling.step = 4 /\ settling'.step = 5
        BY <3>2, SettlingMoves DEF SettlingIs, SettleBuyer
      <4> QED BY <4>1
    <3>3. CASE SettleSeller
      <4>1. settling.step = 5 /\ settling'.step = 0
        BY <3>3, SettlingMoves DEF SettlingIs, SettleSeller
      <4> QED BY <4>1
    <3> QED BY <1>8, <3>1, <3>2, <3>3
  <2>3. MoneyOut' = MoneyOut /\ StockIn' = StockIn
    BY <1>1, <2>2, OutKept
  <2> QED BY <2>1, <2>3, SumsRest
<1> QED BY <1>5, <1>6, <1>7, <1>8

LEMMA StepConserved ==
    ASSUME IsFiniteSet(Users)
    PROVE  LifeInv /\ (~ torn => Conserved) /\ [RNext]_recVars => (~ torn => Conserved)'
<1> SUFFICES ASSUME LifeInv, ~ torn => Conserved, [RNext]_recVars, ~ torn' PROVE Conserved'
  OBVIOUS
<1>0. ExTypes
  BY DEF LifeInv
<1>1. CASE Crash
  <2>1. Conserved /\ settling.step \notin 1 .. 3 /\ db' = db /\ deposited' = deposited
    BY <1>1 DEF Crash
  <2>2. settling'.step \notin 1 .. 3
    BY <1>1 DEF Crash, TopOfLoop
  <2>3. MoneyOut' = MoneyOut /\ StockIn' = StockIn
    BY <2>1, <2>2 DEF MoneyOut, StockIn
  <2> QED BY <2>1, <2>3, SumsRest
<1>2. CASE RunStatement
  <2>1. SettleInDb /\ Conserved /\ db' # db
    BY <1>2 DEF RunStatement
  <2> QED BY <1>0, <2>1, ChangedIsEffective, StatementConserves
<1>3. CASE WriteBatch \/ OtherStep \/ UNCHANGED recVars
  <2>1. Conserved /\ [ExNext]_allVars
    BY <1>3 DEF WriteBatch, OtherStep, recVars, ExNext, WalThread, SettlementThread
  <2> QED BY <1>0, <1>3, <2>1, OthersConserve DEF WriteBatch, OtherStep, recVars, WalThread
<1> QED BY <1>1, <1>2, <1>3 DEF RNext

LEMMA InitConserved == ASSUME IsFiniteSet(Users) PROVE RInit => Conserved
<1> SUFFICES ASSUME RInit PROVE Conserved
  OBVIOUS
<1>1. /\ [u \in Users |-> db[u].balance] = OpeningBalance
      /\ [u \in Users |-> db[u].holding] = OpeningHolding
  <2>1. ASSUME NEW u \in Users
        PROVE  db[u].balance = OpeningBalance[u] /\ db[u].holding = OpeningHolding[u]
    BY DEF RInit, ExInit
  <2> QED BY <2>1, ExchangeAssumption
<1>2. MoneyOut = 0 /\ StockIn = 0 /\ deposited = 0
  BY DEF RInit, ExInit, TopOfLoop, MoneyOut, StockIn
<1> QED BY <1>1, <1>2, OpeningSums DEF Conserved, AllMoney, AllStock

\* In every life and across crashes the money and the stock in the tables are what they
\* were at the start and what was deposited, except for the statements of the trade that is
\* being settled, until a crash or a failing statement tears a trade.  The sums are over the
\* users, who are finitely many.
THEOREM TablesAlwaysConserve ==
    ASSUME IsFiniteSet(Users)
    PROVE  RSpec => []TablesConserve
<1>1. RInit => LifeInv /\ (~ torn => Conserved)
  BY InitLifeInv, InitConserved
<1>2. LifeInv /\ (~ torn => Conserved) /\ [RNext]_recVars => LifeInv' /\ (~ torn => Conserved)'
  BY StepLifeInv, StepConserved
<1>3. LifeInv /\ (~ torn => Conserved) => TablesConserve
  BY ConservedImplies DEF LifeInv
<1> QED BY <1>1, <1>2, <1>3, PTL DEF RSpec

-----------------------------------------------------------------------------
(***************************************************************************)
(* The order of the calls in main.  loadAllFromDB runs before the tickers  *)
(* are loaded, so that it passes over every holding: nobody has stock to   *)
(* sell, and nobody ever gets any.                                         *)
(***************************************************************************)

\* Orders that sell nothing.
UnsoldKinds == {t \in Side \X Nat \X Nat : t[1] = "SELL" => t[3] = 0}

LEMMA UnsoldIs ==
    ASSUME NEW s \in Side, NEW p \in Nat, NEW q \in Nat
    PROVE  <<s, p, q>> \in UnsoldKinds <=> (s = "SELL" => q = 0)
<1>1. PICK t : t = <<s, p, q>>
  OBVIOUS
<1>2. t \in Side \X Nat \X Nat /\ t[1] = s /\ t[2] = p /\ t[3] = q
  BY <1>1
<1>3. t \in UnsoldKinds <=> (s = "SELL" => q = 0)
  BY <1>2, Zenon DEF UnsoldKinds
<1> QED BY <1>1, <1>3

LEMMA UnsoldClosed == Closed(UnsoldKinds)
<1> SUFFICES ASSUME NEW s \in Side, NEW p \in Nat, NEW q \in Nat, NEW r \in Nat,
                    <<s, p, q>> \in UnsoldKinds, r =< q
             PROVE  <<s, p, r>> \in UnsoldKinds
  BY DEF Closed
<1>1. s = "SELL" => q = 0
  BY UnsoldIs
<1>2. s = "SELL" => r = 0
  BY <1>1
<1> QED BY <1>2, UnsoldIs

\* A trade needs a seller of something.
LEMMA NothingSold ==
    ASSUME ExTypes, Within(UnsoldKinds)
    PROVE  results = << >> /\ settling.matches = 0
<1>1. results \in Seq(MatchRecord)
  BY DEF ExTypes, BookInv, TypeOK
<1>2. ASSUME NEW k \in 1 .. Len(results) PROVE FALSE
  <2>1. PICK r : r = results[k] /\ r \in MatchRecord
    BY <1>1, <1>2
  <2>2. TradeIsIn(r, UnsoldKinds)
    BY <1>2, <2>1 DEF Within, BookWithin
  <2>3. PICK p \in Nat : <<"SELL", p, r.match_quantity>> \in UnsoldKinds
    BY <2>2 DEF TradeIsIn
  <2>4. r.match_quantity \in Nat /\ r.match_quantity > 0
    BY <2>1, <2>2, BookAssumption DEF TradeIsIn, MatchRecord
  <2>5. "SELL" \in Side
    BY DEF Side
  <2>6. r.match_quantity = 0
    BY <2>3, <2>4, <2>5, UnsoldIs
  <2> QED BY <2>4, <2>6
<1>3. Len(results) = 0 /\ results = << >>
  BY <1>1, <1>2
<1>4. settling.matches \in Nat
  BY DEF ExTypes, SettlingOK, SettlingRecord
<1>5. ~ (settling.matches > 0)
  BY <1>2, RecTyped
<1> QED BY <1>3, <1>4, <1>5

\* Only the settlement of a trade changes what a user owns of the stock.
LEMMA StockRests ==
    ASSUME ExTypes, [ExNext]_allVars, settling.matches = 0, NEW u \in Users
    PROVE  Stock(u)' = Stock(u)
<1>0. MoneyTyped /\ Stock(u) \in Int
  BY MoneyStockTyped DEF ExTypes
<1>1. ASSUME NEW v \in Users, NEW dm, Moves(v, dm, 0) PROVE Stock(u)' = Stock(u)
  BY <1>0, <1>1 DEF Moves
<1>2. CASE account' = account
  BY <1>2 DEF Stock
<1>3. ASSUME NEW i \in OrderIds, NEW v \in Users, NEW tk \in Tickers, NEW t \in Side,
             NEW p \in Prices, NEW q \in Quantities, Trade(i, v, tk, t, p, q)
      PROVE  Stock(u)' = Stock(u)
  BY <1>1, <1>3, TradeMoves
<1>4. ASSUME NEW v \in Users, DepositToMemory(v) PROVE Stock(u)' = Stock(u)
  BY <1>1, <1>4, DepositMoves
<1>5. CASE Handlers
  <2>1. CASE \E i \in OrderIds, v \in Users, tk \in Tickers : Cancel(i, v, tk)
    BY <1>2, <2>1 DEF Cancel
  <2>2. CASE \E v \in Users, a \in DepositAmounts : DepositToDb(v, a)
    BY <1>2, <2>2 DEF DepositToDb
  <2> QED BY <1>3, <1>4, <1>5, <2>1, <2>2 DEF Handlers
<1>6. CASE WalThread \/ BookThread
  BY <1>2, <1>6 DEF WalThread, WalWrite, WalDispatch, BookThread, BookTake, BookHandles,
                    BookMatches, BookPushes, exVars
<1>7. CASE TakeMatches \/ SettleInDb \/ TakeCancels
  BY <1>2, <1>7 DEF TakeMatches, SettleInDb, TakeCancels
<1>8. CASE SettleCancel
  BY <1>1, <1>8, ReleaseMoves
<1>9. ~ SettleBuyer /\ ~ SettleSeller
  BY DEF SettleBuyer, SettleSeller
<1>10. CASE UNCHANGED allVars
  BY <1>2, <1>10 DEF allVars, exVars
<1> QED BY <1>5, <1>6, <1>7, <1>8, <1>9, <1>10 DEF ExNext, SettlementThread

\* Nobody owns any stock in memory, and no order sells any.
Unsold == Within(UnsoldKinds) /\ \A u \in Users : Stock(u) = 0

LEMMA StepUnsold ==
    ASSUME LedgerInv, Solvent, Unsold, [ExNext]_allVars, ~ wrapped'
    PROVE  Unsold'
<1>1. ExTypes /\ ExTypes' /\ PipeInv
  BY StepExTypes DEF LedgerInv
<1>2. settling.matches = 0
  BY <1>1, NothingSold DEF Unsold
<1>3. \A u \in Users : Stock(u)' = 0
  BY <1>1, <1>2, StockRests DEF Unsold
<1>4. ASSUME NEW i \in OrderIds, NEW u \in Users, NEW tk \in Tickers, NEW s \in Side,
             NEW p \in Prices, NEW q \in Quantities, Trade(i, u, tk, s, p, q)
      PROVE  <<s, p, q>> \in UnsoldKinds
  <2>1. p \in Nat /\ q \in Nat
    BY BookAssumption
  <2> SUFFICES ASSUME s = "SELL" PROVE q = 0
    BY <2>1, UnsoldIs
  <2>2. Amount(s, p, q) = q
    BY <1>4, TradeFits DEF Worth
  <2>3. account[u].available_stock = 0 /\ account[u].unlisted_stock = 0
    <3>1. NoOverdraft
      BY SolventImplies
    <3>2. account[u] \in Account /\ Stock(u) = 0
      BY <1>1 DEF ExTypes, MoneyTyped, Unsold
    <3>3. /\ account[u].available_stock \in Int /\ account[u].frozen_stock \in Int
          /\ account[u].available_stock + account[u].frozen_stock = 0
      BY <3>2 DEF Account, Stock
    <3> QED BY <3>1, <3>3 DEF NoOverdraft
  <2>4. Available(account[u], tk, s) = 0
    BY <2>3 DEF Available
  <2>5. 0 >= q
    BY <1>4, <2>2, <2>4 DEF Trade, Affordable
  <2> QED BY <2>1, <2>5
<1>5. Within(UnsoldKinds)'
  <2>1. Within(UnsoldKinds) /\ Closed(UnsoldKinds)
    BY UnsoldClosed DEF Unsold
  <2> QED BY <1>1, <1>4, <2>1, StepWithin
<1> QED BY <1>3, <1>5 DEF Unsold

LEMMA FreshUnsold == ASSUME ~ TickersKnown PROVE FreshLife => Unsold
<1> SUFFICES ASSUME FreshLife PROVE Unsold
  OBVIOUS
<1>1. Within(UnsoldKinds)
  BY FreshWithin
<1>2. \A u \in Users : account[u].available_stock = 0 /\ account[u].frozen_stock = 0
  BY FreshAccount
<1> QED BY <1>1, <1>2 DEF Unsold, Stock

LEMMA FreshUnsoldNext == ASSUME ~ TickersKnown PROVE FreshLife' => Unsold'
<1>1. FreshLife => Unsold
  BY FreshUnsold
<1> QED BY <1>1, PTL

\* The book makes no trade unless an order was accepted with the wrong reservation.
NothingTraded == ~ wrapped => results = << >>

\* With the calls of main in the order they have (main.cpp:122-123), in every life and
\* whatever users hold according to the table: nothing is ever traded, unless TradeHandler
\* accepts an order whose amount does not fit its signed type.
THEOREM NothingIsTraded ==
    ASSUME ~ TickersKnown
    PROVE  RSpec => []NothingTraded
<1> DEFINE UnsoldInv == ~ wrapped => Unsold
<1>1. RInit => LifeInv /\ UnsoldInv
  BY InitLifeInv, InitIsFresh, FreshUnsold DEF RInit
<1>2. LifeInv /\ UnsoldInv /\ [RNext]_recVars => LifeInv' /\ UnsoldInv'
  <2> SUFFICES ASSUME LifeInv, UnsoldInv, [RNext]_recVars, ~ wrapped' PROVE Unsold'
    BY StepLifeInv
  <2>1. LedgerInv /\ Solvent /\ Unsold /\ ExTypes
    BY WrappedStays DEF LifeInv
  <2>2. CASE [ExNext]_allVars
    BY <2>1, <2>2, StepUnsold
  <2>3. CASE Crash
    BY <2>1, <2>3, CrashStartsAfresh, FreshUnsoldNext
  <2> QED BY <2>2, <2>3, RecoverySteps
<1>3. LifeInv /\ UnsoldInv => NothingTraded
  BY NothingSold DEF NothingTraded, LifeInv, Unsold
<1> HIDE DEF UnsoldInv
<1> QED BY <1>1, <1>2, <1>3, PTL DEF RSpec

-----------------------------------------------------------------------------
(***************************************************************************)
(* The log.  What Selected makes of one sequence after another is what it  *)
(* makes of each, one after the other; so the part of the log that is for  *)
(* the listed ticker is what the book has handled and what is still on its *)
(* way, one after the other.                                               *)
(***************************************************************************)

LessOn(I) == {p \in I \X I : p[1] < p[2]}

Below(I, i) == {j \in I : j < i}

LEMMA LessTotal == ASSUME NEW I \in SUBSET Nat PROVE TotalOn(LessOn(I), I)
BY DEF TotalOn, LessOn

LEMMA BelowIs ==
    ASSUME NEW I \in SUBSET Nat, NEW i \in I
    PROVE  Before(I, LessOn(I), i) = Below(I, i)
BY DEF Before, LessOn, Below

LEMMA PlaceIs ==
    ASSUME NEW I \in SUBSET Nat, IsFiniteSet(I), NEW k \in Nat, NEW i \in I,
           Cardinality(Below(I, i)) = k - 1
    PROVE  Place(I, k) = i
<1>1. \A j \in I : Cardinality(Below(I, j)) = k - 1 => j = i
  BY LessTotal, BelowIs, RankOnce
<1> QED BY <1>1 DEF Place, Below

LEMMA PlaceFound ==
    ASSUME NEW I \in SUBSET Nat, IsFiniteSet(I), NEW k \in 1 .. Cardinality(I)
    PROVE  Place(I, k) \in I /\ Cardinality(Below(I, Place(I, k))) = k - 1
<1>1. Cardinality(I) \in Nat
  BY FS_CardinalityType
<1>2. k - 1 \in Nat /\ k - 1 < Cardinality(I) /\ k \in Nat
  BY <1>1
<1>3. PICK i \in I : Cardinality(Before(I, LessOn(I), i)) = k - 1
  BY <1>2, LessTotal, RankFound
<1>4. Cardinality(Below(I, i)) = k - 1
  BY <1>3, BelowIs
<1> QED BY <1>2, <1>4, PlaceIs

Shift(J, n) == {n + j : j \in J}

LEMMA ShiftCard ==
    ASSUME NEW J \in SUBSET Nat, IsFiniteSet(J), NEW n \in Nat
    PROVE  IsFiniteSet(Shift(J, n)) /\ Cardinality(Shift(J, n)) = Cardinality(J)
<1> DEFINE f == [j \in J |-> n + j]
<1>1. f \in Injection(J, Shift(J, n))
  <2>1. f \in [J -> Shift(J, n)]
    BY DEF Shift
  <2>2. ASSUME NEW a \in J, NEW b \in J, f[a] = f[b] PROVE a = b
    <3>1. n + a = n + b /\ a \in Nat /\ b \in Nat
      BY <2>2
    <3> QED BY <3>1
  <2> QED BY <2>1, <2>2 DEF Injection, IsInjective
<1>2. f \in Surjection(J, Shift(J, n))
  BY DEF Surjection, Shift
<1>3. ExistsBijection(J, Shift(J, n))
  BY <1>1, <1>2 DEF ExistsBijection, Bijection
<1> QED BY <1>3, FS_Bijection

LEMMA UnionCard ==
    ASSUME NEW S, IsFiniteSet(S), NEW T, IsFiniteSet(T), S \cap T = {}
    PROVE  IsFiniteSet(S \cup T) /\ Cardinality(S \cup T) = Cardinality(S) + Cardinality(T)
<1>1. /\ IsFiniteSet(S \cup T)
      /\ Cardinality(S \cup T) = Cardinality(S) + Cardinality(T) - Cardinality(S \cap T)
  BY FS_Union
<1>2. Cardinality(S \cap T) = 0
  BY FS_EmptySet
<1>3. Cardinality(S) \in Nat /\ Cardinality(T) \in Nat
  BY FS_CardinalityType
<1> QED BY <1>1, <1>2, <1>3

\* Places I in a sequence of length n and J in another one, and K in the one after the other.
PlacesJoined(I, J, n, K) ==
    /\ IsFiniteSet(K)
    /\ Cardinality(I) \in Nat /\ Cardinality(J) \in Nat
    /\ Cardinality(K) = Cardinality(I) + Cardinality(J)
    /\ \A k \in 1 .. Cardinality(I) : Place(K, k) = Place(I, k)
    /\ \A k \in 1 .. Cardinality(J) : Place(K, Cardinality(I) + k) = n + Place(J, k)

LEMMA PlacesJoin ==
    ASSUME NEW n \in Nat, NEW I \in SUBSET (1 .. n), NEW m \in Nat, NEW J \in SUBSET (1 .. m),
           NEW K, K = I \cup Shift(J, n)
    PROVE  PlacesJoined(I, J, n, K)
<1>1. I \in SUBSET Nat /\ J \in SUBSET Nat /\ K \in SUBSET Nat
  <2>1. I \in SUBSET Nat /\ J \in SUBSET Nat
    OBVIOUS
  <2>2. ASSUME NEW x \in Shift(J, n) PROVE x \in Nat
    BY <2>1, <2>2 DEF Shift
  <2> QED BY <2>1, <2>2
<1>2. IsFiniteSet(I) /\ IsFiniteSet(J) /\ Cardinality(I) \in Nat /\ Cardinality(J) \in Nat
  <2>1. IsFiniteSet(1 .. n) /\ IsFiniteSet(1 .. m)
    <3>1. 1 \in Int /\ n \in Int /\ m \in Int
      OBVIOUS
    <3> QED BY <3>1, FS_Interval
  <2>2. IsFiniteSet(I) /\ IsFiniteSet(J)
    BY <2>1, FS_Subset
  <2> QED BY <2>2, FS_CardinalityType
<1>3. IsFiniteSet(Shift(J, n)) /\ Cardinality(Shift(J, n)) = Cardinality(J)
  BY <1>1, <1>2, ShiftCard
<1>4. \A j \in Shift(J, n) : j \in Nat /\ j > n
  BY DEF Shift
<1>5. I \cap Shift(J, n) = {}
  BY <1>4
<1>6. IsFiniteSet(K) /\ Cardinality(K) = Cardinality(I) + Cardinality(J)
  BY <1>2, <1>3, <1>5, UnionCard
<1>7. ASSUME NEW k \in 1 .. Cardinality(I) PROVE Place(K, k) = Place(I, k)
  <2>1. PICK i \in I : i = Place(I, k) /\ Cardinality(Below(I, i)) = k - 1
    BY <1>1, <1>2, PlaceFound
  <2>2. Below(K, i) = Below(I, i)
    BY <1>1, <1>4 DEF Below
  <2>3. k \in Nat /\ i \in K
    BY <1>2
  <2> QED BY <1>1, <1>6, <2>1, <2>2, <2>3, PlaceIs
<1>8. ASSUME NEW k \in 1 .. Cardinality(J)
      PROVE  Place(K, Cardinality(I) + k) = n + Place(J, k)
  <2>1. PICK j \in J : j = Place(J, k) /\ Cardinality(Below(J, j)) = k - 1
    BY <1>1, <1>2, PlaceFound
  <2>2. Below(J, j) \in SUBSET Nat /\ IsFiniteSet(Below(J, j))
    BY <1>1, <1>2, FS_Subset DEF Below
  <2>3. Below(K, n + j) = I \cup Shift(Below(J, j), n)
    <3>1. ASSUME NEW x \in Below(K, n + j) PROVE x \in I \cup Shift(Below(J, j), n)
      BY <1>1, <3>1 DEF Below, Shift
    <3>2. ASSUME NEW x \in I PROVE x \in Below(K, n + j)
      BY <1>1, <3>2 DEF Below
    <3>3. ASSUME NEW x \in Shift(Below(J, j), n) PROVE x \in Below(K, n + j)
      BY <1>1, <3>3 DEF Below, Shift
    <3> QED BY <3>1, <3>2, <3>3
  <2>4. /\ IsFiniteSet(Shift(Below(J, j), n))
        /\ Cardinality(Shift(Below(J, j), n)) = k - 1
    BY <2>1, <2>2, ShiftCard
  <2>5. I \cap Shift(Below(J, j), n) = {}
    BY <1>5 DEF Below, Shift
  <2>6. Cardinality(Below(K, n + j)) = Cardinality(I) + (k - 1)
    <3>1. k - 1 \in Nat
      BY <1>2
    <3> QED BY <1>2, <2>3, <2>4, <2>5, <3>1, UnionCard
  <2>7. /\ Cardinality(I) + (k - 1) = (Cardinality(I) + k) - 1
        /\ Cardinality(I) + k \in Nat /\ n + j \in K
    BY <1>2 DEF Shift
  <2>8. Place(K, Cardinality(I) + k) = n + j
    BY <1>1, <1>6, <2>6, <2>7, PlaceIs
  <2> QED BY <2>1, <2>8
<1> QED BY <1>2, <1>6, <1>7, <1>8 DEF PlacesJoined

\* u is v and then w.
LEMMA IsConcat ==
    ASSUME NEW S, NEW v \in Seq(S), NEW w \in Seq(S), NEW u \in Seq(S),
           Len(u) = Len(v) + Len(w),
           \A k \in 1 .. Len(v) : u[k] = v[k],
           \A k \in 1 .. Len(w) : u[Len(v) + k] = w[k]
    PROVE  u = v \o w
<1>1. Len(v) \in Nat /\ Len(w) \in Nat
  BY LenProperties
<1>2. /\ v \o w \in Seq(S) /\ Len(v \o w) = Len(v) + Len(w)
      /\ \A k \in 1 .. Len(v) + Len(w) :
            (v \o w)[k] = IF k =< Len(v) THEN v[k] ELSE w[k - Len(v)]
  BY ConcatProperties
<1>3. PICK x : x = v \o w
  OBVIOUS
<1>4. ASSUME NEW k \in 1 .. Len(u) PROVE u[k] = x[k]
  <2>1. CASE k =< Len(v)
    BY <1>1, <1>2, <1>3, <2>1
  <2>2. CASE ~ (k =< Len(v))
    <3>1. k - Len(v) \in 1 .. Len(w) /\ Len(v) + (k - Len(v)) = k
      BY <1>1, <2>2
    <3>2. u[k] = w[k - Len(v)]
      BY <3>1
    <3> QED BY <1>2, <1>3, <2>2, <3>2
  <2> QED BY <2>1, <2>2
<1>5. x \in Seq(S) /\ Len(x) = Len(u)
  BY <1>2, <1>3
<1>6. u = x
  BY <1>4, <1>5, SeqEqual
<1> QED BY <1>3, <1>6

LEMMA SelectedTyped ==
    ASSUME NEW S, NEW q \in Seq(S), NEW I \in SUBSET DOMAIN q
    PROVE  /\ IsFiniteSet(I) /\ Cardinality(I) \in Nat
           /\ \A k \in 1 .. Cardinality(I) : Place(I, k) \in I
           /\ Selected(q, I) \in Seq(S) /\ Len(Selected(q, I)) = Cardinality(I)
           /\ DOMAIN Selected(q, I) = 1 .. Cardinality(I)
           /\ \A k \in 1 .. Cardinality(I) : Selected(q, I)[k] = q[Place(I, k)]
<1>1. Len(q) \in Nat /\ DOMAIN q = 1 .. Len(q) /\ \A i \in 1 .. Len(q) : q[i] \in S
  BY LenProperties, ElementOfSeq
<1>2. IsFiniteSet(I) /\ Cardinality(I) \in Nat
  <2>1. 1 \in Int /\ Len(q) \in Int
    BY <1>1
  <2>2. IsFiniteSet(DOMAIN q)
    BY <1>1, <2>1, FS_Interval
  <2> QED BY <2>2, FS_Subset, FS_CardinalityType
<1>3. I \in SUBSET Nat
  BY <1>1
<1>4. \A k \in 1 .. Cardinality(I) : Place(I, k) \in I
  BY <1>2, <1>3, PlaceFound
<1>5. \A k \in 1 .. Cardinality(I) : q[Place(I, k)] \in S
  BY <1>1, <1>4
<1>6. PICK n, x : n = Cardinality(I) /\ x = Selected(q, I)
  OBVIOUS
<1>7. x = [k \in 1 .. n |-> q[Place(I, k)]]
  BY <1>6 DEF Selected
<1>8. x \in [1 .. n -> S] /\ n \in Nat
  BY <1>2, <1>5, <1>6, <1>7
<1>9. x \in Seq(S) /\ Len(x) = n /\ DOMAIN x = 1 .. n
  BY <1>8
<1> QED BY <1>2, <1>4, <1>6, <1>7, <1>9

LEMMA SelectedJoin ==
    ASSUME NEW S, NEW s \in Seq(S), NEW t \in Seq(S),
           NEW I \in SUBSET DOMAIN s, NEW J \in SUBSET DOMAIN t, NEW K,
           K = I \cup Shift(J, Len(s))
    PROVE  Selected(s \o t, K) = Selected(s, I) \o Selected(t, J)
<1>1. PICK n, m, st : n = Len(s) /\ m = Len(t) /\ st = s \o t
  OBVIOUS
<1>2. n \in Nat /\ m \in Nat /\ DOMAIN s = 1 .. n /\ DOMAIN t = 1 .. m
  BY <1>1, LenProperties
<1>3. /\ st \in Seq(S) /\ Len(st) = n + m
      /\ \A k \in 1 .. n + m : st[k] = IF k =< n THEN s[k] ELSE t[k - n]
  <2>1. /\ s \o t \in Seq(S) /\ Len(s \o t) = Len(s) + Len(t)
        /\ \A k \in 1 .. Len(s) + Len(t) :
              (s \o t)[k] = IF k =< Len(s) THEN s[k] ELSE t[k - Len(s)]
    BY ConcatProperties
  <2> QED BY <1>1, <2>1, Zenon
<1>4. DOMAIN st = 1 .. n + m
  BY <1>3, LenProperties
<1>5. K \in SUBSET DOMAIN st
  <2>1. ASSUME NEW x \in Shift(J, n) PROVE x \in 1 .. n + m
    <3>1. PICK j \in J : x = n + j
      BY <2>1 DEF Shift
    <3>2. j \in 1 .. m
      BY <1>2
    <3> QED BY <1>2, <3>1, <3>2
  <2>2. ASSUME NEW x \in I PROVE x \in 1 .. n + m
    BY <1>2, <2>2
  <2> QED BY <1>1, <1>4, <2>1, <2>2
<1>6. PICK a, b : a = Cardinality(I) /\ b = Cardinality(J)
  OBVIOUS
<1>7. /\ a \in Nat /\ b \in Nat /\ Cardinality(K) = a + b
      /\ \A k \in 1 .. a : Place(K, k) = Place(I, k)
      /\ \A k \in 1 .. b : Place(K, a + k) = n + Place(J, k)
  <2>1. I \in SUBSET (1 .. n) /\ J \in SUBSET (1 .. m) /\ K = I \cup Shift(J, n)
    BY <1>1, <1>2
  <2>2. PlacesJoined(I, J, n, K)
    BY <1>2, <2>1, PlacesJoin
  <2> QED BY <1>6, <2>2 DEF PlacesJoined
<1>8. PICK u, v, w : u = Selected(st, K) /\ v = Selected(s, I) /\ w = Selected(t, J)
  OBVIOUS
<1>9. /\ u \in Seq(S) /\ Len(u) = a + b /\ \A k \in 1 .. a + b : u[k] = st[Place(K, k)]
      /\ v \in Seq(S) /\ Len(v) = a /\ \A k \in 1 .. a : v[k] = s[Place(I, k)] /\ Place(I, k) \in I
      /\ w \in Seq(S) /\ Len(w) = b /\ \A k \in 1 .. b : w[k] = t[Place(J, k)] /\ Place(J, k) \in J
  <2>1. u \in Seq(S) /\ Len(u) = a + b /\ \A k \in 1 .. a + b : u[k] = st[Place(K, k)]
    <3>1. /\ Selected(st, K) \in Seq(S) /\ Len(Selected(st, K)) = Cardinality(K)
          /\ \A k \in 1 .. Cardinality(K) : Selected(st, K)[k] = st[Place(K, k)]
      BY <1>3, <1>5, SelectedTyped
    <3> QED BY <1>7, <1>8, <3>1, Zenon
  <2>2. /\ v \in Seq(S) /\ Len(v) = a
        /\ \A k \in 1 .. a : v[k] = s[Place(I, k)] /\ Place(I, k) \in I
    BY <1>6, <1>8, SelectedTyped
  <2>3. /\ w \in Seq(S) /\ Len(w) = b
        /\ \A k \in 1 .. b : w[k] = t[Place(J, k)] /\ Place(J, k) \in J
    BY <1>6, <1>8, SelectedTyped
  <2> QED BY <2>1, <2>2, <2>3
<1>10. ASSUME NEW k \in 1 .. a PROVE u[k] = v[k]
  <2>1. PICK i \in I : i = Place(I, k)
    BY <1>9
  <2>2. k \in 1 .. a + b /\ i \in 1 .. n + m /\ i =< n
    BY <1>2, <1>7
  <2> QED BY <1>3, <1>7, <1>9, <2>1, <2>2
<1>11. ASSUME NEW k \in 1 .. b PROVE u[a + k] = w[k]
  <2>1. PICK j \in J : j = Place(J, k)
    BY <1>9
  <2>2. a + k \in 1 .. a + b /\ n + j \in 1 .. n + m /\ ~ (n + j =< n) /\ (n + j) - n = j
    BY <1>2, <1>7
  <2>3. u[a + k] = st[n + j]
    BY <1>7, <1>9, <2>1, <2>2
  <2>4. st[n + j] = t[j]
    BY <1>3, <2>2
  <2> QED BY <1>9, <2>1, <2>3, <2>4
<1>12. u = v \o w
  BY <1>9, <1>10, <1>11, IsConcat
<1> QED BY <1>1, <1>8, <1>12

LEMMA SelectedNone == ASSUME NEW q PROVE Selected(q, {}) = << >>
<1>1. Cardinality({}) = 0
  BY FS_EmptySet
<1>2. 1 .. 0 = {}
  OBVIOUS
<1> QED BY <1>1, <1>2 DEF Selected

LEMMA SelectedOne == ASSUME NEW e PROVE Selected(<<e>>, {1}) = <<e>>
<1>1. IsFiniteSet({1}) /\ Cardinality({1}) = 1
  BY FS_Singleton
<1>2. Below({1}, 1) = {} /\ Cardinality({}) = 1 - 1
  BY FS_EmptySet DEF Below
<1>3. Place({1}, 1) = 1
  BY <1>1, <1>2, PlaceIs
<1>4. PICK x : x = Selected(<<e>>, {1})
  OBVIOUS
<1>5. x = [k \in 1 .. 1 |-> <<e>>[Place({1}, k)]]
  BY <1>1, <1>4 DEF Selected
<1>6. x = [k \in 1 .. 1 |-> e]
  BY <1>3, <1>5
<1> QED BY <1>4, <1>6

\* The places of the elements that have value v in field f.
Places(q, f, v) == {i \in DOMAIN q : q[i][f] = v}

LEMMA PlacesOfJoin ==
    ASSUME NEW S, NEW s \in Seq(S), NEW t \in Seq(S), NEW f, NEW v
    PROVE  /\ Places(s, f, v) \in SUBSET DOMAIN s /\ Places(t, f, v) \in SUBSET DOMAIN t
           /\ Places(s \o t, f, v) = Places(s, f, v) \cup Shift(Places(t, f, v), Len(s))
<1>1. PICK n, m, st : n = Len(s) /\ m = Len(t) /\ st = s \o t
  OBVIOUS
<1>2. n \in Nat /\ m \in Nat /\ DOMAIN s = 1 .. n /\ DOMAIN t = 1 .. m
  BY <1>1, LenProperties
<1>3. /\ st \in Seq(S) /\ Len(st) = n + m
      /\ \A k \in 1 .. n + m : st[k] = IF k =< n THEN s[k] ELSE t[k - n]
  <2>1. /\ s \o t \in Seq(S) /\ Len(s \o t) = Len(s) + Len(t)
        /\ \A k \in 1 .. Len(s) + Len(t) :
              (s \o t)[k] = IF k =< Len(s) THEN s[k] ELSE t[k - Len(s)]
    BY ConcatProperties
  <2> QED BY <1>1, <2>1, Zenon
<1>4. DOMAIN st = 1 .. n + m
  BY <1>3, LenProperties
<1>5. /\ \A k \in 1 .. n : k \in 1 .. n + m /\ k =< n
      /\ \A k \in 1 .. m : n + k \in 1 .. n + m /\ ~ (n + k =< n) /\ (n + k) - n = k
      /\ \A k \in 1 .. n + m : k \in 1 .. n \/ (k - n \in 1 .. m /\ n + (k - n) = k)
  BY <1>2
<1>6. (\A k \in 1 .. n : st[k] = s[k]) /\ (\A k \in 1 .. m : st[n + k] = t[k])
  <2>1. ASSUME NEW k \in 1 .. n PROVE st[k] = s[k]
    BY <1>3, <1>5
  <2>2. ASSUME NEW k \in 1 .. m PROVE st[n + k] = t[k]
    <3>1. PICK x : x = n + k
      OBVIOUS
    <3>2. x \in 1 .. n + m /\ ~ (x =< n) /\ x - n = k
      BY <1>5, <3>1
    <3> QED BY <1>3, <3>1, <3>2
  <2> QED BY <2>1, <2>2
<1>7. PICK I, J, K : I = Places(s, f, v) /\ J = Places(t, f, v) /\ K = Places(st, f, v)
  OBVIOUS
<1>8. /\ \A k : k \in I <=> k \in 1 .. n /\ s[k][f] = v
      /\ \A k : k \in J <=> k \in 1 .. m /\ t[k][f] = v
      /\ \A k : k \in K <=> k \in 1 .. n + m /\ st[k][f] = v
  BY <1>2, <1>4, <1>7 DEF Places
<1>9. ASSUME NEW k \in K PROVE k \in I \cup Shift(J, n)
  <2>1. CASE k \in 1 .. n
    BY <1>6, <1>8, <2>1
  <2>2. CASE k - n \in 1 .. m /\ n + (k - n) = k
    <3>1. st[k] = t[k - n]
      BY <1>6, <2>2
    <3>2. k - n \in J
      BY <1>8, <2>2, <3>1
    <3> QED BY <2>2, <3>2 DEF Shift
  <2> QED BY <1>5, <1>8, <2>1, <2>2
<1>10. ASSUME NEW k \in I PROVE k \in K
  BY <1>5, <1>6, <1>8
<1>11. ASSUME NEW k \in Shift(J, n) PROVE k \in K
  <2>1. PICK j \in J : k = n + j
    BY DEF Shift
  <2> QED BY <1>5, <1>6, <1>8, <2>1
<1>12. K = I \cup Shift(J, n)
  BY <1>9, <1>10, <1>11
<1> QED BY <1>1, <1>2, <1>7, <1>8, <1>12

LEMMA ListedIs == ASSUME NEW q PROVE Listed(q) = Selected(q, Places(q, "ticker", "listed"))
BY DEF Listed, Places

LEMMA ListedJoin ==
    ASSUME NEW S, NEW s \in Seq(S), NEW t \in Seq(S)
    PROVE  /\ Listed(s) \in Seq(S) /\ Listed(t) \in Seq(S)
           /\ Listed(s \o t) = Listed(s) \o Listed(t)
<1>1. PICK I, J, K : /\ I = Places(s, "ticker", "listed") /\ J = Places(t, "ticker", "listed")
                     /\ K = Places(s \o t, "ticker", "listed")
  OBVIOUS
<1>2. I \in SUBSET DOMAIN s /\ J \in SUBSET DOMAIN t /\ K = I \cup Shift(J, Len(s))
  BY <1>1, PlacesOfJoin
<1>3. Selected(s \o t, K) = Selected(s, I) \o Selected(t, J)
  BY <1>2, SelectedJoin
<1>4. Selected(s, I) \in Seq(S) /\ Selected(t, J) \in Seq(S)
  BY <1>2, SelectedTyped
<1> QED BY <1>1, <1>3, <1>4, ListedIs

LEMMA ListedEmpty == Listed(<< >>) = << >>
<1>1. Places(<< >>, "ticker", "listed") = {}
  BY DEF Places
<1> QED BY <1>1, ListedIs, SelectedNone

LEMMA ListedOne ==
    ASSUME NEW e
    PROVE  /\ e.ticker = "listed" => Listed(<<e>>) = <<e>>
           /\ e.ticker # "listed" => Listed(<<e>>) = << >>
<1>1. Places(<<e>>, "ticker", "listed") = IF e.ticker = "listed" THEN {1} ELSE {}
  BY DEF Places
<1> QED BY <1>1, ListedIs, SelectedNone, SelectedOne

\* A WALRecord.
LogRecord ==
    [type : {"NEW_ORDER", "CANCEL_ORDER"}, order_id : OrderIds, ticker : Tickers,
     user_id : Users, side : Side, price : Prices \cup {0}, quantity : Quantities \cup {0}]

LEMMA RecordTyped ==
    ASSUME NEW ev \in EngineEvent
    PROVE  /\ Record(ev) \in LogRecord
           /\ Record(ev).type = ev.type /\ Record(ev).ticker = ev.ticker
           /\ Record(ev).order_id = ev.order_id
           /\ ev.type = "NEW_ORDER" => Record(ev).quantity = ev.quantity
<1>1. CASE ev \in NewOrderEvent
  BY <1>1 DEF Record, LogRecord, NewOrderEvent
<1>2. CASE ev \in CancelEvent
  BY <1>2 DEF Record, LogRecord, CancelEvent, Side
<1> QED BY <1>1, <1>2 DEF EngineEvent

LEMMA RecordsTyped ==
    ASSUME NEW s \in Seq(EngineEvent)
    PROVE  /\ Records(s) \in Seq(LogRecord) /\ Len(Records(s)) = Len(s)
           /\ DOMAIN Records(s) = DOMAIN s /\ DOMAIN s = 1 .. Len(s) /\ Len(s) \in Nat
           /\ \A k \in DOMAIN s : Records(s)[k] = Record(s[k]) /\ s[k] \in EngineEvent
<1>1. PICK n, x : n = Len(s) /\ x = Records(s)
  OBVIOUS
<1>2. n \in Nat /\ DOMAIN s = 1 .. n /\ \A k \in 1 .. n : s[k] \in EngineEvent
  BY <1>1, LenProperties, ElementOfSeq
<1>3. x = [k \in 1 .. n |-> Record(s[k])]
  BY <1>1, <1>2 DEF Records
<1>4. x \in [1 .. n -> LogRecord]
  BY <1>2, <1>3, RecordTyped
<1>5. x \in Seq(LogRecord) /\ Len(x) = n /\ DOMAIN x = 1 .. n
  BY <1>2, <1>4
<1> QED BY <1>1, <1>2, <1>3, <1>5

LEMMA RecordsJoin ==
    ASSUME NEW s \in Seq(EngineEvent), NEW t \in Seq(EngineEvent)
    PROVE  Records(s \o t) = Records(s) \o Records(t)
<1>1. PICK n, m, st : n = Len(s) /\ m = Len(t) /\ st = s \o t
  OBVIOUS
<1>2. n \in Nat /\ m \in Nat /\ DOMAIN s = 1 .. n /\ DOMAIN t = 1 .. m
  BY <1>1, LenProperties
<1>3. /\ st \in Seq(EngineEvent) /\ Len(st) = n + m
      /\ \A k \in 1 .. n + m : st[k] = IF k =< n THEN s[k] ELSE t[k - n]
  <2>1. /\ s \o t \in Seq(EngineEvent) /\ Len(s \o t) = Len(s) + Len(t)
        /\ \A k \in 1 .. Len(s) + Len(t) :
              (s \o t)[k] = IF k =< Len(s) THEN s[k] ELSE t[k - Len(s)]
    BY ConcatProperties
  <2> QED BY <1>1, <2>1, Zenon
<1>4. PICK u, v, w : u = Records(st) /\ v = Records(s) /\ w = Records(t)
  OBVIOUS
<1>5. /\ u \in Seq(LogRecord) /\ Len(u) = n + m
      /\ \A k \in 1 .. n + m : u[k] = Record(st[k])
  <2>1. /\ Records(st) \in Seq(LogRecord) /\ Len(Records(st)) = Len(st)
        /\ DOMAIN st = 1 .. Len(st) /\ \A k \in DOMAIN st : Records(st)[k] = Record(st[k])
    BY <1>3, RecordsTyped
  <2> QED BY <1>3, <1>4, <2>1
<1>6. /\ v \in Seq(LogRecord) /\ Len(v) = n /\ \A k \in 1 .. n : v[k] = Record(s[k])
      /\ w \in Seq(LogRecord) /\ Len(w) = m /\ \A k \in 1 .. m : w[k] = Record(t[k])
  BY <1>1, <1>2, <1>4, RecordsTyped
<1>7. ASSUME NEW k \in 1 .. n PROVE u[k] = v[k]
  <2>1. k \in 1 .. n + m /\ k =< n
    BY <1>2
  <2> QED BY <1>3, <1>5, <1>6, <2>1
<1>8. ASSUME NEW k \in 1 .. m PROVE u[n + k] = w[k]
  <2>1. PICK x : x = n + k
    OBVIOUS
  <2>2. x \in 1 .. n + m /\ ~ (x =< n) /\ x - n = k
    BY <1>2, <2>1
  <2> QED BY <1>3, <1>5, <1>6, <2>1, <2>2
<1>9. u = v \o w
  BY <1>5, <1>6, <1>7, <1>8, IsConcat
<1> QED BY <1>1, <1>4, <1>9

\* The records of what is selected are what is selected of the records.
LEMMA SelectedRecords ==
    ASSUME NEW q \in Seq(EngineEvent), NEW I \in SUBSET DOMAIN q
    PROVE  Selected(Records(q), I) = Records(Selected(q, I))
<1>1. PICK x, r, n : x = Selected(q, I) /\ r = Records(q) /\ n = Cardinality(I)
  OBVIOUS
<1>2. /\ n \in Nat /\ DOMAIN x = 1 .. n
      /\ \A k \in 1 .. n : x[k] = q[Place(I, k)] /\ Place(I, k) \in I
  BY <1>1, SelectedTyped
<1>3. \A k \in DOMAIN q : r[k] = Record(q[k])
  BY <1>1, RecordsTyped
<1>4. Records(x) = [k \in 1 .. n |-> Record(x[k])]
  BY <1>2 DEF Records
<1>5. Selected(r, I) = [k \in 1 .. n |-> r[Place(I, k)]]
  BY <1>1 DEF Selected
<1>6. \A k \in 1 .. n : r[Place(I, k)] = Record(x[k])
  BY <1>2, <1>3
<1> QED BY <1>1, <1>4, <1>5, <1>6

LEMMA ListedRecords ==
    ASSUME NEW q \in Seq(EngineEvent)
    PROVE  Listed(Records(q)) = Records(Listed(q))
<1>1. /\ DOMAIN Records(q) = DOMAIN q
      /\ \A k \in DOMAIN q : Records(q)[k].ticker = q[k].ticker
  BY RecordsTyped, RecordTyped
<1>2. Places(Records(q), "ticker", "listed") = Places(q, "ticker", "listed")
  BY <1>1 DEF Places
<1>3. Places(q, "ticker", "listed") \in SUBSET DOMAIN q
  BY DEF Places
<1> QED BY <1>2, <1>3, ListedIs, SelectedRecords

\* What OrdersOf keeps of an event or a record.
Brief(e) == [order_id |-> e.order_id, quantity |-> e.quantity]

Briefs(q) == [k \in DOMAIN q |-> Brief(q[k])]

LEMMA BriefsJoin ==
    ASSUME NEW S, NEW s \in Seq(S), NEW t \in Seq(S)
    PROVE  Briefs(s \o t) = Briefs(s) \o Briefs(t)
<1>1. PICK n, m, st : n = Len(s) /\ m = Len(t) /\ st = s \o t
  OBVIOUS
<1>2. /\ n \in Nat /\ m \in Nat /\ DOMAIN s = 1 .. n /\ DOMAIN t = 1 .. m
      /\ (\A k \in 1 .. n : s[k] \in S) /\ (\A k \in 1 .. m : t[k] \in S)
  BY <1>1, LenProperties, ElementOfSeq
<1>3. /\ st \in Seq(S) /\ Len(st) = n + m
      /\ \A k \in 1 .. n + m : st[k] = IF k =< n THEN s[k] ELSE t[k - n]
  <2>1. /\ s \o t \in Seq(S) /\ Len(s \o t) = Len(s) + Len(t)
        /\ \A k \in 1 .. Len(s) + Len(t) :
              (s \o t)[k] = IF k =< Len(s) THEN s[k] ELSE t[k - Len(s)]
    BY ConcatProperties
  <2> QED BY <1>1, <2>1, Zenon
<1>4. DOMAIN st = 1 .. n + m /\ \A k \in 1 .. n + m : st[k] \in S
  BY <1>3, LenProperties, ElementOfSeq
<1> DEFINE B == {Brief(e) : e \in S}
<1>5. ASSUME NEW x, NEW l \in Nat, DOMAIN x = 1 .. l, \A k \in 1 .. l : x[k] \in S
      PROVE  /\ Briefs(x) \in Seq(B) /\ Len(Briefs(x)) = l
             /\ \A k \in 1 .. l : Briefs(x)[k] = Brief(x[k])
  <2>1. PICK y : y = Briefs(x)
    OBVIOUS
  <2>2. y = [k \in 1 .. l |-> Brief(x[k])]
    BY <1>5, <2>1 DEF Briefs
  <2>3. \A k \in 1 .. l : Brief(x[k]) \in B
    BY <1>5
  <2>4. y \in [1 .. l -> B] /\ \A k \in 1 .. l : y[k] = Brief(x[k])
    <3> HIDE DEF B
    <3> QED BY <2>2, <2>3
  <2>5. y \in Seq(B) /\ Len(y) = l
    <3> HIDE DEF B
    <3> QED BY <2>4
  <2> QED BY <2>1, <2>4, <2>5
<1> HIDE DEF B
<1>6. PICK u, v, w : u = Briefs(st) /\ v = Briefs(s) /\ w = Briefs(t)
  OBVIOUS
<1>7. /\ v \in Seq(B) /\ Len(v) = n /\ \A k \in 1 .. n : v[k] = Brief(s[k])
      /\ w \in Seq(B) /\ Len(w) = m /\ \A k \in 1 .. m : w[k] = Brief(t[k])
  BY <1>2, <1>5, <1>6
<1>8. u \in Seq(B) /\ Len(u) = n + m /\ \A k \in 1 .. n + m : u[k] = Brief(st[k])
  <2>1. n + m \in Nat
    BY <1>2
  <2> QED BY <1>4, <1>5, <1>6, <2>1
<1>9. ASSUME NEW k \in 1 .. n PROVE u[k] = v[k]
  <2>1. k \in 1 .. n + m /\ k =< n
    BY <1>2
  <2> QED BY <1>3, <1>7, <1>8, <2>1
<1>10. ASSUME NEW k \in 1 .. m PROVE u[n + k] = w[k]
  <2>1. PICK x : x = n + k
    OBVIOUS
  <2>2. x \in 1 .. n + m /\ ~ (x =< n) /\ x - n = k
    BY <1>2, <2>1
  <2> QED BY <1>3, <1>7, <1>8, <2>1, <2>2
<1>11. u = v \o w
  BY <1>7, <1>8, <1>9, <1>10, IsConcat
<1> QED BY <1>1, <1>6, <1>11

LEMMA OrdersOfIs ==
    ASSUME NEW q
    PROVE  OrdersOf(q) = Briefs(Selected(q, Places(q, "type", "NEW_ORDER")))
BY DEF OrdersOf, Briefs, Brief, Places

LEMMA OrdersJoin ==
    ASSUME NEW S, NEW s \in Seq(S), NEW t \in Seq(S)
    PROVE  OrdersOf(s \o t) = OrdersOf(s) \o OrdersOf(t)
<1>1. PICK I, J, K : /\ I = Places(s, "type", "NEW_ORDER") /\ J = Places(t, "type", "NEW_ORDER")
                     /\ K = Places(s \o t, "type", "NEW_ORDER")
  OBVIOUS
<1>2. I \in SUBSET DOMAIN s /\ J \in SUBSET DOMAIN t /\ K = I \cup Shift(J, Len(s))
  BY <1>1, PlacesOfJoin
<1>3. Selected(s \o t, K) = Selected(s, I) \o Selected(t, J)
  BY <1>2, SelectedJoin
<1>4. Selected(s, I) \in Seq(S) /\ Selected(t, J) \in Seq(S)
  BY <1>2, SelectedTyped
<1>5. Briefs(Selected(s \o t, K)) = Briefs(Selected(s, I)) \o Briefs(Selected(t, J))
  BY <1>3, <1>4, BriefsJoin
<1> QED BY <1>1, <1>5, OrdersOfIs

LEMMA OrdersEmpty == OrdersOf(<< >>) = << >>
<1>1. Places(<< >>, "type", "NEW_ORDER") = {}
  BY DEF Places
<1>2. Briefs(<< >>) = << >>
  BY DEF Briefs
<1> QED BY <1>1, <1>2, OrdersOfIs, SelectedNone

LEMMA OrdersOne ==
    ASSUME NEW e
    PROVE  /\ e.type = "NEW_ORDER" => OrdersOf(<<e>>) = <<Brief(e)>>
           /\ e.type # "NEW_ORDER" => OrdersOf(<<e>>) = << >>
<1>1. Places(<<e>>, "type", "NEW_ORDER") = IF e.type = "NEW_ORDER" THEN {1} ELSE {}
  BY DEF Places
<1>2. Briefs(<< >>) = << >> /\ Briefs(<<e>>) = <<Brief(e)>>
  BY DEF Briefs
<1> QED BY <1>1, <1>2, OrdersOfIs, SelectedNone, SelectedOne

LEMMA OrdersOfRecords ==
    ASSUME NEW q \in Seq(EngineEvent)
    PROVE  OrdersOf(Records(q)) = OrdersOf(q)
<1>1. /\ DOMAIN Records(q) = DOMAIN q
      /\ \A k \in DOMAIN q : Records(q)[k].type = q[k].type
  BY RecordsTyped, RecordTyped
<1>2. PICK I : I = Places(q, "type", "NEW_ORDER")
  OBVIOUS
<1>3. Places(Records(q), "type", "NEW_ORDER") = I
  BY <1>1, <1>2 DEF Places
<1>4. I \in SUBSET DOMAIN q /\ \A i \in I : q[i].type = "NEW_ORDER"
  BY <1>2 DEF Places
<1>5. PICK x, n : x = Selected(q, I) /\ n = Cardinality(I)
  OBVIOUS
<1>6. /\ n \in Nat /\ DOMAIN x = 1 .. n /\ x \in Seq(EngineEvent)
      /\ \A k \in 1 .. n : x[k] = q[Place(I, k)] /\ Place(I, k) \in I
  BY <1>4, <1>5, SelectedTyped
<1>7. \A k \in 1 .. n : x[k] \in EngineEvent /\ x[k].type = "NEW_ORDER"
  BY <1>4, <1>6, RecordsTyped
<1>8. \A k \in 1 .. n : Brief(Record(x[k])) = Brief(x[k])
  BY <1>7, RecordTyped DEF Brief
<1>9. Records(x) = [k \in 1 .. n |-> Record(x[k])]
  BY <1>6 DEF Records
<1>10. Briefs(Records(x)) = [k \in 1 .. n |-> Brief(Record(x[k]))]
  BY <1>9 DEF Briefs
<1>11. Briefs(x) = [k \in 1 .. n |-> Brief(x[k])]
  BY <1>6 DEF Briefs
<1>12. Briefs(Records(x)) = Briefs(x)
  BY <1>8, <1>10, <1>11
<1> QED BY <1>2, <1>3, <1>4, <1>5, <1>12, OrdersOfIs, SelectedRecords

\* The events on their way: with the book b, in its queue q, and in the WAL thread's batch w.
Way(b, q, w) == (b \o q) \o Listed(w)

LEMMA WayTyped ==
    ASSUME NEW b \in Seq(EngineEvent), NEW q \in Seq(EngineEvent), NEW w \in Seq(EngineEvent)
    PROVE  Way(b, q, w) \in Seq(EngineEvent)
<1>1. b \o q \in Seq(EngineEvent)
  BY ConcatProperties
<1>2. Listed(w) \in Seq(EngineEvent)
  BY ListedJoin
<1> QED BY <1>1, <1>2, ConcatProperties DEF Way

LEMMA HeadFirst ==
    ASSUME NEW S, NEW s \in Seq(S), s # << >>
    PROVE  /\ Head(s) \in S /\ Tail(s) \in Seq(S) /\ <<Head(s)>> \in Seq(S)
           /\ s = <<Head(s)>> \o Tail(s)
<1>1. /\ Head(s) \in S /\ Tail(s) \in Seq(S) /\ Len(Tail(s)) = Len(s) - 1
      /\ \A i \in 1 .. Len(Tail(s)) : Tail(s)[i] = s[i + 1]
  BY HeadTailProperties
<1>2. PICK e, t, x : e = Head(s) /\ t = Tail(s) /\ x = <<e>>
  OBVIOUS
<1>3. e = s[1] /\ Len(s) \in Nat
  BY <1>2, LenProperties
<1>4. x \in Seq(S) /\ Len(x) = 1 /\ x[1] = e
  BY <1>1, <1>2
<1>5. t \in Seq(S) /\ Len(s) = 1 + Len(t) /\ \A k \in 1 .. Len(t) : s[1 + k] = t[k]
  <2>1. \A k \in 1 .. Len(t) : k + 1 = 1 + k
    OBVIOUS
  <2> QED BY <1>1, <1>2, <1>3, <2>1
<1>6. \A k \in 1 .. Len(x) : s[k] = x[k]
  BY <1>3, <1>4
<1>7. s = x \o t
  <2>1. x \in Seq(S) /\ t \in Seq(S) /\ Len(s) = Len(x) + Len(t)
    BY <1>4, <1>5
  <2>2. \A k \in 1 .. Len(t) : s[Len(x) + k] = t[k]
    BY <1>4, <1>5
  <2> QED BY <1>6, <2>1, <2>2, IsConcat
<1> QED BY <1>1, <1>2, <1>4, <1>7

LEMMA EventsAssociate ==
    \A s, t, u \in Seq(EngineEvent) : (s \o t) \o u = s \o (t \o u)
BY ConcatAssociative

\* The next event of the batch w is for the listed ticker, and joins its queue ...
LEMMA WayListed ==
    ASSUME NEW b \in Seq(EngineEvent), NEW q \in Seq(EngineEvent), NEW w \in Seq(EngineEvent),
           w # << >>, Head(w).ticker = "listed"
    PROVE  Way(b, Append(q, Head(w)), Tail(w)) = Way(b, q, w)
<1>1. PICK e, t : e = Head(w) /\ t = Tail(w)
  OBVIOUS
<1>2. e \in EngineEvent /\ t \in Seq(EngineEvent) /\ <<e>> \in Seq(EngineEvent) /\ w = <<e>> \o t
  BY <1>1, HeadFirst
<1>3. PICK l, x : l = Listed(t) /\ x = <<e>>
  OBVIOUS
<1>4. l \in Seq(EngineEvent) /\ Listed(w) = x \o l /\ x \in Seq(EngineEvent)
  <2>1. Listed(<<e>>) = <<e>>
    BY <1>1, ListedOne
  <2>2. Listed(t) \in Seq(EngineEvent) /\ Listed(<<e>> \o t) = Listed(<<e>>) \o Listed(t)
    BY <1>2, ListedJoin
  <2> QED BY <1>2, <1>3, <2>1, <2>2
<1>5. Append(q, e) = q \o x
  BY <1>2, <1>3, AppendIsConcat
<1>6. (b \o (q \o x)) \o l = (b \o q) \o (x \o l)
  <2>1. PICK bq : bq = b \o q
    OBVIOUS
  <2>2. bq \in Seq(EngineEvent)
    BY <2>1, ConcatProperties
  <2>3. b \o (q \o x) = bq \o x
    <3>1. (b \o q) \o x = b \o (q \o x)
      <4>1. x \in Seq(EngineEvent)
        BY <1>4
      <4> QED BY <4>1, EventsAssociate
    <3> QED BY <2>1, <3>1
  <2>4. (bq \o x) \o l = bq \o (x \o l)
    BY <1>4, <2>2, ConcatAssociative
  <2> QED BY <2>1, <2>3, <2>4
<1> QED BY <1>1, <1>3, <1>4, <1>5, <1>6 DEF Way

\* ... or is for another one.
LEMMA WayUnlisted ==
    ASSUME NEW b \in Seq(EngineEvent), NEW q \in Seq(EngineEvent), NEW w \in Seq(EngineEvent),
           w # << >>, Head(w).ticker # "listed"
    PROVE  Way(b, q, Tail(w)) = Way(b, q, w)
<1>1. PICK e, t : e = Head(w) /\ t = Tail(w)
  OBVIOUS
<1>2. e \in EngineEvent /\ t \in Seq(EngineEvent) /\ <<e>> \in Seq(EngineEvent) /\ w = <<e>> \o t
  BY <1>1, HeadFirst
<1>3. Listed(<<e>>) = << >>
  BY <1>1, ListedOne
<1>4. Listed(t) \in Seq(EngineEvent) /\ Listed(<<e>> \o t) = Listed(<<e>>) \o Listed(t)
  BY <1>2, ListedJoin
<1>5. << >> \o Listed(t) = Listed(t)
  BY <1>4, ConcatEmptySeq
<1> QED BY <1>1, <1>2, <1>3, <1>4, <1>5 DEF Way

LEMMA WayTaken ==
    ASSUME NEW q \in Seq(EngineEvent), NEW w \in Seq(EngineEvent)
    PROVE  Way(q, << >>, w) = Way(<< >>, q, w)
BY ConcatEmptySeq DEF Way

LEMMA WayHandled ==
    ASSUME NEW b \in Seq(EngineEvent), NEW q \in Seq(EngineEvent), NEW w \in Seq(EngineEvent),
           b # << >>
    PROVE  Way(b, q, w) = <<Head(b)>> \o Way(Tail(b), q, w)
<1>1. PICK x, t : x = <<Head(b)>> /\ t = Tail(b)
  OBVIOUS
<1>2. x \in Seq(EngineEvent) /\ t \in Seq(EngineEvent) /\ b = x \o t
  BY <1>1, HeadFirst
<1>3. PICK l : l = Listed(w)
  OBVIOUS
<1>4. l \in Seq(EngineEvent)
  BY <1>3, ListedJoin
<1>5. (x \o t) \o q = x \o (t \o q)
  BY <1>2, ConcatAssociative
<1>6. PICK tq : tq = t \o q
  OBVIOUS
<1>7. tq \in Seq(EngineEvent)
  BY <1>2, <1>6, ConcatProperties
<1>8. (x \o tq) \o l = x \o (tq \o l)
  <2>1. x \in Seq(EngineEvent)
    BY <1>2
  <2> QED BY <1>4, <1>7, <2>1, EventsAssociate
<1> QED BY <1>1, <1>2, <1>3, <1>5, <1>6, <1>8 DEF Way

\* done is the part of the log the book has handled; the rest is on its way.
LogParts(lg, done, arr, way) ==
    /\ done \in Seq(LogRecord)
    /\ Listed(lg) = done \o Records(way)
    /\ OrdersOf(done) = arr

LogOK(lg, arr, way) == lg \in Seq(LogRecord) /\ \E done : LogParts(lg, done, arr, way)

\* A batch is written.
LEMMA LogWritten ==
    ASSUME NEW lg, NEW arr, NEW b \in Seq(EngineEvent), NEW q \in Seq(EngineEvent),
           NEW w \in Seq(EngineEvent), LogOK(lg, arr, Way(b, q, << >>))
    PROVE  LogOK(lg \o Records(w), arr, Way(b, q, w))
<1>1. PICK done : LogParts(lg, done, arr, Way(b, q, << >>))
  BY DEF LogOK
<1>2. lg \in Seq(LogRecord) /\ Records(w) \in Seq(LogRecord)
  BY RecordsTyped DEF LogOK
<1>3. PICK bq : bq = b \o q
  OBVIOUS
<1>4. bq \in Seq(EngineEvent)
  BY <1>3, ConcatProperties
<1>5. Way(b, q, << >>) = bq /\ Way(b, q, w) = bq \o Listed(w)
  BY <1>3, <1>4, ListedEmpty, ConcatEmptySeq DEF Way
<1>6. Listed(w) \in Seq(EngineEvent)
  BY ListedJoin
<1>7. PICK r, l : r = Records(bq) /\ l = Records(Listed(w))
  OBVIOUS
<1>8. r \in Seq(LogRecord) /\ l \in Seq(LogRecord) /\ Records(bq \o Listed(w)) = r \o l
  BY <1>4, <1>6, <1>7, RecordsTyped, RecordsJoin
<1>9. done \in Seq(LogRecord) /\ Listed(lg) = done \o r /\ OrdersOf(done) = arr
  BY <1>1, <1>5, <1>7 DEF LogParts
<1>10. Listed(lg \o Records(w)) = Listed(lg) \o Listed(Records(w))
  BY <1>2, ListedJoin
<1>11. Listed(Records(w)) = l
  BY <1>7, ListedRecords
<1>12. (done \o r) \o l = done \o (r \o l)
  BY <1>8, <1>9, ConcatAssociative
<1>13. Listed(lg \o Records(w)) = done \o Records(Way(b, q, w))
  BY <1>5, <1>8, <1>9, <1>10, <1>11, <1>12
<1>14. lg \o Records(w) \in Seq(LogRecord)
  BY <1>2, ConcatProperties
<1> QED BY <1>9, <1>13, <1>14 DEF LogOK, LogParts

\* The book handles the next event of its batch: arr and then new are the arrivals.
LEMMA LogHandled ==
    ASSUME NEW lg, NEW arr, NEW ev \in EngineEvent, NEW way \in Seq(EngineEvent),
           LogOK(lg, arr, <<ev>> \o way)
    PROVE  LogOK(lg, arr \o OrdersOf(<<Record(ev)>>), way)
<1>1. PICK done : LogParts(lg, done, arr, <<ev>> \o way)
  BY DEF LogOK
<1>2. PICK x, y, r : x = <<ev>> /\ y = <<Record(ev)>> /\ r = Records(way)
  OBVIOUS
<1>3. x \in Seq(EngineEvent) /\ y \in Seq(LogRecord) /\ r \in Seq(LogRecord)
  BY <1>2, RecordTyped, RecordsTyped
<1>4. Records(x) = y
  BY <1>2 DEF Records
<1>5. Records(x \o way) = y \o r
  BY <1>2, <1>3, <1>4, RecordsJoin
<1>6. done \in Seq(LogRecord) /\ Listed(lg) = done \o (y \o r) /\ OrdersOf(done) = arr
  BY <1>1, <1>2, <1>5 DEF LogParts
<1>7. PICK more : more = done \o y
  OBVIOUS
<1>8. more \in Seq(LogRecord) /\ OrdersOf(more) = OrdersOf(done) \o OrdersOf(y)
  BY <1>3, <1>6, <1>7, ConcatProperties, OrdersJoin
<1>9. Listed(lg) = more \o r
  BY <1>3, <1>6, <1>7, ConcatAssociative
<1>10. LogParts(lg, more, arr \o OrdersOf(y), way)
  BY <1>2, <1>6, <1>8, <1>9 DEF LogParts
<1> QED BY <1>2, <1>10 DEF LogOK

\* A life begins with nothing written and nothing on its way.
LEMMA LogFresh == LogOK(<< >>, << >>, Way(<< >>, << >>, << >>))
<1>1. << >> \in Seq(LogRecord) /\ << >> \in Seq(EngineEvent)
  BY EmptySeq
<1>2. Way(<< >>, << >>, << >>) = << >>
  BY <1>1, ListedEmpty, ConcatEmptySeq DEF Way
<1>3. Records(<< >>) = << >>
  BY DEF Records
<1>4. << >> \o << >> = << >>
  BY <1>1, ConcatEmptySeq
<1>5. LogParts(<< >>, << >>, << >>, << >>)
  BY <1>1, <1>3, <1>4, ListedEmpty, OrdersEmpty DEF LogParts
<1> QED BY <1>1, <1>2, <1>5 DEF LogOK

\* The inductive invariant: what is listed in the log has been handled or is on its way.
LogInv == LogOK(log, arrivals, Way(bookBatch, bookQueue, walBatch))

\* A sequence ends with its last part.
LEMMA EndsWith ==
    ASSUME NEW S, NEW v \in Seq(S), NEW w \in Seq(S)
    PROVE  IsSuffix(w, v \o w)
<1>1. PICK n, m, vw : n = Len(v) /\ m = Len(w) /\ vw = v \o w
  OBVIOUS
<1>2. n \in Nat /\ m \in Nat
  BY <1>1, LenProperties
<1>3. /\ Len(vw) = n + m
      /\ \A k \in 1 .. n + m : vw[k] = IF k =< n THEN v[k] ELSE w[k - n]
  <2>1. /\ Len(v \o w) = Len(v) + Len(w)
        /\ \A k \in 1 .. Len(v) + Len(w) :
              (v \o w)[k] = IF k =< Len(v) THEN v[k] ELSE w[k - Len(v)]
    BY ConcatProperties
  <2> QED BY <1>1, <2>1, Zenon
<1>4. PICK x, y : x = Reverse(w) /\ y = Reverse(vw)
  OBVIOUS
<1>5. x = [k \in 1 .. m |-> w[(m - k) + 1]] /\ y = [k \in 1 .. n + m |-> vw[((n + m) - k) + 1]]
  BY <1>1, <1>3, <1>4 DEF Reverse
<1>6. ASSUME NEW k \in 1 .. m PROVE x[k] = y[k]
  <2>1. PICK j : j = ((n + m) - k) + 1
    OBVIOUS
  <2>2. /\ j \in 1 .. n + m /\ ~ (j =< n) /\ j - n = (m - k) + 1
        /\ k \in 1 .. n + m
    BY <1>2, <2>1
  <2>3. y[k] = vw[j]
    BY <1>5, <2>1, <2>2
  <2>4. vw[j] = w[(m - k) + 1]
    BY <1>3, <2>2
  <2> QED BY <1>5, <2>3, <2>4
<1>7. Len(x) = m /\ Len(y) = n + m
  BY <1>2, <1>5
<1>8. SubSeq(x, 1, m) = SubSeq(y, 1, m)
  <2>1. PICK T : T = {x[k] : k \in 1 .. m} \cup {y[k] : k \in 1 .. n + m}
    OBVIOUS
  <2>2. (\A k \in 1 .. m : x[k] \in T) /\ (\A k \in 1 .. m : y[k] \in T)
    BY <1>2, <2>1
  <2>3. PICK p, q : p = SubSeq(x, 1, m) /\ q = SubSeq(y, 1, m)
    OBVIOUS
  <2>4. 1 \in Int /\ m \in Int /\ (IF 1 <= m THEN m - 1 + 1 ELSE 0) = m /\ m - 1 + 1 = m
    BY <1>2
  <2>5. /\ p \in Seq(T) /\ Len(p) = m /\ \A k \in 1 .. m : p[k] = x[k]
        /\ q \in Seq(T) /\ Len(q) = m /\ \A k \in 1 .. m : q[k] = y[k]
    <3>1. /\ p \in Seq(T) /\ Len(p) = m /\ \A k \in 1 .. m : p[k] = x[1 + k - 1]
      BY <2>2, <2>3, <2>4, SubSeqProperties
    <3>2. /\ q \in Seq(T) /\ Len(q) = m /\ \A k \in 1 .. m : q[k] = y[1 + k - 1]
      BY <2>2, <2>3, <2>4, SubSeqProperties
    <3> QED BY <1>2, <3>1, <3>2
  <2> QED BY <1>6, <2>3, <2>5, SeqEqual
<1>9. IsPrefix(x, y)
  BY <1>2, <1>7, <1>8 DEF IsPrefix
<1> QED BY <1>1, <1>4, <1>9 DEF IsSuffix

\* LogInv is enough for LogComplete.
LEMMA LogInvImplies ==
    ASSUME PipelineTyped, ~ gap => LogInv
    PROVE  LogComplete
<1> SUFFICES ASSUME LogInv PROVE LogComplete
  BY DEF LogComplete
<1>1. PICK way : way = Way(bookBatch, bookQueue, walBatch)
  OBVIOUS
<1>2. way \in Seq(EngineEvent)
  BY <1>1, WayTyped DEF PipelineTyped
<1>3. PICK done : LogParts(log, done, arrivals, way)
  BY <1>1 DEF LogInv, LogOK
<1>4. PICK r : r = Records(way)
  OBVIOUS
<1>5. r \in Seq(LogRecord) /\ OrdersOf(r) = OrdersOf(way)
  BY <1>2, <1>4, RecordsTyped, OrdersOfRecords
<1>6. done \in Seq(LogRecord) /\ Listed(log) = done \o r /\ OrdersOf(done) = arrivals
  BY <1>3, <1>4 DEF LogParts
<1>7. IsSuffix(r, Listed(log))
  BY <1>5, <1>6, EndsWith
<1>8. OrdersOf(Listed(log)) = arrivals \o OrdersOf(way)
  BY <1>5, <1>6, OrdersJoin
<1>9. way = bookBatch \o bookQueue \o Listed(walBatch)
  BY <1>1 DEF Way
<1> QED BY <1>4, <1>7, <1>8, <1>9 DEF LogComplete

LEMMA WholeSeq ==
    ASSUME NEW S, NEW q \in Seq(S)
    PROVE  SubSeq(q, 1, Len(q)) = q
<1>1. PICK n, p : n = Len(q) /\ p = SubSeq(q, 1, n)
  OBVIOUS
<1>2. n \in Nat /\ \A k \in 1 .. n : q[k] \in S
  BY <1>1, LenProperties
<1>3. 1 \in Int /\ n \in Int /\ (IF 1 <= n THEN n - 1 + 1 ELSE 0) = n /\ n - 1 + 1 = n
  BY <1>2
<1>4. p \in Seq(S) /\ Len(p) = n /\ \A k \in 1 .. n : p[k] = q[1 + k - 1]
  BY <1>1, <1>2, <1>3, SubSeqProperties
<1>5. \A k \in 1 .. n : p[k] = q[k]
  BY <1>2, <1>4
<1> QED BY <1>1, <1>4, <1>5, SeqEqual

\* writeBatch adds to the log what it adds to the way, when fwrite takes all of it.
LEMMA WriteBatchLog ==
    ASSUME PipelineTyped, PipelineTyped', LogInv, WriteBatch, ~ gap'
    PROVE  LogInv'
<1>1. /\ walBatch = << >> /\ bookBatch' = bookBatch /\ bookQueue' = bookQueue
      /\ arrivals' = arrivals
  BY DEF WriteBatch, WalWrite, vars
<1>2. PICK w, r : w = walBatch' /\ r = Records(w)
  OBVIOUS
<1>3. w \in Seq(EngineEvent) /\ bookBatch \in Seq(EngineEvent) /\ bookQueue \in Seq(EngineEvent)
  BY <1>2 DEF PipelineTyped
<1>4. log' = log \o r
  <2>1. PICK taken \in 0 .. Len(w) : log' = log \o SubSeq(r, 1, taken) /\ ~ (taken < Len(w))
    BY <1>2 DEF WriteBatch
  <2>2. Len(w) \in Nat /\ r \in Seq(LogRecord) /\ Len(r) = Len(w)
    BY <1>2, <1>3, RecordsTyped
  <2>3. taken = Len(r)
    BY <2>1, <2>2
  <2>4. SubSeq(r, 1, Len(r)) = r
    BY <2>2, WholeSeq
  <2> QED BY <2>1, <2>3, <2>4
<1>5. LogOK(log, arrivals, Way(bookBatch, bookQueue, << >>))
  BY <1>1 DEF LogInv
<1>6. LogOK(log \o Records(w), arrivals, Way(bookBatch, bookQueue, w))
  BY <1>3, <1>5, LogWritten
<1> QED BY <1>1, <1>2, <1>4, <1>6 DEF LogInv

\* Dispatching moves an event along, or drops one that is not listed.
LEMMA WalDispatchLog ==
    ASSUME PipelineTyped, LogInv, WalDispatch, log' = log
    PROVE  LogInv'
<1>1. /\ walBatch # << >> /\ walBatch' = Tail(walBatch) /\ bookBatch' = bookBatch
      /\ arrivals' = arrivals
      /\ \/ Head(walBatch).ticker = "listed" /\ bookQueue' = Append(bookQueue, Head(walBatch))
         \/ Head(walBatch).ticker = "unknown" /\ bookQueue' = bookQueue
  BY DEF WalDispatch, vars
<1>2. /\ walBatch \in Seq(EngineEvent) /\ bookBatch \in Seq(EngineEvent)
      /\ bookQueue \in Seq(EngineEvent)
  BY DEF PipelineTyped
<1>3. Way(bookBatch', bookQueue', walBatch') = Way(bookBatch, bookQueue, walBatch)
  <2>1. CASE Head(walBatch).ticker = "listed" /\ bookQueue' = Append(bookQueue, Head(walBatch))
    BY <1>1, <1>2, <2>1, WayListed
  <2>2. CASE Head(walBatch).ticker = "unknown" /\ bookQueue' = bookQueue
    <3>1. Head(walBatch).ticker # "listed"
      BY <2>2
    <3> QED BY <1>1, <1>2, <2>2, <3>1, WayUnlisted
  <2> QED BY <1>1, <2>1, <2>2
<1> QED BY <1>1, <1>3 DEF LogInv

\* The ticker's thread takes its queue as its batch: nothing moves past anything.
LEMMA BookTakeLog ==
    ASSUME PipelineTyped, LogInv, BookTake, log' = log
    PROVE  LogInv'
<1>1. /\ bookBatch = << >> /\ bookBatch' = bookQueue /\ bookQueue' = << >>
      /\ walBatch' = walBatch /\ arrivals' = arrivals
  BY DEF BookTake, vars
<1>2. Way(bookBatch', bookQueue', walBatch') = Way(bookBatch, bookQueue, walBatch)
  BY <1>1, WayTaken DEF PipelineTyped
<1> QED BY <1>1, <1>2 DEF LogInv

\* The book handles the first event on its way, which becomes the last one handled.
LEMMA BookHandlesLog ==
    ASSUME PipelineTyped, LogInv, arrivals \in Seq(Arrival), BookHandles, log' = log
    PROVE  LogInv'
<1>1. PICK ev : ev = Head(bookBatch)
  OBVIOUS
<1>2. /\ bookBatch # << >> /\ bookBatch' = Tail(bookBatch) /\ bookQueue' = bookQueue
      /\ walBatch' = walBatch
      /\ \/ /\ ev.type = "NEW_ORDER"
            /\ arrivals' = Append(arrivals, [order_id |-> ev.order_id, quantity |-> ev.quantity])
         \/ ev.type = "CANCEL_ORDER" /\ arrivals' = arrivals
  BY <1>1 DEF BookHandles, NewOrder, CancelOrder
<1>3. /\ walBatch \in Seq(EngineEvent) /\ bookBatch \in Seq(EngineEvent)
      /\ bookQueue \in Seq(EngineEvent)
  BY DEF PipelineTyped
<1>4. ev \in EngineEvent /\ Tail(bookBatch) \in Seq(EngineEvent)
  BY <1>1, <1>2, <1>3, HeadFirst
<1>5. PICK way : way = Way(Tail(bookBatch), bookQueue, walBatch)
  OBVIOUS
<1>6. way \in Seq(EngineEvent) /\ Way(bookBatch, bookQueue, walBatch) = <<ev>> \o way
  BY <1>1, <1>2, <1>3, <1>4, <1>5, WayTyped, WayHandled
<1>7. LogOK(log, arrivals, <<ev>> \o way)
  BY <1>6 DEF LogInv
<1>8. LogOK(log, arrivals \o OrdersOf(<<Record(ev)>>), way)
  BY <1>4, <1>6, <1>7, LogHandled
<1>9. arrivals \o OrdersOf(<<Record(ev)>>) = arrivals'
  <2>1. PICK r : r = Record(ev)
    OBVIOUS
  <2>2. /\ r.type = ev.type /\ r.order_id = ev.order_id
        /\ ev.type = "NEW_ORDER" => r.quantity = ev.quantity
    BY <1>4, <2>1, RecordTyped
  <2>3. CASE /\ ev.type = "NEW_ORDER"
             /\ arrivals' = Append(arrivals, [order_id |-> ev.order_id, quantity |-> ev.quantity])
    <3>1. PICK a : a = [order_id |-> ev.order_id, quantity |-> ev.quantity]
      OBVIOUS
    <3>2. Brief(r) = a
      BY <2>2, <2>3, <3>1 DEF Brief
    <3>3. a \in Arrival
      <4>1. ev \in NewOrderEvent
        BY <1>4, <2>3 DEF EngineEvent, CancelEvent
      <4> QED BY <3>1, <4>1 DEF NewOrderEvent, Arrival
    <3>4. OrdersOf(<<r>>) = <<a>>
      BY <2>2, <2>3, <3>2, OrdersOne
    <3>5. Append(arrivals, a) = arrivals \o <<a>>
      BY <3>3, AppendIsConcat
    <3> QED BY <2>1, <2>3, <3>1, <3>4, <3>5
  <2>4. CASE ev.type = "CANCEL_ORDER" /\ arrivals' = arrivals
    <3>1. OrdersOf(<<r>>) = << >>
      BY <2>2, <2>4, OrdersOne
    <3>2. arrivals \o << >> = arrivals
      BY ConcatEmptySeq
    <3> QED BY <2>1, <2>4, <3>1, <3>2
  <2> QED BY <1>2, <2>3, <2>4
<1> QED BY <1>2, <1>5, <1>8, <1>9 DEF LogInv

\* No step of the exchange, failing statement or crash disturbs LogInv, and a record
\* that was not taken is forgotten only with the life it belongs to.
LEMMA StepLogInv ==
    ASSUME PipelineTyped, PipelineTyped', arrivals \in Seq(Arrival), gap \in BOOLEAN,
           ~ gap => LogInv, [RNext]_recVars, ~ gap'
    PROVE  LogInv'
<1>1. CASE Crash
  <2>1. /\ log' = << >> /\ arrivals' = << >> /\ bookBatch' = << >> /\ bookQueue' = << >>
        /\ walBatch' = << >>
    BY <1>1 DEF Crash
  <2> QED BY <2>1, LogFresh DEF LogInv
<1>2. Crash \/ LogInv
  BY DEF RNext, WriteBatch, RunStatement, OtherStep, recVars
<1> SUFFICES ASSUME LogInv PROVE LogInv'
  BY <1>1, <1>2
<1>3. ASSUME UNCHANGED <<log, arrivals, bookBatch, bookQueue, walBatch>> PROVE LogInv'
  BY <1>3 DEF LogInv
<1>4. CASE WriteBatch
  BY <1>4, WriteBatchLog
<1>5. CASE RunStatement
  BY <1>3, <1>5 DEF RunStatement, SettleInDb, vars
<1>6. CASE OtherStep
  <2>1. log' = log
    BY <1>6 DEF OtherStep
  <2>2. CASE Handlers
    <3>1. CASE \E i \in OrderIds, u \in Users, tk \in Tickers, s \in Side, p \in Prices,
               q \in Quantities : Trade(i, u, tk, s, p, q)
      BY <1>3, <2>1, <3>1 DEF Trade, vars
    <3>2. CASE \E i \in OrderIds, u \in Users, tk \in Tickers : Cancel(i, u, tk)
      BY <1>3, <2>1, <3>2 DEF Cancel, vars
    <3>3. CASE \E u \in Users, a \in DepositAmounts : DepositToDb(u, a)
      BY <1>3, <2>1, <3>3 DEF DepositToDb, vars
    <3>4. CASE \E u \in Users : DepositToMemory(u)
      BY <1>3, <2>1, <3>4 DEF DepositToMemory, vars
    <3> QED BY <2>2, <3>1, <3>2, <3>3, <3>4 DEF Handlers
  <2>3. CASE WalDispatch
    BY <2>1, <2>3, WalDispatchLog
  <2>4. CASE BookTake
    BY <2>1, <2>4, BookTakeLog
  <2>5. CASE BookHandles
    BY <2>1, <2>5, BookHandlesLog
  <2>6. CASE BookMatches
    BY <1>3, <2>1, <2>6 DEF BookMatches, MatchingLoop, Fill, Rest, Exhausted, exVars
  <2>7. CASE BookPushes
    BY <1>3, <2>1, <2>7 DEF BookPushes, vars
  <2>8. CASE TakeMatches \/ SettleBuyer \/ SettleSeller \/ TakeCancels \/ SettleCancel
    BY <1>3, <2>1, <2>8 DEF TakeMatches, SettleBuyer, SettleSeller, TakeCancels, SettleCancel, vars
  <2> QED BY <1>6, <2>2, <2>3, <2>4, <2>5, <2>6, <2>7, <2>8 DEF OtherStep, BookThread
<1>7. CASE UNCHANGED recVars
  BY <1>3, <1>7 DEF recVars, allVars, vars, exVars
<1> QED BY <1>1, <1>4, <1>5, <1>6, <1>7 DEF RNext

\* As long as fwrite takes every record of this life, the log is complete and in order: every
\* event still on its way to the book is at its end, in the order in which the book will see
\* it, and its orders are those that arrived at the book and those on their way.  writeBatch
\* runs before dispatch, and from there on the queues of the one ticker keep their order.
THEOREM LogAlwaysComplete == RSpec => []LogComplete
<1> DEFINE LogKept == gap \in BOOLEAN /\ (~ gap => LogInv)
<1>1. RInit => LifeInv /\ LogKept
  <2>1. RInit => LogKept
    BY LogFresh DEF RInit, ExInit, Init, LogInv
  <2> QED BY <2>1, InitLifeInv
<1>2. LifeInv => PipelineTyped /\ arrivals \in Seq(Arrival)
  BY DEF LifeInv, ExTypes, BookInv, TypeOK
<1>3. LifeInv' => PipelineTyped'
  BY DEF LifeInv, ExTypes
<1>4. LogKept /\ [RNext]_recVars => gap' \in BOOLEAN
  BY DEF RNext, WriteBatch, RunStatement, OtherStep, Crash, recVars
<1>5. LifeInv /\ LogKept /\ [RNext]_recVars => LifeInv' /\ LogKept'
  BY <1>2, <1>3, <1>4, StepLifeInv, StepLogInv
<1>6. LifeInv /\ LogKept => LogComplete
  BY <1>2, LogInvImplies
<1> HIDE DEF LogKept
<1> QED BY <1>1, <1>5, <1>6, PTL DEF RSpec

=============================================================================
