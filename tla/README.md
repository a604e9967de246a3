# Verification of the exchange server

TLA+ models, TLC runs and TLAPS proofs for the C++ exchange server in this repository
(`src/server`, `include`). Paths below are relative to the repository's root; line numbers of
every modelled definition are in `PROJECT.json` under `map`.

## 1. The system

A request travels through these parts:

```
client -> TcpServer (epoll, one-shot events) -> ThreadPool -> MyEchoBusiness (framing) -> Router -> Handler
Handler -> UserManager (freeze) -> WALManager queue -> [WAL thread] -> wal.bin, MatchingEngine
MatchingEngine -> OrderBookProcessor queue -> [one thread per ticker] -> OrderBook
OrderBookProcessor -> SettlementProcessor queues -> [settlement thread] -> MySQL tables, UserManager
                   -> MarketDataPublisher queue  -> [publisher thread]  -> Redis
```

| Part | State | Operations | Interaction | What makes it correct |
| --- | --- | --- | --- | --- |
| `OrderBook` | `bids_`, `asks_` (price -> list), `user_active_orders_` | `processOrder`, `cancelOrder`, two queries | called by one ticker thread; queries come from pool threads without a lock | never crossed, price-time priority, index = resting orders, nothing lost or invented |
| `OrderIdGenerator` | atomic sequence | `generate` | called by all pool threads | ids not repeated |
| `MatchingEngine`, `OrderBookProcessor` | one queue per ticker, the batch in hand | enqueue, loop | WAL thread in, settlement and publisher out | every event reaches its book once, in order |
| `UserManager` | per user available/frozen money and stock | tryFreeze, commit, unfreeze, add, load | handlers and settlement, per-account mutex | no overdraft; frozen = open obligations |
| `SettlementProcessor` | two queues, the batches in hand | loop | ticker threads in, tables and `UserManager` out | each trade settled once, tables and memory agree |
| repositories (MySQL) | `accounts`, `holdings` | guarded UPDATEs, login, registration | handlers, settlement, start-up | guards never refuse what was accepted |
| handlers | none of their own | trade, cancel, deposit, login, queries | pool threads | accepted means reserved and logged |
| `WALManager` | queue, batch, `wal.bin` | append, loop | handlers in, engine out | write before dispatch, nothing lost |
| `TcpServer`, `SessionManager`, `TimerManager`, `ThreadPool` | descriptors, sessions, timers, tasks | accept, event, clean-up, time-out | event loop and pool threads share descriptors and sessions | a session belongs to one connection; idle ones are cleaned up once |
| framing (`MyEchoBusiness`), `Router` | per-session buffer | read, cut, dispatch | pool thread | packets cut at the same places whatever the pieces |
| `TickerManager` | id <-> symbol | load, look-up | start-up, settlement | filled before it is needed |
| `DBPool`, `RedisPool` | idle connections | get, give back | every thread that talks to a store | bounded, nobody waits for ever |
| `MarketDataPublisher`, `GetTrendHandler` | queue, batch in hand, sorted set in Redis | push, loop, query | ticker threads in, Redis out, pool threads read | the set says when each price and quantity was last traded |
| `client.cpp` | bytes sent and received | send a request, wait for the reply, time out | TCP | each reply is taken for the right request |
| `Logger` | queue | log, loop | everyone | - |

The hard behaviours: five kinds of threads over shared accounts; a trade settled in six
separate steps on two stores; two settlement queues that are not ordered with each other; a
queue with many producers that is ordered per producer only; statements that fail and a process that
dies between two steps; amounts that do not fit the type they are kept in; requests and replies in pieces; timers racing with closed and reused descriptors;
clients that give up or read slowly; pooled connections that are scarce or broken. `PROJECT.json` lists them as `hazards`, each at its
line, with the properties that would catch it.

## 2. Modules

| Module | Models |
| --- | --- |
| `PriceTimeBook` | abstract: what a price-time priority book promises; no levels, lists or index |
| `OrderBook` | `include/OrderBook.hpp`, driven by one thread |
| `SumLemmas` | lemmas on sums over finite functions, for the proofs about quantities and money, and on ranks in a finite ordered set, for those about replies and the log |
| `OrderBookProofs` | the inductive invariant of `OrderBook`, its consequences, and that `OrderBook` implements `PriceTimeBook` |
| `Exchange` | handlers, `UserManager`, WAL thread, engine, one ticker's thread (extends `OrderBook`), settlement, the two tables |
| `ExchangeProofs` | the book's theorems inside the exchange; types and the pipeline of events; reservations, overdraft, agreement of the ledgers, conservation and the log across crashes, in `Recovery` |
| `OrderIdGenerator` | `include/OrderIdGenerator.hpp` |
| `OrderIdGeneratorProofs` | how far apart equal ids must be |
| `Sessions` | login, registration, logout and deposit handlers, the accounts table, creation of accounts in `UserManager` |
| `SessionsProofs` | sessions, names and accounts belong together |
| `Connections` | `TcpServer`, `ThreadPool`, `SessionManager`, `TimerManager`, and the reading half of `MyEchoBusiness` |
| `ConnectionsProofs` | one task per descriptor, sessions alive while used, when the loop may stop, what is closed |
| `Recovery` | `Exchange` with the log, failing statements, crash and restart (extends `Exchange`) |
| `RequestReply` | abstract: what a client may rely on, one reply per request and in order; no bytes, tasks or buffers |
| `Wire` | the bytes between `client.cpp` and `MyEchoBusiness`; implements `RequestReply` |
| `WireProofs` | the streams of bytes both ways, and that `Wire` implements `RequestReply` |
| `ConnectionPool` | `DBPool` and `RedisPool` |
| `MarketData` | `MarketDataPublisher`, `GetTrendHandler` and Redis over a `ConnectionPool` (extends it) |
| `ConnectionPoolProofs` | connections are never shared, by the pool alone and by the components of `MarketData`; the history is exact and its readers are told of it in order |
| `MCOrderBook`, `MCExchange`, `MCRecovery`, `MCOrderIdGenerator`, `MCSessions`, `MCConnections`, `MCWire`, `MCMarketData` | instances for TLC |

**OrderBook.** `book["BUY"]`/`book["SELL"]` are `bids_`/`asks_`: functions from the prices
present to sequences of order ids. `active` is `user_active_orders_`, `order` the `Order` objects
by id. `matchBuyOrder` and `matchSellOrder` differ only in direction, so one action `Fill` is one
turn of the inner loop of either: trade with the head of the best level, drop an exhausted maker
from list and index, drop an emptied level. `Rest` and `Exhausted` are the two ways out of the
loops, with the index update of `processOrder`. `CancelOrder` is the whole of `cancelOrder`,
including the narrowing of the id to `uint32_t` (`Narrow`, width `IdSpace`). The loop over a
level's list needs no position: a turn that does not remove the head exhausts the taker, so the
next turn, if any, is at the head. `arrivals` and `lastCancel` are history.

**PriceTimeBook** knows only the live orders and the order of arrival; its `Trade` may only pair
the incoming order with the live order that nothing beats on price and then on arrival.
`OrderBook!KeepsPromise` maps `live` to the resting orders and the one being matched, and
`incoming` to `taker`.

**Exchange.** A step is what a thread does between two points at which another thread can see a
difference. `Trade` is id, reservation and enqueue together (reservations commute and ids are
only compared for equality). `DepositToDb` and `DepositToMemory` are the two halves of a deposit.
`WalWrite` takes a batch in any order (`Dequeuings`: the queue keeps the order per producer only,
and any pool thread may have handled any request), writes it; `WalDispatch` routes one event, and
drops it when its ticker has no book. `BookTake`, `BookHandles`, `BookMatches`, `BookPushes` are
the loop of the ticker's thread: cancels are visible to settlement at once, trades at the end of
the batch (`pushed`). Settlement (`TakeMatches` ... `SettleCancel`) polls for trades, runs four
statements and two commits for each it got, then polls for cancels; a poll may come back empty and be
overtaken by what arrives before the next one. `Dequeuings` and the wall clock
(`Tick`) are the parts modelled from how they are used. A request that is refused changes nothing
and has no action.

Amounts keep their widths. `Amount` is what `TradeHandler` reserves: the unsigned product of price and amount as an `int64_t`
(`include/Handler.hpp:264`), or the `uint32_t` amount as an `int` (`include/Handler.hpp:274`, `include/UserManager.hpp:180`); `Affordable` compares
it, as the code does, signed. Settlement converts in the same way (`sell_money`, `refund_money`, `shares`). `LongSpace` and `IntSpace` are the numbers of
values of the two types. `wrapped` is history: an order was accepted for which `Amount` is not its `Worth`. The sums of an account are plain integers, since
additions to a balance overflow only beyond 2^63. The stock of a ticker nobody lists (`unlisted_stock`) starts at 0, so only a
wrapped amount moves it.

Three constants say in which world a run lives. `TickersKnown` is whether `TickerManager` was filled
before `loadAllFromDB`; `main` calls them the other way round (`src/server/main.cpp:122-123`),
so the program's value is FALSE: no holding is loaded, against the repository's `README.md:163`, which has stock cached. With FALSE nothing is ever traded unless an amount wraps, which
is the theorem `NothingIsTraded`; `exchange` takes TRUE in order to examine the rest of the pipeline, `exchange_widths` takes FALSE, and the theorems hold for both. `unloaded` is history: what a life left
in the tables, which `LedgersAgree` allows for. `IdSpace` exceeds the ids in `book_safety` and `exchange`, so that cancels find their orders; `book_real_ids` has ids at or above it as in the program. `DbMayFail` allows a
statement to fail: the settlement loop ignores the results of its four statements and has no transaction
around them (`include/SettlementProcessor.hpp:46-49`), so tables and memory
agree only until a statement fails (`AgreeUnlessFailed`). `MoreRequests` bounds the
requests of a run (`MaxRequests`) whatever their kinds. Orders are given ids that are not repeated, which the generator does not promise (`order_ids`).

**Recovery.** `main` stays in `TcpServer::start`, whose loop has no way out, so destructors are never reached and every end of the process
is a crash. `Crash` may come between any two steps: it empties queues, batches, books and reservations, keeps the
tables, and loads the accounts from them as `loadAllFromDB` does. `log` is what `fwrite` has taken of this life's records;
`gap`, `failed` and `torn` remember what went wrong. `WriteBatch` may take any part of a batch: nothing is written when `wal.bin` could not be opened, a short write is not looked at, and the events
are dispatched all the same (`include/WALManager.hpp:69-71,86-87`). `TablesConserve` says exactly how far the tables may be out of balance: by the
trade whose statements are under way, and by trades that a crash or a failing statement has torn, which nothing repairs.
`LogComplete` compares the log with what the book has received and what is still on its way, while every record has been taken.

Here the program promises more than it does. The repository's `README.md:19` says that orders and cancels reach the disk before they are handled,
`README.md:153-154` that they are written to the file before they are passed on and that the record is complete, and `README.md:201` that no request is lost. The code
hands records to a stdio buffer and never flushes it (`include/WALManager.hpp:70`), so a crash takes the tail of the log with it although its orders were handled; a file
that could not be opened or a full disk costs the records and nothing else; and nothing reads `wal.bin`. `LogComplete` is what is left: the order of writing and dispatching within
the process.

**OrderIdGenerator.** A call is `ReadClock` and `Draw`; other calls and any change of the clock,
also backwards, may fall in between. The counter wraps at `CounterSpace`, a multiple of
`SequenceSpace` as 2^32 is of 2^12.

**Sessions.** A handler holds its session's mutex, so each connection has one handler at a time
and `handler[c]` says where it is. Registration is `RegisterUser` (the INSERT) and
`RegisterAccount`; login is `CheckLogin`, then `LoginKnown`, or `LoginUnknown` and `LoginAccount`;
a deposit goes to the table by user name and to memory by user id. The table gives each name one
row and one id, so a name stands for its id; `NoId` is the 0 of a look-up that finds
nothing. `IdQueryMayFail` lets the id query fail; the run takes FALSE. With TRUE `MappedBothWays` and `SessionsBound` fail:
`RegisterUserHandler` uses the id without testing it for 0 (`include/Handler.hpp:95-96`), as `LoginHandler` does. `Exchange` has the money of existing accounts,
`Sessions` how accounts come to be and which one a session acts for.

**Connections.** `loop` is the event loop: `Accept`, `CreateSession`, `AddEvent`, `StartTimer` for a new
connection, `Event` for a ready one, `HandleTimeout` for the top of the timer heap, with the
callback of `TcpServer::start`. A batch of `epoll_wait` is taken one event at a time and time-outs may come between
any two events, which allows more orders than the code. A worker's task is `GetSession`, `Read`,
`Serve`, `Rearm`, or `RemoveSession` and `Close` (`cleanConnection`), followed by `Cleanup`, `Unwatch`,
`CancelTimer` and a second `RemoveSession` and `Close` (`doCleanup`), each a step, since each is a
separate operation on state the loop shares. `hasSession` is as written: true when the slot is
empty. The timer's mutex shows only in the state "stuck": the loop asks for it while it holds it.
A session is named by the connection it was made for and `freed` is history. Descriptors, the
epoll set and clients are external and modelled from their use: one-shot entries, a close that ends
the entry, a number that is free once closed. Descriptors are taken to be below `MAX_FD` (65536): beyond it `createSession` and `removeSession` do nothing, `getSession` finds
nothing, and `hasSession`, which lacks the test, reads past the array (`include/SessionManager.hpp:40-67`).

A client may stop reading (`stalled`): `send` then finds the buffers full, and the send loop goes round at EAGAIN until the client reads or closes
(`src/server/main.cpp:94-97`), so `Serve` waits. Nothing makes a client read, and as many of them as there are threads hold the whole pool (`PoolPinned`): `PeerCloseHandled` is promised only while this
is not so.

`overlapped` is history: a worker was not yet done with a descriptor when its number was given out
again. The code does nothing against it, and from then on tasks, timers and sessions of the old connection meet
those of the new one, a raw session pointer included; so `SlotNotFreed` is stated of all behaviours, the other properties of those in
which it has not happened, and `connections_reuse` shows what happens otherwise to `OwnSession`, the unconditional form of `SessionPerConnection`.
`EventLoopLives` fails without any overlap: a timer that runs out after `removeSession` and before `cancelTimer` sends the callback into
`doCleanup`, whose `cancelTimer` locks the mutex `handleTimeouts` holds (`include/TimerManager.hpp:45,55,64`). `connections_timer` shows it, and `StuckOnlyInCleanup` that it is the only way.

**Wire.** A byte is `<<n, k>>`, the k-th of the packet of request n or of its reply; `up` and `down` are the bytes under way. A
client sends its request in pieces (`SendPiece`), reads exactly what it wants (`RecvPiece`), and after three seconds gives up: without the
list of stocks it goes on, without any other reply it closes (`TimeOut`). A client with `ahead` requests stands for one that
does not wait, which the server's loop over several packets is made for. On the server `Read` takes what has come,
`Dispatch` one packet, `SendReply` one `send` into a socket buffer of `Capacity` bytes; `SendToNobody` is a `send` to a client that has closed,
which may end the process by SIGPIPE (nothing ignores it). A header read at a wrong place tells anything to the client and nothing
to the server; that `recv_pkt` refuses lengths beyond 1 MB (`src/client/client.cpp:106`) matters only then and is left to that choice. `AnswersInOrder` maps the state to `RequestReply`, whose steps allow each request to be served once and in
order, and each reply to be heard once and in order. Once a client has gone on without a reply it
takes the late one for the next request's (`src/client/client.cpp:242-253`): from then on the model records nothing as heard.
Reuse of descriptors and idle timers are in `Connections`, where bytes are not.

**ConnectionPool.** `GetConnection` and `Wake` test the predicate of `cv_.wait` under the mutex and take the front of the queue or
sleep; between `notify_one` and the wake-up another thread may take the connection. No caller holds one connection while it asks for
another. `DBPool` and `RedisPool` are the same code but for the way a connection is opened.

**MarketData.** The publisher takes any number of queued records, asks for a connection, and has Redis execute the ZADDs one by one,
so that readers come between. `zset` maps the text of a trade (price and quantity; the ticker is fixed) to a score; equal texts share one
entry. `Score` is the conversion of the timestamp to a double: near 1.7e18 doubles are 256 apart (`Ulp`, 4 in the run). A connection
that breaks stays in the pool, and all commands on it fail: `publishBatchToRedis` loses the rest of its batch, `GetTrendHandler` answers
with no prices. (The repository's `README.md:21` says that the pools reconnect; there is no such code. `README.md:23,167` say that the
trade records are written for the charts, by timestamp; a trade overwrites the earlier ones of the same price and quantity, so the set has the last of each.) Timestamps are those of
`system_clock` (`include/OrderBook.hpp:43,84`): they may be equal, and smaller than those before when the clock is set back; `HistoryExact` is about the order in which trades were made,
`TrendInOrder` about the order in which the clock puts them. `matched` and `lost` are history.

## 3. Runs

| Run | Expect | Question |
| --- | --- | --- |
| `book_safety` | pass | the book's invariants, `AccountedFor`, refinement of `PriceTimeBook`, and the end of the matching loops |
| `book_real_ids` | violation | does a cancel reach an order whose id needs more than 32 bits? No |
| `exchange` | pass | reservations, overdraft, ledgers, deductions, conservation in the tables and the log under any three requests, failing statements, missing records, wrapped amounts and a crash; and does everything accepted come out at the end? |
| `exchange_widths` | violation | does no account ever go below zero? One does |
| `order_ids` | violation | are ids unique? No |
| `sessions` | pass | does a session act for one account, and do table and memory agree up to deposits under way? |
| `connections` | pass | one task per descriptor, no deleted session in use, each watched connection has its session, the loop stops in one case only, nothing closed that has not ended, every connection closed whose client has gone |
| `connections_reuse` | violation | does each connection keep its session when its descriptor's number is reused before the clean-up has ended? No |
| `connections_idle` | violation | are idle connections cleaned up? No |
| `connections_timer` | violation | does the event loop survive its timers? No |
| `wire` | pass | is each request served once, in order, and its reply taken for it, whatever the pieces? Does everyone who waits get an answer? |
| `market_data` | pass | are connections shared? Is the history exact, the trend in order, and everyone served? |

Bounds. Three orders are the smallest number with which a queue of two at one level is swept,
partly filled or cancelled from either end, by a third; two prices give a crossing, an equal and
a non-crossing limit and price improvement; quantities 0 to 2 give the empty order, exact,
partial and multiple fills. In `exchange` two orders suffice for a trade, and the third request is a cancel or a deposit; an opening balance of 2 and a
holding of 2 let some orders be refused; an order of two at price two is worth four, which does not fit an `int64_t` of eight values, and the crash cuts the trade between any two of its steps. A second crash would start from
tables of the same kind. The constraints of `MCRecovery` leave out what cannot matter: `IdsInTurn` and `AscendingIds` fix the order in which ids are used, since the code compares ids
only for equality in what is modelled; `UnknownAlike` has one order and one cancel stand for all those for an unknown ticker, which are dropped; `NoneOrAll` follows one of the ways in which records are
missing, since no property looks at the log afterwards; `FewWhenWrapped` allows two requests in all instead of three once one of them has wrapped, to keep the run within five minutes. `exchange_widths` has orders of one share and of seven, the largest amount for an `int` of eight values.
Three connections are two that race for one name and one that goes on using it; two names tell
sharing from separation. Two clients on two descriptors, of which either may be reused, and two
pool threads give every overlap of a read, a clean-up and an accept; a message and a close give an event during
a task; a clock of two with time-out one lets a timer run out before, during and after each step,
and be renewed. Each client sends at most one message. On the wire a header of two bytes can be cut, bodies
of zero to two bytes give packets that end with the header and later, a capacity of two makes every reply of more than two bytes wait for its reader; one
thread is the case in which a slow reader holds up the others (two threads exceed five minutes), one time-out is either client's.
In the market three threads on none, one or two connections give a waiting queue of two; tapes of four trades with a text that
comes back, scores that tie and a clock that stands still or is set back, against a range of two, let the range cut and the order of texts decide. Nine calls with four
sequence numbers let an id come twice, by itself and through the wrap of the counter. Users and connections are symmetric in the runs with safety properties only; the others use no symmetry,
and `UsersInTurn` lets the same user begin in `book_safety`. `CHECK_DEADLOCK FALSE` stands where clients may stop sending and the bounds end the
behaviour. Batches are never cut at 1000. Every property has a mutant: an operator named
as a slip in the module, put in the place of the definition it stands before.

Fairness. `book_safety` assumes, for `MatchingEnds`, that the ticker's thread keeps running (weak fairness of
the loop's body). `exchange` assumes it (`ThreadsRun`) of the WAL, ticker and settlement threads, which
loop for the life of the process, and of a deposit handler that is between its two updates. Clients owe nothing and no crash is owed.
`wire` assumes it of the event loop, of each pool thread and of the clients, which read what they are sent: `client.cpp` is either sending or in `recv`.
A client that never reads does hold its thread for ever (`src/server/main.cpp:94-97`). `market_data` assumes it of the publisher and of each reader, except that a thread
in `cv_.wait` is owed a step only once it is notified; requests are bounded, so the run shows that no wake-up is lost, not that a thread cannot be
overtaken for ever by newcomers, which a condition variable does not promise.
`connections` and `connections_idle` assume it of the event loop and of each pool thread, which loop for the
life of the process, and that time goes on, and nothing of clients, not even that they read: a thread in the send loop for a client that does not is owed nothing (`Serve` is not enabled). Weak fairness of the loop as a whole is enough since
clients' messages are bounded.

What the violations show. `cancelOrder(const uint32_t& order_id, ...)` (`include/OrderBook.hpp:123`)
cuts ids to 32 bits, and the generator's ids need more from 1.024 s after its epoch on; a cancel then
finds nothing. An amount of 2^31 or more shares is negative as an `int` and passes the check against any holding, so that a user without stock sells and the
frozen stock goes below zero, and a price times amount beyond 2^63 likewise passes as a small or negative cost (`include/Handler.hpp:264,274`), where the repository's `README.md:10-12` promises that nothing is
oversold or overdrawn; `OverdrawnOnlyByWrapping` says that this is the only way. `generate` takes the low 12 bits of a counter it neither resets nor waits for (`include/OrderIdGenerator.hpp:35-39`): the
4097th id of a millisecond repeats the first, where lines 8 and 30 promise unique ids; the theorem `IdsRepeatFarApart` says how much is left of that.
`hasSession` is inverted (`include/SessionManager.hpp:67`): the time-out callback
leaves live connections alone (`src/server/TcpServer.cpp:111`), and a connection that
`MyEchoBusiness` has closed is cleaned up a second time by number (`src/server/TcpServer.cpp:117-121`),
which may hit a new connection; and a timer that runs out in the middle of a clean-up makes the event loop lock the timer's mutex twice.

`FrozenBacked` counts the reservation of an order dropped for want of a book
(`include/MatchingEngine.hpp:33`) as frozen: the code never releases it, and the property says
that these are the only reservations that stay.

## 4. Proofs

All theorems hold for every value of the constants that satisfies the named assumptions
(`BookAssumption`: prices, quantities and ids are naturals, `NoOrder` is no id, `IdSpace` is
positive; `ExchangeAssumption`: balances, holdings, deposits and bounds are naturals, `LongSpace` and `IntSpace` positive; `RecoveryAssumption`; `Widths`: field widths positive, the node id fits its
field, the counter's size is a multiple of the sequence space; `WireAssumption`: a script is a sequence of requests, the header and the socket's
buffer hold at least a byte; the others are named below).

* `OrderBookProofs`. `BookInv` is the conjunction of `TypeOK`, `BookUncrossed`,
  `LevelsWellFormed`, `IndexAgrees`, `LimitsRespected` and `HistoryAgrees`. None but the first is
  inductive alone: that `Rest` keeps the book uncrossed needs levels without empty lists and the
  maps' keys to be the prices of their orders; that a removed order leaves no trace needs each order to be listed
  once, which follows from `LevelsWellFormed` (a level is in order of arrival) and `HistoryAgrees` (no
  order arrives twice); that the remainder joins in order needs the taker to be the latest
  arrival. There is one lemma per action; `ReplaceLevel` and `TakeOff` carry what
  changing one level does to the set of resting orders. `BookCorrect` is `Spec => []BookInv`, and
  `TypeCorrect`, `NeverCrossed`, `LevelsInOrder`, `IndexExact`, `TradesWithinLimits` are its parts.
  `BookKeepsPromise`: `Spec => KeepsPromise`, from `BookInv`: the head of the best
  level is the live order nothing beats, because levels are in order of arrival. `NothingLost`: `Spec => []AccountedFor`,
  from `AccountInv`, which adds `BookInv` and that every cancel record is of an order the book has seen; a fill adds one record to the sums
  of its two orders and to no other. `NoCancelTakesEffect`: `Spec => [](cancels = << >>)` when every
  id is at or above `IdSpace`, as in the program: what `Narrow` makes of the id asked for is no order's id.
* `SumLemmas`. What a sum over a finite function becomes when a point is changed, added or removed, and that it is a natural. The
  library's induction over finite sets takes an operator as parameter and cannot be used; these lemmas argue with a smallest counterexample instead.
  Then ranks: in a finite set under a strict total order each rank below the set's size belongs to exactly one element, and ranks grow with the order.
  `TrendTexts` and `Selected` are written with ranks (the k-th text, the k-th place), so that what they compute needs no induction over a sequence.
* `ExchangeProofs`. The queues carry well-formed events and only the ticker's thread touches the book, so the book's theorems hold inside the exchange:
  `BookCorrectInContext`, `PromiseKeptInContext`. The other theorems are about `RSpec`, that is with failing statements, missing records and a crash at any step, for both values of `TickersKnown` and any
  widths. `ExTypeCorrect`: `ExTypes` adds
  to `ExTypeOK` what the records in each queue look like. `PipeInv` says that an order's id is in one place: in a queue or batch,
  or with the book, and fresh until then. The inductive invariant is `LifeInv == ExTypes /\ PipeInv /\ (~wrapped => LedgerInv /\ Solvent)`.
  `LedgerInv` adds three parts to the first two. `Backed` is the equation
  of `FrozenBacked` as a sum of four weights (orders under way, on the book, in unsettled trades, in unreleased cancels); each action moves an amount
  from one weight to the next, or takes it out of the account and of one weight. `PipeInv` is what makes the moves exact: an event in two queues
  would be counted twice. `Fitted` says that what was accepted fits: orders with side, price and quantity within a set that has with a quantity all smaller ones (`Closed`) stay within it on their way through queues,
  book, fills and cancels (`Within(S)`), and the orders that fit their types are such a set. So every conversion in settlement is exact, although the trades, refunds and remainders were never compared with
  anything. `NothingUnlisted` says that no stock of an unknown ticker moves. `Solvent` adds that what is available and the rows are not below zero: what is frozen is a sum of naturals, what is available is frozen only as far as it reaches, and the
  WHERE clauses guard the rows. Hence `ReservationsBacked` (`RSpec => []FrozenBacked`) and `OnlyWrappingOverdraws` (`RSpec => []OverdrawnOnlyByWrapping`). `AgreementUntilFailure` adds `Agreed`, the equation of `LedgersAgree` with
  what a step of settlement is still due; it needs no bound on amounts, since both ledgers convert alike and a refused deduction counts as failed. `DeductionsStayCovered` follows from the two together: the balance in the table is at least what is
  frozen for the trade. Each life starts the invariants anew from whatever tables the crash left (`FreshLife`). `TablesAlwaysConserve` is
  `RSpec => []TablesConserve` for a finite set of users, from `Conserved`. `NothingIsTraded` (assuming `~TickersKnown`) uses `Within` for another set, the orders that sell nothing: no account has stock, so none but these are accepted, and a
  trade needs one that sells something; so nobody gets stock either.
  `LogAlwaysComplete`: `RSpec => []LogComplete`, from `LogInv`: while no record is missing, the records for the listed ticker are a part whose orders are those that arrived, followed by the
  records of what is with the book, in its queue and in the WAL thread's batch. `LogComplete` alone is not inductive: when the book handles an event, its record has
  to be the first of those on their way. The lemmas it needs say that `Listed` and `OrdersOf` of one sequence after another are the two results one after the other,
  and that `Records` changes neither place, ticker, kind, id nor an order's quantity.
* `SessionsProofs`. `SInv` has in one the name and id of each session, account and row and, per name, the deposits under way; `SessionsStayBound`,
  `NamesAndIdsMap` and `RowsMatchAccounts` follow, assuming `~IdQueryMayFail` (a failing id query puts an account under id 0, a
  hazard that is listed without a property). `AccountsAlwaysStay` is the action property, without that assumption. The set of connections is finite (`SessionsAssumption`).
* `ConnectionsProofs`. Whatever overlaps, `TablesInv` holds: each accepted connection is at one descriptor (`ConnectedOnce`), a session is made once, is in one slot and
  leaves it when it is deleted (`SessionsOnce`), and a loop that is stuck is so over a descriptor with a timer and without a session (`Stopped`); hence `ConnectionsTyped` and `SlotsNeverFreed`. Until a clean-up overlaps the next use of its
  number, `Orderly` holds too: per descriptor (`FdOK`) at most one task, queued or on a thread, none while the entry is armed or the loop sets the connection up,
  what the task may rely on at each of its steps (`TaskOK`), and that a timer that counts belongs to a session or to a thread on its way to cancel it
  (`TimerOK`). A step changes one descriptor; the others rest (`RestsKeeps`). Hence `TasksAreAlone`, `NoSessionDangles`,
  `SessionsAreOwn`, `StuckInCleanup` (from `Stopped` and `TimerOK`) and the action property `OnlyEndedClosed`, which shows more than `ClosesOnlyEnded` says: the second alternative, an expired timer, never
  occurs, as the callback leaves live connections alone. `ConnectionsAssumption` has the model value `None` apart from connections and from points of time.
* `ConnectionPoolProofs`. `PoolNeverShares`: `PoolSpec => []NoConnectionShared`, from `PoolInv`, which adds the types; one lemma each for
  taking, sleeping and giving back. `MarketDataUsesPool`: `MSpec => PoolSpec`, each step of a publisher or a reader is a step of the pool or
  leaves it alone; hence `MarketDataNeverShares`. `HistoryAlwaysExact`: `MSpec => []HistoryExact`, from `InLine`: the trades are those handled, those of the
  batch and those in the queue, in this order, so each ZADD is of a later trade than all before it and what is lost was not
  written. It says nothing of the times. `TrendAlwaysInOrder`: `MSpec => []TrendInOrder`, from the same invariant: the score of a text is that of its last trade among those written, the order in
  which Redis answers is a strict total order of the texts, and so the k-th text from the end is one text, told once. Assumptions: `PoolAssumption` (`NoConn` is no
  connection, `MaxSize` a natural) and `MarketDataAssumption` (different texts differ in their order; timestamps are any naturals).
* `WireProofs`. `WireKeepsPromise`: `WSpec => AnswersInOrder`, for any script, number of clients and threads, length of the header and capacity of the socket. From
  `WInv`: each connection is armed, queued or with one thread (`OneTask`), and is `Sound`: the bytes on their way to the server, whether in the session's buffer
  behind what the task has consumed, on the wire or still with the client, are a `Run`, in which each byte is followed by the next of its packet or the first of the
  next packet, from the next request to be dispatched to the last one begun; the bytes on their way back (with the client, on the wire, in the hands of
  the thread) are a `Run` from the next reply to be taken to the next one to be owed. So a header is always read at the first byte of a packet, which neither
  `WTypeOK` nor `AnswersInOrder` says and both need. A `Run` is a first-order statement about neighbouring bytes, so cutting and joining need no induction over
  the stream; only that a whole packet is at the front of a long enough run needs one, over a smallest place where it would not be. A client that has given up waiting is past promises about replies, and only its
  requests are still followed; a closed connection is past both. There is one lemma on `Sound` per kind of step, and one per action. `WTypeOKAlways` is a consequence.
* `OrderIdGeneratorProofs`. `IdsRepeatFarApart`, from `GenInv` (the k-th id is made of its timestamp
  and of k - 1) and lemmas on quotients and remainders.

The inductive invariants were first checked by TLC on the instances of the runs.

Only model-checked: liveness (`MatchingEnds`, `EventuallyDrained`, `PeerCloseHandled`, `EveryRequestAnswered`, `Served`), which rests on
fairness and on `ENABLED`, beyond the prover. Every other property of the passing runs is a theorem, under the assumptions named above.

## 5. Not modelled

Not modelled:

* the vendored libraries `json.hpp`, `concurrentqueue.h`, `blockingconcurrentqueue.h` and `lightweightsemaphore.h`, nine tenths of the
  repository's lines: third-party code, modelled by what its users rely on (`Dequeuings`, `DequeueBulk`);
* balances and holdings beyond the widths of their fields: the amount of each request is converted as in the code, the sums of many are not;
* what becomes of a book that is given an id twice (`order_ids`), and of descriptors at or above `MAX_FD`;
* what a crash leaves of `wal.bin` on disk;
* the queries of handler threads into a book that its own thread is changing (`include/OrderBook.hpp:118,148`): a data race, whose outcome is undefined. They change
  nothing the other models look at;
* the other query handlers and the formatting of replies, which change no state; the logger, whose output nothing reads;
* destructors and shutdown, which are never reached;
* the Python agents, which send a 4-byte length and JSON and cannot talk to this server's 6-byte binary header;
* several tickers in one model: books share nothing but the queues and the accounts, and one listed and one unlisted ticker are in `Exchange`.

One thing the models take for granted: `main` registers the handlers with the object `g_router`
(`src/server/main.cpp:23,140-152`), while requests go to `Router::getInstance()` (`src/server/main.cpp:71`) and the
constructor of `Router` is private (`include/Router.hpp:57`). The models take the two to be one router.
