------------------------------ MODULE Recovery ------------------------------
(***************************************************************************)
(* The exchange across the death of the process.  The server has no        *)
(* orderly end (main stays in TcpServer::start), so every stop is a crash: *)
(* queues, books, accounts in memory and reservations are gone, the tables *)
(* stay, and the next life loads its accounts from them.                   *)
(*                                                                         *)
(* A life is one run of the process; log is what fwrite has taken from it. *)
(* That is less than what the repository's README.md promises (line 19,    *)
(* requests reach the disk first; line 201, none is lost): nothing calls   *)
(* fflush or fsync, so that a crash takes the tail that is still in the    *)
(* stdio buffer, a file that could not be opened or a full disk is ignored,*)
(* and nothing ever reads wal.bin.                                         *)
(***************************************************************************)
EXTENDS Exchange

CONSTANT MaxCrashes   \* bound on the crashes

ASSUME RecoveryAssumption == MaxCrashes \in Nat

VARIABLES
    log,      \* the records of this life that fwrite has taken, in order
    gap,      \* history: some record of this life was not taken
    crashes,  \* the number of crashes so far
    failed,   \* history: a statement of settlement has failed in this life
    torn      \* history: some trade has only some of its four statements in the tables

recVars == <<allVars, log, gap, crashes, failed, torn>>

RInit ==
    /\ ExInit
    /\ log = << >>
    /\ gap = FALSE
    /\ crashes = 0
    /\ failed = FALSE
    /\ torn = FALSE

-----------------------------------------------------------------------------
\* A WALRecord: a cancel has no side, price or quantity and gets zeros.
Record(ev) ==
    [type |-> ev.type, order_id |-> ev.order_id, ticker |-> ev.ticker,
     user_id |-> ev.user_id,
     side |-> IF ev.type = "NEW_ORDER" THEN ev.side ELSE "BUY",
     price |-> IF ev.type = "NEW_ORDER" THEN ev.price ELSE 0,
     quantity |-> IF ev.type = "NEW_ORDER" THEN ev.quantity ELSE 0]

\* A plausible slip: the batch is written back to front.
RecordsReversed(batch) == [k \in DOMAIN batch |-> Record(batch[Len(batch) + 1 - k])]

\* What fwrite is given: a record for each event of the batch.
Records(batch) == [k \in DOMAIN batch |-> Record(batch[k])]

\* fwrite may take fewer records than it is given, and there is no write at all when
\* wal_file_ is null: nobody looks, and the batch is dispatched all the same.
WriteBatch ==
    /\ WalWrite
    /\ \E taken \in 0 .. Len(walBatch') :
          /\ log' = log \o SubSeq(Records(walBatch'), 1, taken)
          /\ gap' = (gap \/ taken < Len(walBatch'))
    /\ UNCHANGED <<crashes, failed, torn>>

\* A statement that leaves the tables as they were has failed, been refused, or had
\* an amount that is zero after its conversion.
RunStatement ==
    /\ SettleInDb
    /\ failed' = (failed \/ db' = db)
    /\ torn' = (torn \/ db' = db)
    /\ UNCHANGED <<log, gap, crashes>>

OtherStep ==
    /\ \/ Handlers \/ WalDispatch \/ BookThread
       \/ TakeMatches \/ SettleBuyer \/ SettleSeller
       \/ TakeCancels \/ SettleCancel
    /\ UNCHANGED <<log, gap, crashes, failed, torn>>

\* A plausible slip: the accounts come back as they were at the very first start.
OpeningAccounts ==
    [u \in Users |-> Loaded([balance |-> OpeningBalance[u], holding |-> OpeningHolding[u]])]

\* loadAllFromDB.
LoadedAccounts == [u \in Users |-> Loaded(db[u])]

\* The process dies between any two steps and is started again.  Ids stay issued: the
\* generator's clock has moved on.
Crash ==
    /\ crashes < MaxCrashes
    /\ crashes' = crashes + 1
    /\ account' = LoadedAccounts
    /\ order' = [i \in {} |-> 0]
    /\ book' = [s \in Side |-> [p \in {} |-> << >>]]
    /\ active' = [u \in Users |-> {}]
    /\ taker' = NoOrder
    /\ results' = << >> /\ cancels' = << >>
    /\ arrivals' = << >> /\ lastCancel' = NoCall
    /\ deposits' = [u \in Users |-> 0]
    /\ walQueue' = << >> /\ walBatch' = << >>
    /\ bookQueue' = << >> /\ bookBatch' = << >>
    /\ pushed' = 0
    /\ settling' = TopOfLoop
    /\ dropped' = {}
    /\ unloaded' = [u \in Users |-> PassedOver(db[u])]
    /\ log' = << >>
    /\ gap' = FALSE
    /\ failed' = FALSE
    /\ torn' = (torn \/ settling.step \in 1 .. 3)
    /\ UNCHANGED <<issued, db, deposited, cancelCalls, wrapped>>

RNext == WriteBatch \/ RunStatement \/ OtherStep \/ Crash

RSpec == RInit /\ [][RNext]_recVars

RFairSpec == RSpec /\ ThreadsRun

-----------------------------------------------------------------------------
(***************************************************************************)
(* Properties.                                                             *)
(***************************************************************************)

\* Tables and memory agree in every life, as LedgersAgree has it, until a statement
\* of that life fails: a trade cut in two by the last crash, a deposit that reached
\* only the table and orders that died in a queue leave no difference, because
\* loadAllFromDB starts from the tables.
AgreeUnlessFailed == ~ failed => LedgersAgree

\* Money and stock are neither made nor lost in the tables, crashes or not, except for
\* the trade whose statements are under way (SettlementProcessor::processLoop has no
\* transaction around them) and those a crash or a failing statement has torn.
TablesConserve ==
    LET between(steps) == settling.matches > 0 /\ settling.step \in steps
    IN  ~ torn =>
          /\ SumFunction([u \in Users |-> db[u].balance]) =
                SumFunction(OpeningBalance) + deposited
                - (IF between({1, 2}) THEN sell_money ELSE 0)
          /\ SumFunction([u \in Users |-> db[u].holding]) =
                SumFunction(OpeningHolding)
                + (IF between({2, 3}) THEN shares ELSE 0)

\* A deduction is refused only after something else went wrong: from the check in
\* TradeHandler to settlement, through the queues, the book and other trades and
\* deposits of the user, the money and the stock the WHERE clauses of DeductBalance and
\* DeductStockHolding ask for stay in the tables, as long as no statement of this life
\* has failed and no order was accepted with the wrong reservation.
CoveredUnlessFailed == ~ wrapped /\ ~ failed => DeductionsCovered

\* The k-th of the places I in a sequence, and what q has at these places, in order.
Place(I, k) == CHOOSE i \in I : Cardinality({j \in I : j < i}) = k - 1

Selected(q, I) == [k \in 1 .. Cardinality(I) |-> q[Place(I, k)]]

\* The events or records of a sequence that are for the listed ticker, and the orders
\* among them.
Listed(q) == Selected(q, {i \in DOMAIN q : q[i].ticker = "listed"})

OrdersOf(q) ==
    LET new == Selected(q, {i \in DOMAIN q : q[i].type = "NEW_ORDER"})
    IN  [k \in DOMAIN new |-> [order_id |-> new[k].order_id, quantity |-> new[k].quantity]]

\* What the engine gets to see of this life is in the log, all of it and in the order in
\* which it is handled, for as long as fwrite takes every record: the log ends with
\* the events still on their way to the book, and its orders are those that arrived at
\* the book, with the quantity they arrived with, and those still on their way.  This
\* is the order of writing and dispatching in WALManager::processerLoop and no more:
\* events whose records were not taken are dispatched all the same, and of the log
\* itself a crash loses what stdio still holds.
LogComplete ==
    LET underway == bookBatch \o bookQueue \o Listed(walBatch)
    IN  ~ gap =>
          /\ IsSuffix(Records(underway), Listed(log))
          /\ OrdersOf(Listed(log)) = arrivals \o OrdersOf(underway)

=============================================================================
