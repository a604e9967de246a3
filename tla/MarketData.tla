----------------------------- MODULE MarketData -----------------------------
(***************************************************************************)
(* The history of trades in Redis: MarketDataPublisher's thread writes it, *)
(* GetTrendHandler reads it, both over connections of RedisPool, which may *)
(* break.  One ticker; its sorted set holds, per text of a trade (price    *)
(* and quantity), the score of the ZADD that wrote it last.                *)
(***************************************************************************)
EXTENDS ConnectionPool, SequencesExt

CONSTANTS
    Publisher,     \* worker_thread_
    Viewers,       \* pool threads in GetTrendHandler
    Texts,         \* <<price, quantity>>
    TextRank,      \* the order of the JSON texts, which Redis uses for equal scores
    Tapes,         \* what the ticker may trade, in order (bounds the trades)
    Ulp,           \* distance of the doubles near a timestamp (256 at 1.7e18)
    Limit,         \* length of the range asked for (10)
    MaxBroken      \* bound on the connections that break

\* timestamp is what system_clock said at the fill: two trades may have one, and a later
\* trade an earlier one when the clock is set back.
Trade == [text : Texts, timestamp : Nat]

ASSUME MarketDataAssumption ==
    /\ Threads = {Publisher} \cup Viewers /\ Publisher \notin Viewers
    /\ TextRank \in [Texts -> Nat]
    /\ \A x, y \in Texts : TextRank[x] = TextRank[y] => x = y
    /\ Tapes \subseteq Seq(Trade)
    /\ Ulp \in Nat \ {0} /\ Limit \in Nat \ {0} /\ MaxBroken \in Nat

VARIABLES
    matched,   \* history: the trades of the ticker, in order
    queue_,    \* MarketDataPublisher::queue_
    batch,     \* what the publisher has taken and not yet written
    zset,      \* text -> score
    viewer,    \* per viewer: where it is, its reply, and the trades written before it
    broken,    \* connections whose context has err set, or will at its next use
    lost       \* history: the trades whose ZADD failed, by their number

dataVars == <<matched, queue_, batch, zset, viewer, broken, lost>>

marketVars == <<poolVars, dataVars>>

MInit ==
    /\ PoolInit
    /\ matched = << >> /\ queue_ = << >> /\ batch = << >>
    /\ zset = << >>
    /\ viewer = [v \in Viewers |-> [at |-> "asking", prices |-> << >>, before |-> {}]]
    /\ broken = {} /\ lost = {}

-----------------------------------------------------------------------------
(***************************************************************************)
(* The publisher.                                                          *)
(***************************************************************************)

\* The ticker's thread pushes the record of a trade.
PushRecords ==
    /\ \E tape \in Tapes :
          /\ Len(matched) < Len(tape) /\ IsPrefix(matched, tape)
          /\ matched' = Append(matched, tape[Len(matched) + 1])
          /\ queue_' = Append(queue_, tape[Len(matched) + 1])
    /\ UNCHANGED <<poolVars, batch, zset, viewer, broken, lost>>

\* A plausible slip: taken from the back.
BatchReversed(k) == Reverse(SubSeq(queue_, 1, k))

\* The records wait_dequeue_bulk_timed hands out, oldest first.
DequeueBulk(k) == SubSeq(queue_, 1, k)

\* processQueue: some of the records, then publishBatchToRedis.
TakeBatch ==
    /\ batch = << >> /\ conn[Publisher] = NoConn /\ queue_ # << >>
    /\ \E k \in 1 .. Len(queue_) :
          /\ batch' = DequeueBulk(k)
          /\ queue_' = SubSeq(queue_, k + 1, Len(queue_))
    /\ UNCHANGED <<poolVars, matched, zset, viewer, broken, lost>>

PublisherConnects ==
    /\ batch # << >>
    /\ GetConnection(Publisher) \/ Wake(Publisher)
    /\ UNCHANGED dataVars

\* The score Redis keeps: the nearest double, of two as near the even one.
Score(t) ==
    LET low == t \div Ulp
        up == 2 * (t % Ulp) > Ulp \/ (2 * (t % Ulp) = Ulp /\ low % 2 = 1)
    IN  (IF up THEN low + 1 ELSE low) * Ulp

\* Redis executes the next ZADD.
Zadd ==
    /\ batch # << >> /\ conn[Publisher] \notin broken \cup {NoConn}
    /\ LET rec == Head(batch)
       IN  zset' = [x \in DOMAIN zset \cup {rec.text} |->
                       IF x = rec.text THEN Score(rec.timestamp) ELSE zset[x]]
    /\ batch' = Tail(batch)
    /\ UNCHANGED <<poolVars, matched, queue_, viewer, broken, lost>>

\* The trades whose ZADD Redis has executed or never will, by their number.
Handled == 1 .. Len(matched) - Len(queue_) - Len(batch)

\* Those it has executed.
Written == {[n |-> n, trade |-> matched[n]] : n \in Handled \ lost}

\* redisGetReply fails for all that is left; nothing is sent again.
LoseBatch ==
    /\ batch # << >> /\ conn[Publisher] \in broken
    /\ lost' = lost \cup ((1 .. Len(matched) - Len(queue_)) \ Handled)
    /\ batch' = << >>
    /\ UNCHANGED <<poolVars, matched, queue_, zset, viewer, broken>>

\* The end of publishBatchToRedis.
PublisherReturns ==
    /\ batch = << >>
    /\ Return(Publisher)
    /\ UNCHANGED dataVars

Publish == TakeBatch \/ PublisherConnects \/ Zadd \/ LoseBatch \/ PublisherReturns

-----------------------------------------------------------------------------
(***************************************************************************)
(* The readers.                                                            *)
(***************************************************************************)

ViewerConnects(v) ==
    /\ viewer[v].at = "asking"
    /\ GetConnection(v) \/ Wake(v)
    /\ UNCHANGED dataVars

\* The order of ZREVRANGE: the highest score first, of equal ones the last text.
RevOrder(x, y) ==
    \/ zset[x] > zset[y]
    \/ zset[x] = zset[y] /\ TextRank[x] > TextRank[y]

\* The text with k others before it.
Ranked(k) ==
    CHOOSE x \in DOMAIN zset : Cardinality({y \in DOMAIN zset : RevOrder(y, x)}) = k

\* The length of ZREVRANGE's answer.
RangeLen == LET all == Cardinality(DOMAIN zset) IN IF all < Limit THEN all ELSE Limit

\* A plausible slip: the range from the low end of the set.
OldestTexts == [i \in 1 .. RangeLen |-> Ranked(Cardinality(DOMAIN zset) - i)]

\* The texts ZREVRANGE 0 Limit-1 answers, as the handler turns them round.
TrendTexts == [i \in 1 .. RangeLen |-> Ranked(RangeLen - i)]

\* redisCommand and the reply made of it; on a broken connection there is none, and the
\* client is sent no prices.
GetTrend(v) ==
    /\ viewer[v].at = "asking" /\ conn[v] # NoConn
    /\ viewer' = [viewer EXCEPT ![v] =
          IF conn[v] \in broken THEN [@ EXCEPT !.at = "failed"]
          ELSE [at |-> "told", prices |-> TrendTexts, before |-> Written]]
    /\ UNCHANGED <<poolVars, matched, queue_, batch, zset, broken, lost>>

ViewerReturns(v) ==
    /\ viewer[v].at # "asking"
    /\ Return(v)
    /\ UNCHANGED dataVars

View(v) == ViewerConnects(v) \/ GetTrend(v) \/ ViewerReturns(v)

\* A connection breaks; the pool keeps it and does not connect again.
Break(c) ==
    /\ c \notin broken /\ Cardinality(broken) < MaxBroken
    /\ broken' = broken \cup {c}
    /\ UNCHANGED <<poolVars, matched, queue_, batch, zset, viewer, lost>>

-----------------------------------------------------------------------------
MNext ==
    \/ PushRecords
    \/ Publish
    \/ \E v \in Viewers : View(v)
    \/ \E c \in Conns : Break(c)

MSpec == MInit /\ [][MNext]_marketVars

\* The threads run; a thread in cv_.wait is owed nothing until it is notified.
MFairSpec ==
    /\ MSpec
    /\ WF_marketVars((Publisher \in waiting => Publisher \in notified) /\ Publish)
    /\ \A v \in Viewers : WF_marketVars((v \in waiting => v \in notified) /\ View(v))

-----------------------------------------------------------------------------
(***************************************************************************)
(* Properties.                                                             *)
(***************************************************************************)

\* w is the last trade of text among trades, in the order of matching.
IsLast(w, text, trades) ==
    /\ w \in trades /\ w.trade.text = text
    /\ \A r \in trades : r.trade.text = text => r.n =< w.n

\* The sorted set holds, of every text, the time of the last of its trades that reached
\* Redis, whatever the batches, whichever connections broke and however the clock went:
\* no ZADD overtakes another.  It holds no more: trades with one price and quantity share
\* an entry, of which the last is kept, where the repository's README.md:23,167 has the
\* trade records written for the charts; and a trade whose ZADD failed is not in it.
HistoryExact ==
    /\ DOMAIN zset = {w.trade.text : w \in Written}
    /\ \A text \in DOMAIN zset :
          \E w \in Written : IsLast(w, text, Written) /\ zset[text] = Score(w.trade.timestamp)

\* What the clock said when text was last traded among trades.
LastTraded(text, trades) == (CHOOSE w \in trades : IsLast(w, text, trades)).trade.timestamp

\* A client that asks for the trend is told of the texts whose last trades the clock puts
\* last, each once and in that order, but for trades so near in time that their scores are
\* the same double.  It is the order of trade as long as the clock is not set back.
TrendInOrder ==
    \A v \in Viewers : viewer[v].at = "told" =>
        LET told == viewer[v].prices
            before == viewer[v].before
            texts == {w.trade.text : w \in before}
            at(x) == Score(LastTraded(x, before))
        IN  /\ Len(told) = IF Cardinality(texts) < Limit THEN Cardinality(texts) ELSE Limit
            /\ Range(told) \subseteq texts
            /\ \A i, j \in DOMAIN told :
                  i < j => told[i] # told[j] /\ at(told[i]) =< at(told[j])
            /\ \A x \in texts \ Range(told), i \in DOMAIN told : at(x) =< at(told[i])

\* Unless no connection could be opened when the server started, every thread that asks
\* for one gets it, the last to be woken too, and no trade stays in the queue.
Served ==
    connQueue_ # << >> =>
        /\ \A v \in Viewers : <>(viewer[v].at # "asking")
        /\ []<>(queue_ = << >> /\ batch = << >>)

=============================================================================
