------------------------ MODULE ConnectionPoolProofs ------------------------
(***************************************************************************)
(* No two users of a pool hold the same connection: proved of the pool     *)
(* alone, for any number of threads and connections, and of the publisher  *)
(* and the readers of the trend, whose steps are steps of the pool.        *)
(* Then, that the history the publisher writes is exact, and that readers  *)
(* are told of it in the order of trade.                                   *)
(***************************************************************************)
EXTENDS MarketData, SequenceTheorems, SumLemmas, TLAPS

\* The inductive invariant: NoConnectionShared with the types of the pool's state.
PoolInv ==
    /\ connQueue_ \in Seq(Conns)
    /\ conn \in [Threads -> Conns \cup {NoConn}]
    /\ waiting \subseteq Threads
    /\ NoConnectionShared

\* What init leaves in the queue satisfies it.
LEMMA PoolInitInv == PoolInit => PoolInv
<1> SUFFICES ASSUME PoolInit PROVE PoolInv
    OBVIOUS
<1>1. PICK n \in 0 .. MaxSize : connQueue_ \in [1 .. n -> Conns]
    BY DEF PoolInit, Opened
<1>2. n \in Nat
    BY <1>1, PoolAssumption
<1>3. connQueue_ \in Seq(Conns)
    BY <1>1, <1>2
<1>4. \A i, j \in DOMAIN connQueue_ : connQueue_[i] = connQueue_[j] => i = j
    BY DEF PoolInit, Opened
<1>5. \A i \in DOMAIN connQueue_ : connQueue_[i] \in Conns
    BY <1>3
<1> QED
    BY <1>3, <1>4, <1>5, PoolAssumption DEF PoolInit, PoolInv, NoConnectionShared

\* Taking the front of the queue preserves it, for a thread that has no connection.
LEMMA AcquireInv ==
    ASSUME NEW t \in Threads, PoolInv, conn[t] = NoConn, Acquire(t)
    PROVE  PoolInv'
<1>1. /\ connQueue_ \in Seq(Conns) /\ connQueue_ # << >>
      /\ connQueue_' = Tail(connQueue_)
      /\ conn' = [conn EXCEPT ![t] = connQueue_[1]]
    BY DEF PoolInv, Acquire
<1>2. /\ connQueue_' \in Seq(Conns)
      /\ Len(connQueue_') = Len(connQueue_) - 1
      /\ \A i \in DOMAIN connQueue_' :
            /\ i \in DOMAIN connQueue_ /\ i + 1 \in DOMAIN connQueue_
            /\ i + 1 # 1 /\ connQueue_'[i] = connQueue_[i + 1]
    BY <1>1
<1>3. 1 \in DOMAIN connQueue_ /\ connQueue_[1] \in Conns /\ connQueue_[1] # NoConn
    BY <1>1, PoolAssumption
<1>4. conn' \in [Threads -> Conns \cup {NoConn}]
    BY <1>1, <1>3 DEF PoolInv
<1>5. \A u \in Threads : conn'[u] = IF u = t THEN connQueue_[1] ELSE conn[u]
    BY <1>1 DEF PoolInv
<1>6. \A i, j \in DOMAIN connQueue_' : connQueue_'[i] = connQueue_'[j] => i = j
  <2> SUFFICES ASSUME NEW i \in DOMAIN connQueue_', NEW j \in DOMAIN connQueue_',
                      connQueue_'[i] = connQueue_'[j]
               PROVE  i = j
      OBVIOUS
  <2>1. i + 1 = j + 1
      BY <1>2 DEF PoolInv, NoConnectionShared
  <2>2. i \in Nat /\ j \in Nat
      BY <1>2
  <2> QED
      BY <2>1, <2>2
<1>7. \A u, w \in Threads : conn'[u] = conn'[w] => conn'[u] = NoConn \/ u = w
    BY <1>3, <1>5 DEF PoolInv, NoConnectionShared
<1>8. \A u \in Threads : \A i \in DOMAIN connQueue_' : conn'[u] # connQueue_'[i]
    BY <1>2, <1>3, <1>5 DEF PoolInv, NoConnectionShared
<1>9. \A u \in waiting' : conn'[u] = NoConn
    BY <1>5 DEF PoolInv, NoConnectionShared, Acquire
<1>10. waiting' \subseteq Threads /\ notified' \subseteq waiting'
    BY DEF PoolInv, NoConnectionShared, Acquire
<1> QED
    BY <1>2, <1>4, <1>6, <1>7, <1>8, <1>9, <1>10 DEF PoolInv, NoConnectionShared

\* So does going to sleep.
LEMMA SleepInv ==
    ASSUME NEW t \in Threads, PoolInv, conn[t] = NoConn, Sleep(t)
    PROVE  PoolInv'
BY DEF PoolInv, NoConnectionShared, Sleep

\* So does giving a connection back: it was in no other place.
LEMMA ReturnInv ==
    ASSUME NEW t \in Threads, PoolInv, Return(t)
    PROVE  PoolInv'
<1> DEFINE n == Len(connQueue_) + 1
<1>1. /\ connQueue_ \in Seq(Conns) /\ conn[t] \in Conns
      /\ connQueue_' = Append(connQueue_, conn[t])
      /\ conn' = [conn EXCEPT ![t] = NoConn]
    BY DEF PoolInv, Return
<1>2. /\ connQueue_' \in Seq(Conns)
      /\ \A i \in DOMAIN connQueue_' : i \in DOMAIN connQueue_ \/ i = n
      /\ \A i \in DOMAIN connQueue_ : connQueue_'[i] = connQueue_[i] /\ i # n
      /\ connQueue_'[n] = conn[t]
    BY <1>1
<1>3. /\ conn' \in [Threads -> Conns \cup {NoConn}]
      /\ \A u \in Threads : conn'[u] = IF u = t THEN NoConn ELSE conn[u]
    BY <1>1 DEF PoolInv
<1>4. \A i, j \in DOMAIN connQueue_' : connQueue_'[i] = connQueue_'[j] => i = j
    BY <1>2 DEF PoolInv, NoConnectionShared
<1>5. \A u, w \in Threads : conn'[u] = conn'[w] => conn'[u] = NoConn \/ u = w
    BY <1>3 DEF PoolInv, NoConnectionShared
<1>6. \A i \in DOMAIN connQueue_' : connQueue_'[i] \in Conns
    BY <1>2
<1>7. \A u \in Threads : \A i \in DOMAIN connQueue_' : conn'[u] # connQueue_'[i]
  <2> SUFFICES ASSUME NEW u \in Threads, NEW i \in DOMAIN connQueue_'
               PROVE  conn'[u] # connQueue_'[i]
      OBVIOUS
  <2>1. CASE u = t
      BY <2>1, <1>3, <1>6, PoolAssumption
  <2>2. CASE u # t /\ i = n
      BY <2>2, <1>1, <1>2, <1>3, PoolAssumption DEF PoolInv, NoConnectionShared
  <2>3. CASE u # t /\ i # n
      BY <2>3, <1>2, <1>3 DEF PoolInv, NoConnectionShared
  <2> QED
      BY <2>1, <2>2, <2>3
<1>8. /\ waiting' = waiting
      /\ \A u \in waiting' : conn'[u] = NoConn
      /\ notified' \subseteq waiting'
    BY <1>3 DEF PoolInv, NoConnectionShared, Return, NotifyOne
<1> QED
    BY <1>2, <1>3, <1>4, <1>5, <1>7, <1>8 DEF PoolInv, NoConnectionShared

\* Every step of the pool preserves the invariant.
LEMMA PoolStepInv ==
    ASSUME PoolInv, [\E t \in Threads : PoolStep(t)]_poolVars
    PROVE  PoolInv'
<1>1. CASE UNCHANGED poolVars
    BY <1>1 DEF PoolInv, NoConnectionShared, poolVars
<1>2. ASSUME NEW t \in Threads, PoolStep(t) PROVE PoolInv'
  <2>1. CASE GetConnection(t)
      BY <2>1, AcquireInv, SleepInv DEF GetConnection
  <2>2. CASE Wake(t)
    <3>1. conn[t] = NoConn
        BY <2>2 DEF Wake, PoolInv, NoConnectionShared
    <3> QED
        BY <2>2, <3>1, AcquireInv, SleepInv DEF Wake
  <2>3. CASE Return(t)
      BY <2>3, ReturnInv
  <2> QED
      BY <1>2, <2>1, <2>2, <2>3 DEF PoolStep
<1> QED
    BY <1>1, <1>2

\* Threads that take and return connections as getConnection and its deleter do never
\* share one, however many there are of either.
THEOREM PoolNeverShares == PoolSpec => []NoConnectionShared
<1>1. PoolInit => PoolInv
    BY PoolInitInv
<1>2. PoolInv /\ [\E t \in Threads : PoolStep(t)]_poolVars => PoolInv'
    BY PoolStepInv
<1>3. PoolInv => NoConnectionShared
    BY DEF PoolInv
<1> QED
    BY <1>1, <1>2, <1>3, PTL DEF PoolSpec

\* A step of the publisher, of a reader or of the network is a step of the pool or
\* leaves it alone.
LEMMA MarketStepIsPoolStep ==
    [MNext]_marketVars => [\E t \in Threads : PoolStep(t)]_poolVars
<1> SUFFICES ASSUME [MNext]_marketVars
             PROVE  [\E t \in Threads : PoolStep(t)]_poolVars
    OBVIOUS
<1>1. CASE UNCHANGED marketVars
    BY <1>1 DEF marketVars
<1>2. CASE PushRecords \/ TakeBatch \/ Zadd \/ LoseBatch
    BY <1>2 DEF PushRecords, TakeBatch, Zadd, LoseBatch
<1>3. CASE PublisherConnects \/ PublisherReturns
  <2>1. Publisher \in Threads
      BY MarketDataAssumption
  <2>2. PoolStep(Publisher)
      BY <1>3 DEF PublisherConnects, PublisherReturns, PoolStep
  <2> QED
      BY <2>1, <2>2
<1>4. ASSUME NEW v \in Viewers, View(v)
      PROVE  [\E t \in Threads : PoolStep(t)]_poolVars
  <2>1. v \in Threads
      BY MarketDataAssumption
  <2>2. CASE ViewerConnects(v) \/ ViewerReturns(v)
    <3>1. PoolStep(v)
        BY <2>2 DEF ViewerConnects, ViewerReturns, PoolStep
    <3> QED
        BY <2>1, <3>1
  <2>3. CASE GetTrend(v)
      BY <2>3 DEF GetTrend
  <2> QED
      BY <1>4, <2>2, <2>3 DEF View
<1>5. CASE \E c \in Conns : Break(c)
    BY <1>5 DEF Break
<1> QED
    BY <1>1, <1>2, <1>3, <1>4, <1>5 DEF MNext, Publish

\* The market data components use RedisPool as it is meant to be used: their behaviours
\* are behaviours of the pool.
THEOREM MarketDataUsesPool == MSpec => PoolSpec
<1>1. MInit => PoolInit
    BY DEF MInit
<1>2. [MNext]_marketVars => [\E t \in Threads : PoolStep(t)]_poolVars
    BY MarketStepIsPoolStep
<1> QED
    BY <1>1, <1>2, PTL DEF MSpec, PoolSpec

\* So the publisher and a handler that reads the trend never speak on one connection.
THEOREM MarketDataNeverShares == MSpec => []NoConnectionShared
BY PoolNeverShares, MarketDataUsesPool, PTL

-----------------------------------------------------------------------------
(***************************************************************************)
(* The history of trades.  The trades are those handled, those in the      *)
(* batch and those in the queue, in this order, so a ZADD never writes an  *)
(* earlier trade over a later one, whatever the clock said at each.        *)
(***************************************************************************)

Done == Len(matched) - Len(queue_) - Len(batch)

InLine ==
    /\ matched \in Seq(Trade) /\ queue_ \in Seq(Trade) /\ batch \in Seq(Trade)
    /\ Done \in Nat
    /\ \A i \in DOMAIN batch : batch[i] = matched[Done + i]
    /\ \A i \in DOMAIN queue_ : queue_[i] = matched[Done + Len(batch) + i]

HistoryInv == InLine /\ lost \subseteq Handled /\ HistoryExact

LEMMA LenOf == ASSUME NEW S, NEW s \in Seq(S)
               PROVE  Len(s) \in Nat /\ DOMAIN s = 1 .. Len(s) /\ \A i \in 1 .. Len(s) : s[i] \in S
BY LenProperties, ElementOfSeq

LEMMA InitHistoryInv == MInit => HistoryInv
<1> SUFFICES ASSUME MInit PROVE HistoryInv
    OBVIOUS
<1>1. /\ << >> \in Seq(Trade) /\ Len(<< >>) = 0 /\ DOMAIN << >> = {}
    BY EmptySeq
<1>2. Done = 0 /\ Handled = {}
  <2>1. Len(matched) = 0 /\ Len(queue_) = 0 /\ Len(batch) = 0
      BY <1>1 DEF MInit
  <2>2. Done = 0
      BY <2>1 DEF Done
  <2>3. 1 .. Done = {}
      BY <2>2
  <2>4. Handled = 1 .. Done
      BY DEF Handled, Done
  <2> QED
      BY <2>2, <2>3, <2>4
<1>3. InLine
    BY <1>1, <1>2 DEF MInit, InLine
<1>4. HistoryExact
  <2>1. Written = {} /\ DOMAIN zset = {}
      BY <1>1, <1>2 DEF MInit, Written
  <2> QED
      BY <2>1 DEF HistoryExact
<1> QED
    BY <1>2, <1>3, <1>4 DEF MInit, HistoryInv

\* What was written stays so while the trades handled and lost do.
LEMMA WrittenKept ==
    ASSUME Handled' = Handled, lost' = lost, \A n \in Handled : matched'[n] = matched[n]
    PROVE  Written' = Written
BY DEF Written

LEMMA PushInLine ==
    ASSUME InLine, PushRecords
    PROVE  InLine' /\ Handled' = Handled /\ \A n \in Handled : matched'[n] = matched[n]
<1>1. PICK tape \in Tapes :
         /\ Len(matched) < Len(tape) /\ IsPrefix(matched, tape)
         /\ matched' = Append(matched, tape[Len(matched) + 1])
         /\ queue_' = Append(queue_, tape[Len(matched) + 1])
    BY DEF PushRecords
<1>2. PICK m, q, b : m = Len(matched) /\ q = Len(queue_) /\ b = Len(batch)
    OBVIOUS
<1>3. PICK rec : rec = tape[m + 1]
    OBVIOUS
<1>4. /\ m \in Nat /\ DOMAIN matched = 1 .. m
      /\ q \in Nat /\ DOMAIN queue_ = 1 .. q
      /\ b \in Nat /\ DOMAIN batch = 1 .. b
    BY <1>2, LenOf DEF InLine
<1>5. tape \in Seq(Trade)
    BY MarketDataAssumption
<1>6. Len(tape) \in Nat /\ DOMAIN tape = 1 .. Len(tape) /\ \A i \in 1 .. Len(tape) : tape[i] \in Trade
    BY <1>5, LenOf
<1>7. m + 1 \in 1 .. Len(tape) /\ rec \in Trade
    BY <1>1, <1>2, <1>3, <1>4, <1>6
<1>9. /\ matched' \in Seq(Trade) /\ Len(matched') = m + 1
      /\ \A i \in 1 .. m : matched'[i] = matched[i]
      /\ matched'[m + 1] = rec
  <2>1. matched' = Append(matched, rec) /\ matched \in Seq(Trade)
      BY <1>1, <1>2, <1>3 DEF InLine
  <2> QED
      BY <1>2, <1>7, <2>1, AppendProperties
<1>10. /\ queue_' \in Seq(Trade) /\ Len(queue_') = q + 1
       /\ \A i \in 1 .. q : queue_'[i] = queue_[i]
       /\ queue_'[q + 1] = rec
  <2>1. queue_' = Append(queue_, rec) /\ queue_ \in Seq(Trade)
      BY <1>1, <1>2, <1>3 DEF InLine
  <2> QED
      BY <1>2, <1>7, <2>1, AppendProperties
<1>11. DOMAIN matched' = 1 .. m + 1 /\ DOMAIN queue_' = 1 .. q + 1
    BY <1>9, <1>10, LenOf
<1>12. batch' = batch
    BY DEF PushRecords
<1>13. PICK d \in Nat : d = Done /\ d = m - q - b
    BY <1>2 DEF InLine, Done
<1>14. Done' = d
    BY <1>2, <1>4, <1>9, <1>10, <1>12, <1>13 DEF Done
<1>16. \A i \in DOMAIN batch : batch[i] = matched'[d + i]
  <2>1. ASSUME NEW i \in 1 .. b PROVE d + i \in 1 .. m
      BY <1>4, <1>13
  <2> QED
      BY <1>4, <1>9, <1>13, <2>1 DEF InLine
<1>17. \A i \in DOMAIN queue_' : queue_'[i] = matched'[d + b + i]
  <2>1. ASSUME NEW i \in 1 .. q PROVE queue_'[i] = matched'[d + b + i]
    <3>1. d + b + i \in 1 .. m
        BY <1>4, <1>13
    <3>2. queue_[i] = matched[d + b + i]
        BY <1>2, <1>4, <1>13 DEF InLine
    <3> QED
        BY <1>9, <1>10, <3>1, <3>2
  <2>2. d + b + (q + 1) = m + 1
      BY <1>4, <1>13
  <2>3. \A i \in DOMAIN queue_' : i \in 1 .. q \/ i = q + 1
      BY <1>4, <1>11
  <2> QED
      BY <1>9, <1>10, <2>1, <2>2, <2>3
<1>18. InLine'
    BY <1>2, <1>9, <1>10, <1>12, <1>13, <1>14, <1>16, <1>17 DEF InLine
<1>19. Handled = 1 .. d /\ Handled' = 1 .. d
    BY <1>13, <1>14 DEF Handled, Done
<1>20. \A n \in 1 .. d : n \in 1 .. m
    BY <1>4, <1>13
<1> QED
    BY <1>9, <1>18, <1>19, <1>20

LEMMA TakeInLine ==
    ASSUME InLine, TakeBatch
    PROVE  InLine' /\ Handled' = Handled
<1>1. PICK k \in 1 .. Len(queue_) :
         /\ batch' = SubSeq(queue_, 1, k) /\ queue_' = SubSeq(queue_, k + 1, Len(queue_))
    BY DEF TakeBatch, DequeueBulk
<1>2. batch = << >> /\ matched' = matched
    BY DEF TakeBatch
<1>3. PICK m, q : m = Len(matched) /\ q = Len(queue_)
    OBVIOUS
<1>4. /\ m \in Nat /\ q \in Nat /\ k \in 1 .. q /\ Len(batch) = 0
      /\ \A i \in 1 .. q : queue_[i] \in Trade
  <2>1. Len(batch) = 0
      BY <1>2, EmptySeq
  <2> QED
      BY <1>1, <1>3, <2>1, LenOf DEF InLine
<1>5. PICK d \in Nat : d = Done /\ d = m - q
    BY <1>3, <1>4 DEF InLine, Done
<1>6. /\ batch' \in Seq(Trade) /\ Len(batch') = k
      /\ \A i \in 1 .. k : batch'[i] = queue_[i]
  <2>1. \A i \in 1 .. k : queue_[i] \in Trade
      BY <1>4
  <2>2. /\ SubSeq(queue_, 1, k) \in Seq(Trade)
        /\ Len(SubSeq(queue_, 1, k)) = IF 1 <= k THEN k - 1 + 1 ELSE 0
        /\ \A i \in 1 .. k - 1 + 1 : SubSeq(queue_, 1, k)[i] = queue_[1 + i - 1]
      BY <1>4, <2>1, SubSeqProperties
  <2>3. \A i \in 1 .. k : i \in 1 .. k - 1 + 1 /\ 1 + i - 1 = i
      BY <1>4
  <2> QED
      BY <1>1, <1>4, <2>2, <2>3
<1>7. /\ queue_' \in Seq(Trade) /\ Len(queue_') = q - k
      /\ \A i \in 1 .. q - k : queue_'[i] = queue_[k + i]
  <2>1. \A i \in k + 1 .. q : queue_[i] \in Trade
      BY <1>4
  <2>2. /\ SubSeq(queue_, k + 1, q) \in Seq(Trade)
        /\ Len(SubSeq(queue_, k + 1, q)) = IF k + 1 <= q THEN q - (k + 1) + 1 ELSE 0
        /\ \A i \in 1 .. q - (k + 1) + 1 : SubSeq(queue_, k + 1, q)[i] = queue_[(k + 1) + i - 1]
      BY <1>4, <2>1, SubSeqProperties
  <2>3. \A i \in 1 .. q - k : i \in 1 .. q - (k + 1) + 1 /\ (k + 1) + i - 1 = k + i
      BY <1>4
  <2>4. (IF k + 1 <= q THEN q - (k + 1) + 1 ELSE 0) = q - k
      BY <1>4
  <2> QED
      BY <1>1, <1>3, <2>2, <2>3, <2>4
<1>8. DOMAIN batch' = 1 .. k /\ DOMAIN queue_' = 1 .. q - k
    BY <1>6, <1>7, LenOf
<1>9. Done' = d
    BY <1>2, <1>3, <1>4, <1>5, <1>6, <1>7 DEF Done
<1>10. \A i \in 1 .. q : queue_[i] = matched[d + i]
  <2>1. DOMAIN queue_ = 1 .. q
      BY <1>3, LenOf DEF InLine
  <2>2. \A i \in 1 .. q : d + 0 + i = d + i
      BY <1>5
  <2> QED
      BY <1>4, <1>5, <2>1, <2>2 DEF InLine
<1>11. \A i \in DOMAIN batch' : batch'[i] = matched[d + i]
    BY <1>4, <1>6, <1>8, <1>10
<1>12. \A i \in DOMAIN queue_' : queue_'[i] = matched[d + k + i]
  <2>1. \A i \in 1 .. q - k : k + i \in 1 .. q /\ d + (k + i) = d + k + i
      BY <1>4, <1>5
  <2> QED
      BY <1>7, <1>8, <1>10, <2>1
<1>13. InLine'
    BY <1>2, <1>5, <1>6, <1>7, <1>9, <1>11, <1>12 DEF InLine
<1>14. Handled' = Handled
    BY <1>5, <1>9 DEF Handled, Done
<1> QED
    BY <1>13, <1>14

\* The next trade of the batch is written, or given up with the others.
LEMMA ZaddInLine ==
    ASSUME InLine, Zadd
    PROVE  /\ InLine' /\ Done + 1 \in DOMAIN matched /\ Head(batch) = matched[Done + 1]
           /\ Handled = 1 .. Done /\ Handled' = 1 .. Done + 1
<1>1. batch # << >> /\ batch' = Tail(batch) /\ matched' = matched /\ queue_' = queue_
    BY DEF Zadd
<1>2. PICK m, q, b : m = Len(matched) /\ q = Len(queue_) /\ b = Len(batch)
    OBVIOUS
<1>3. /\ m \in Nat /\ DOMAIN matched = 1 .. m
      /\ q \in Nat /\ DOMAIN queue_ = 1 .. q
      /\ b \in Nat /\ DOMAIN batch = 1 .. b /\ b # 0
    BY <1>1, <1>2, LenOf, EmptySeq DEF InLine
<1>4. PICK d \in Nat : d = Done /\ d = m - q - b
    BY <1>2 DEF InLine, Done
<1>5. /\ batch' \in Seq(Trade) /\ Len(batch') = b - 1
      /\ \A i \in 1 .. b - 1 : batch'[i] = batch[i + 1]
  <2>1. /\ Tail(batch) \in Seq(Trade) /\ Len(Tail(batch)) = b - 1
        /\ \A i \in 1 .. Len(Tail(batch)) : Tail(batch)[i] = batch[i + 1]
      BY <1>1, <1>2, HeadTailProperties DEF InLine
  <2> QED
      BY <1>1, <2>1
<1>6. DOMAIN batch' = 1 .. b - 1
    BY <1>5, LenOf
<1>7. Done' = d + 1
    BY <1>1, <1>2, <1>3, <1>4, <1>5 DEF Done
<1>8. /\ \A i \in 1 .. b : batch[i] = matched[d + i]
      /\ \A i \in 1 .. q : queue_[i] = matched[d + b + i]
    BY <1>2, <1>3, <1>4 DEF InLine
<1>9. \A i \in DOMAIN batch' : batch'[i] = matched[(d + 1) + i]
  <2>1. \A i \in 1 .. b - 1 : i + 1 \in 1 .. b /\ d + (i + 1) = (d + 1) + i
      BY <1>3, <1>4
  <2> QED
      BY <1>5, <1>6, <1>8, <2>1
<1>10. \A i \in DOMAIN queue_ : queue_[i] = matched[(d + 1) + (b - 1) + i]
  <2>1. \A i \in 1 .. q : d + b + i = (d + 1) + (b - 1) + i
      BY <1>3, <1>4
  <2> QED
      BY <1>3, <1>8, <2>1
<1>11. InLine'
    BY <1>1, <1>4, <1>5, <1>7, <1>9, <1>10 DEF InLine
<1>12. Done + 1 \in DOMAIN matched /\ Head(batch) = matched[Done + 1]
  <2>1. Head(batch) = batch[1]
      BY <1>1 DEF InLine
  <2>2. 1 \in 1 .. b /\ d + 1 \in 1 .. m
      BY <1>3, <1>4
  <2> QED
      BY <1>3, <1>4, <1>8, <2>1, <2>2
<1>13. Handled = 1 .. Done /\ Handled' = 1 .. Done + 1
    BY <1>4, <1>7 DEF Handled, Done
<1> QED
    BY <1>11, <1>12, <1>13

LEMMA LoseInLine ==
    ASSUME InLine, LoseBatch
    PROVE  InLine' /\ Handled \subseteq Handled' /\ lost' = lost \cup (Handled' \ Handled)
<1>1. batch' = << >> /\ matched' = matched /\ queue_' = queue_
    BY DEF LoseBatch
<1>2. PICK m, q, b : m = Len(matched) /\ q = Len(queue_) /\ b = Len(batch)
    OBVIOUS
<1>3. /\ m \in Nat /\ DOMAIN matched = 1 .. m
      /\ q \in Nat /\ DOMAIN queue_ = 1 .. q
      /\ b \in Nat /\ DOMAIN batch = 1 .. b
    BY <1>2, LenOf DEF InLine
<1>4. PICK d \in Nat : d = Done /\ d = m - q - b
    BY <1>2 DEF InLine, Done
<1>5. batch' \in Seq(Trade) /\ Len(batch') = 0 /\ DOMAIN batch' = {}
    BY <1>1, EmptySeq
<1>6. Done' = d + b
    BY <1>1, <1>2, <1>3, <1>4, <1>5 DEF Done
<1>7. /\ \A i \in 1 .. b : batch[i] = matched[d + i]
      /\ \A i \in 1 .. q : queue_[i] = matched[d + b + i]
    BY <1>2, <1>3, <1>4 DEF InLine
<1>8. \A i \in DOMAIN queue_ : queue_[i] = matched[(d + b) + 0 + i]
  <2>1. \A i \in 1 .. q : d + b + i = (d + b) + 0 + i
      BY <1>3, <1>4
  <2> QED
      BY <1>3, <1>7, <2>1
<1>9. InLine'
  <2>1. d + b \in Nat
      BY <1>3, <1>4
  <2> QED
      BY <1>1, <1>5, <1>6, <1>8, <2>1 DEF InLine
<1>10. Handled = 1 .. d /\ Handled' = 1 .. d + b
    BY <1>4, <1>6 DEF Handled, Done
<1>11. d + b = m - q /\ \A n \in 1 .. d : n \in 1 .. d + b
    BY <1>3, <1>4
<1>12. lost' = lost \cup ((1 .. d + b) \ Handled)
    BY <1>2, <1>11 DEF LoseBatch
<1> QED
    BY <1>9, <1>10, <1>11, <1>12

\* The other steps leave what HistoryInv speaks of alone.
LEMMA HistoryRests ==
    ASSUME [MNext]_marketVars
    PROVE  \/ PushRecords \/ TakeBatch \/ Zadd \/ LoseBatch
           \/ UNCHANGED <<matched, queue_, batch, zset, lost>>
<1>1. CASE UNCHANGED marketVars
    BY <1>1 DEF marketVars, dataVars
<1>2. CASE PublisherConnects \/ PublisherReturns
    BY <1>2 DEF PublisherConnects, PublisherReturns, dataVars
<1>3. ASSUME NEW v \in Viewers, View(v) PROVE UNCHANGED <<matched, queue_, batch, zset, lost>>
    BY <1>3 DEF View, ViewerConnects, GetTrend, ViewerReturns, dataVars
<1>4. CASE \E c \in Conns : Break(c)
    BY <1>4 DEF Break
<1> QED
    BY <1>1, <1>2, <1>3, <1>4 DEF MNext, Publish

\* A ZADD writes the trade after all that were handled before.
LEMMA ZaddHistory ==
    ASSUME HistoryInv, Zadd
    PROVE  HistoryInv'
<1>1. /\ InLine' /\ Done + 1 \in DOMAIN matched /\ Head(batch) = matched[Done + 1]
      /\ Handled = 1 .. Done /\ Handled' = 1 .. Done + 1
    BY ZaddInLine DEF HistoryInv
<1>2. PICK rec, d, w : rec = Head(batch) /\ d = Done + 1 /\ w = [n |-> d, trade |-> rec]
    OBVIOUS
<1>3. /\ zset' = [x \in DOMAIN zset \cup {rec.text} |->
                     IF x = rec.text THEN Score(rec.timestamp) ELSE zset[x]]
      /\ lost' = lost /\ matched' = matched
    BY <1>2 DEF Zadd
<1>4. Done \in Nat /\ d \in Nat /\ Handled' = Handled \cup {d} /\ d \notin Handled
      /\ \A n \in Handled : n \in Nat /\ n =< d
    BY <1>1, <1>2 DEF HistoryInv, InLine
<1>5. rec = matched[d] /\ w.n = d /\ w.trade = rec
    BY <1>1, <1>2
<1>6. Written' = Written \cup {w}
  <2>1. Handled' \ lost = (Handled \ lost) \cup {d}
      BY <1>4 DEF HistoryInv
  <2>2. Written' = {[n |-> n, trade |-> matched[n]] : n \in Handled' \ lost}
      BY <1>3 DEF Written
  <2> QED
      BY <1>2, <1>5, <2>1, <2>2 DEF Written
<1>7. \A r \in Written : r.n =< d
    BY <1>4 DEF Written
<1>8. HistoryExact'
  <2>1. DOMAIN zset' = DOMAIN zset \cup {rec.text}
      BY <1>3
  <2>2. DOMAIN zset' = {r.trade.text : r \in Written'}
      BY <1>5, <1>6, <2>1 DEF HistoryInv, HistoryExact
  <2>3. ASSUME NEW text \in DOMAIN zset'
        PROVE  \E last \in Written' :
                  IsLast(last, text, Written') /\ zset'[text] = Score(last.trade.timestamp)
    <3>1. CASE text = rec.text
      <4>1. zset'[text] = Score(rec.timestamp)
          BY <1>3, <2>1, <3>1
      <4>2. \A r \in Written' : r.n =< w.n
          BY <1>4, <1>5, <1>6, <1>7
      <4>3. IsLast(w, text, Written')
          BY <1>5, <1>6, <3>1, <4>2 DEF IsLast
      <4> QED
          BY <1>5, <1>6, <4>1, <4>3
    <3>2. CASE text # rec.text
      <4>1. text \in DOMAIN zset /\ zset'[text] = zset[text]
          BY <1>3, <2>1, <3>2
      <4>2. PICK last \in Written :
               IsLast(last, text, Written) /\ zset[text] = Score(last.trade.timestamp)
          BY <4>1 DEF HistoryInv, HistoryExact
      <4>3. IsLast(last, text, Written')
          BY <1>5, <1>6, <3>2, <4>2 DEF IsLast
      <4> QED
          BY <1>6, <4>1, <4>2, <4>3
    <3> QED
        BY <3>1, <3>2
  <2> QED
      BY <2>2, <2>3 DEF HistoryExact
<1>9. lost' \subseteq Handled'
    BY <1>3, <1>4 DEF HistoryInv
<1> QED
    BY <1>1, <1>8, <1>9 DEF HistoryInv

LEMMA StepHistoryInv == HistoryInv /\ [MNext]_marketVars => HistoryInv'
<1> SUFFICES ASSUME HistoryInv, [MNext]_marketVars PROVE HistoryInv'
    OBVIOUS
<1>1. ASSUME InLine', Handled' = Handled, \A n \in Handled : matched'[n] = matched[n],
             zset' = zset, lost' = lost
      PROVE  HistoryInv'
  <2>1. Written' = Written
      BY <1>1, WrittenKept
  <2> QED
      BY <1>1, <2>1 DEF HistoryInv, HistoryExact
<1>2. CASE PushRecords
    BY <1>1, <1>2, PushInLine DEF HistoryInv, PushRecords
<1>3. CASE TakeBatch
    BY <1>1, <1>3, TakeInLine DEF HistoryInv, TakeBatch
<1>4. CASE Zadd
    BY <1>4, ZaddHistory
<1>5. CASE LoseBatch
  <2>1. InLine' /\ Handled \subseteq Handled' /\ lost' = lost \cup (Handled' \ Handled)
      BY <1>5, LoseInLine DEF HistoryInv
  <2>2. matched' = matched /\ zset' = zset
      BY <1>5 DEF LoseBatch
  <2>3. Handled' \ lost' = Handled \ lost /\ lost' \subseteq Handled'
      BY <2>1 DEF HistoryInv
  <2>4. Written' = Written
      BY <2>2, <2>3 DEF Written
  <2> QED
      BY <2>1, <2>2, <2>3, <2>4 DEF HistoryInv, HistoryExact
<1>6. CASE UNCHANGED <<matched, queue_, batch, zset, lost>>
  <2>1. InLine' /\ Handled' = Handled
      BY <1>6 DEF HistoryInv, InLine, Done, Handled
  <2> QED
      BY <1>1, <1>6, <2>1
<1> QED
    BY <1>2, <1>3, <1>4, <1>5, <1>6, HistoryRests

\* The sorted set in Redis holds, of every text, the time of the last of its trades that
\* reached Redis: the publisher takes the records in the order of trade and writes them in
\* that order, and of a batch on a connection that breaks the rest is lost and nothing is
\* written later, however batches are cut, connections shared and the clock set.
THEOREM HistoryAlwaysExact == MSpec => []HistoryExact
<1>1. HistoryInv => HistoryExact
    BY DEF HistoryInv
<1> QED
    BY <1>1, InitHistoryInv, StepHistoryInv, PTL DEF MSpec

-----------------------------------------------------------------------------
(***************************************************************************)
(* The trend.  RevOrder is a strict total order of the texts in the sorted *)
(* set, so each rank belongs to one text, and the scores say when a text   *)
(* was last traded.                                                        *)
(***************************************************************************)

\* The image of a finite set under a function is finite.
LEMMA ImageFinite ==
    ASSUME NEW f, IsFiniteSet(DOMAIN f)
    PROVE  IsFiniteSet({f[x] : x \in DOMAIN f})
<1> DEFINE T == {f[x] : x \in DOMAIN f}
           g == [x \in DOMAIN f |-> f[x]]
<1>1. g \in Surjection(DOMAIN f, T)
    BY DEF Surjection
<1> QED
    BY <1>1, FS_Surjection

WrittenTrade == [n : Nat, trade : Trade]

LEMMA WrittenFinite ==
    ASSUME HistoryInv
    PROVE  Written \subseteq WrittenTrade /\ IsFiniteSet(Written)
<1>1. /\ Len(matched) \in Nat /\ Len(queue_) \in Nat /\ Len(batch) \in Nat
      /\ \A i \in 1 .. Len(matched) : matched[i] \in Trade
    BY LenOf DEF HistoryInv, InLine
<1>2. Done \in Nat /\ \A n \in 1 .. Done : n \in 1 .. Len(matched)
    BY <1>1 DEF HistoryInv, InLine, Done
<1>3. Handled = 1 .. Done
    BY DEF Handled, Done
<1> DEFINE f == [n \in Handled \ lost |-> [n |-> n, trade |-> matched[n]]]
<1>4. Written = {f[n] : n \in DOMAIN f}
    BY DEF Written
<1>5. IsFiniteSet(DOMAIN f)
    BY <1>2, <1>3, FS_Interval, FS_Subset
<1>6. IsFiniteSet(Written)
  <2> HIDE DEF f
  <2> QED
      BY <1>4, <1>5, ImageFinite
<1>7. ASSUME NEW r \in Written PROVE r \in WrittenTrade
  <2>1. PICK n \in Handled : r = [n |-> n, trade |-> matched[n]]
      BY DEF Written
  <2> QED
      BY <1>1, <1>2, <1>3, <2>1 DEF WrittenTrade
<1> QED
    BY <1>6, <1>7

LEMMA TextsFinite ==
    ASSUME HistoryInv
    PROVE  /\ DOMAIN zset = {r.trade.text : r \in Written}
           /\ DOMAIN zset \subseteq Texts /\ IsFiniteSet(DOMAIN zset)
<1> DEFINE f == [r \in Written |-> r.trade.text]
<1>1. DOMAIN zset = {r.trade.text : r \in Written}
    BY DEF HistoryInv, HistoryExact
<1>2. DOMAIN zset = {f[r] : r \in DOMAIN f}
    BY <1>1
<1>3. IsFiniteSet(DOMAIN f)
    BY WrittenFinite
<1>4. IsFiniteSet(DOMAIN zset)
  <2> HIDE DEF f
  <2> QED
      BY <1>2, <1>3, ImageFinite
<1>5. DOMAIN zset \subseteq Texts
    BY <1>1, WrittenFinite DEF WrittenTrade, Trade
<1> QED
    BY <1>1, <1>4, <1>5

LEMMA ScoreNat == ASSUME NEW t \in Nat PROVE Score(t) \in Nat
<1>1. Ulp \in Nat /\ Ulp > 0
    BY MarketDataAssumption
<1>2. PICK low : low = t \div Ulp
    OBVIOUS
<1>3. low \in Nat
    BY <1>1, <1>2
<1>4. \A k \in Nat : k * Ulp \in Nat
    BY <1>1
<1>5. Score(t) = low * Ulp \/ Score(t) = (low + 1) * Ulp
    BY <1>2 DEF Score
<1> QED
    BY <1>3, <1>4, <1>5

\* The score of a text is that of its last trade.
LEMMA ScoreIsLast ==
    ASSUME HistoryInv, NEW x \in DOMAIN zset
    PROVE  zset[x] = Score(LastTraded(x, Written)) /\ zset[x] \in Nat
<1>1. PICK w \in Written : IsLast(w, x, Written) /\ zset[x] = Score(w.trade.timestamp)
    BY DEF HistoryInv, HistoryExact
<1>2. PICK last : last = CHOOSE r \in Written : IsLast(r, x, Written)
    OBVIOUS
<1>3. last \in Written /\ IsLast(last, x, Written)
    BY <1>1, <1>2
<1>4. w \in WrittenTrade /\ last \in WrittenTrade
    BY <1>3, WrittenFinite
<1>5. last.n = w.n
  <2>1. last.n =< w.n /\ w.n =< last.n
      BY <1>1, <1>3 DEF IsLast
  <2> QED
      BY <1>4, <2>1 DEF WrittenTrade
<1>6. last.trade = w.trade
  <2>1. \A r \in Written : r.trade = matched[r.n]
      BY DEF Written
  <2> QED
      BY <1>3, <1>5, <2>1
<1>7. LastTraded(x, Written) = w.trade.timestamp
    BY <1>2, <1>6 DEF LastTraded
<1> QED
    BY <1>1, <1>4, <1>7, ScoreNat DEF WrittenTrade, Trade

RevRel == {pair \in (DOMAIN zset) \X (DOMAIN zset) : RevOrder(pair[1], pair[2])}

LEMMA RevRelIs ==
    ASSUME NEW x \in DOMAIN zset, NEW y \in DOMAIN zset
    PROVE  <<x, y>> \in RevRel <=> RevOrder(x, y)
BY DEF RevRel

LEMMA RevRelTotal == ASSUME HistoryInv PROVE TotalOn(RevRel, DOMAIN zset)
<1>1. /\ \A x \in DOMAIN zset : zset[x] \in Nat /\ TextRank[x] \in Nat
      /\ \A x, y \in DOMAIN zset : TextRank[x] = TextRank[y] => x = y
    BY TextsFinite, ScoreIsLast, MarketDataAssumption
<1>2. \A x \in DOMAIN zset : ~ RevOrder(x, x)
    BY <1>1 DEF RevOrder
<1>3. \A x, y \in DOMAIN zset : x # y => RevOrder(x, y) \/ RevOrder(y, x)
    BY <1>1 DEF RevOrder
<1>4. \A x, y, z \in DOMAIN zset : RevOrder(x, y) /\ RevOrder(y, z) => RevOrder(x, z)
    BY <1>1 DEF RevOrder
<1> QED
    BY <1>2, <1>3, <1>4, RevRelIs DEF TotalOn

\* How many texts come before x.
Rank(x) == Cardinality(Before(DOMAIN zset, RevRel, x))

LEMMA RankedFound ==
    ASSUME HistoryInv, NEW k \in Nat, k < Cardinality(DOMAIN zset)
    PROVE  Ranked(k) \in DOMAIN zset /\ Rank(Ranked(k)) = k
<1>1. PICK x \in DOMAIN zset : Rank(x) = k
    BY TextsFinite, RevRelTotal, RankFound DEF Rank
<1>2. \A y \in DOMAIN zset :
         Before(DOMAIN zset, RevRel, y) = {z \in DOMAIN zset : RevOrder(z, y)}
    BY RevRelIs DEF Before
<1> QED
    BY <1>1, <1>2 DEF Rank, Ranked

\* What a reader is told of the sorted set.
TrendOf(told, D, score) ==
    /\ Len(told) = IF Cardinality(D) < Limit THEN Cardinality(D) ELSE Limit
    /\ Range(told) \subseteq D
    /\ \A i, j \in DOMAIN told : i < j => told[i] # told[j] /\ score[told[i]] =< score[told[j]]
    /\ \A x \in D \ Range(told), i \in DOMAIN told : score[x] =< score[told[i]]

LEMMA TrendOfSet ==
    ASSUME HistoryInv
    PROVE  TrendTexts \in Seq(Texts) /\ TrendOf(TrendTexts, DOMAIN zset, zset)
<1>1. PICK told, n, all : told = TrendTexts /\ n = RangeLen /\ all = Cardinality(DOMAIN zset)
    OBVIOUS
<1>2. all \in Nat /\ n \in Nat /\ n =< all /\ n = (IF all < Limit THEN all ELSE Limit)
    BY <1>1, TextsFinite, FS_CardinalityType, MarketDataAssumption DEF RangeLen
<1>3. told = [i \in 1 .. n |-> Ranked(n - i)]
    BY <1>1 DEF TrendTexts
<1>4. ASSUME NEW i \in 1 .. n
      PROVE  told[i] \in DOMAIN zset /\ Rank(told[i]) = n - i
  <2>1. n - i \in Nat /\ n - i < all
      BY <1>2
  <2> QED
      BY <1>1, <1>3, <2>1, RankedFound
<1>5. DOMAIN told = 1 .. n /\ told \in Seq(DOMAIN zset) /\ Len(told) = n
    BY <1>2, <1>3, <1>4
<1>6. told \in Seq(Texts)
    BY <1>3, <1>4, <1>2, TextsFinite
<1>7. \A x \in DOMAIN zset : zset[x] \in Nat
    BY ScoreIsLast
<1>8. ASSUME NEW x \in DOMAIN zset, NEW y \in DOMAIN zset, Rank(x) < Rank(y)
      PROVE  zset[y] =< zset[x]
  <2>1. RevOrder(x, y)
      BY <1>8, TextsFinite, RevRelTotal, RankOrders, RevRelIs DEF Rank
  <2> QED
      BY <1>7, <2>1 DEF RevOrder
<1>9. ASSUME NEW i \in DOMAIN told, NEW j \in DOMAIN told, i < j
      PROVE  told[i] # told[j] /\ zset[told[i]] =< zset[told[j]]
  <2>1. /\ told[i] \in DOMAIN zset /\ told[j] \in DOMAIN zset
        /\ Rank(told[i]) = n - i /\ Rank(told[j]) = n - j /\ n - j < n - i
      BY <1>2, <1>4, <1>5, <1>9
  <2>2. n - j # n - i
      BY <1>2, <1>5, <1>9
  <2> QED
      BY <1>8, <2>1, <2>2
<1>10. ASSUME NEW x \in DOMAIN zset \ Range(told), NEW i \in DOMAIN told
       PROVE  zset[x] =< zset[told[i]]
  <2>1. Rank(x) \in Nat
      BY TextsFinite, RevRelTotal, BeforeCard DEF Rank
  <2>2. CASE Rank(x) < n
    <3>1. PICK j \in 1 .. n : Rank(x) = n - j
      <4>1. n - Rank(x) \in 1 .. n /\ n - (n - Rank(x)) = Rank(x)
          BY <1>2, <2>1, <2>2
      <4> QED
          BY <4>1
    <3>2. x = told[j]
        BY <1>4, <3>1, TextsFinite, RevRelTotal, RankOnce DEF Rank
    <3> QED
        BY <1>5, <3>2 DEF Range
  <2>3. CASE ~ (Rank(x) < n)
    <3>1. told[i] \in DOMAIN zset /\ Rank(told[i]) < Rank(x)
        BY <1>2, <1>4, <1>5, <2>1, <2>3
    <3> QED
        BY <1>8, <3>1
  <2> QED
      BY <2>2, <2>3
<1>11. Range(told) \subseteq DOMAIN zset
    BY <1>4, <1>5 DEF Range
<1> QED
    BY <1>1, <1>2, <1>5, <1>6, <1>9, <1>10, <1>11 DEF TrendOf

\* A reader's reply is made of the sorted set in one step and is not changed afterwards.
TrendInv ==
    /\ HistoryInv
    /\ viewer \in [Viewers -> [at : {"asking", "told", "failed"}, prices : Seq(Texts),
                               before : SUBSET WrittenTrade]]
    /\ TrendInOrder

\* TrendInOrder for one reader.
Told(view) ==
    view.at = "told" =>
        LET told == view.prices
            before == view.before
            texts == {w.trade.text : w \in before}
            at(x) == Score(LastTraded(x, before))
        IN  /\ Len(told) = IF Cardinality(texts) < Limit THEN Cardinality(texts) ELSE Limit
            /\ Range(told) \subseteq texts
            /\ \A i, j \in DOMAIN told :
                  i < j => told[i] # told[j] /\ at(told[i]) =< at(told[j])
            /\ \A x \in texts \ Range(told), i \in DOMAIN told : at(x) =< at(told[i])

LEMMA TrendInOrderIs == TrendInOrder <=> \A v \in Viewers : Told(viewer[v])
BY DEF TrendInOrder, Told

LEMMA TrendTold ==
    ASSUME HistoryInv
    PROVE  Told([at |-> "told", prices |-> TrendTexts, before |-> Written])
<1>1. PICK told : told = TrendTexts
    OBVIOUS
<1>2. TrendOf(told, DOMAIN zset, zset)
    BY <1>1, TrendOfSet
<1>3. DOMAIN zset = {r.trade.text : r \in Written}
    BY TextsFinite
<1>4. \A x \in DOMAIN zset : Score(LastTraded(x, Written)) = zset[x]
    BY ScoreIsLast
<1>5. Range(told) \subseteq DOMAIN zset /\ \A i \in DOMAIN told : told[i] \in DOMAIN zset
    BY <1>2 DEF TrendOf, Range
<1> QED
    BY <1>1, <1>2, <1>3, <1>4, <1>5 DEF Told, TrendOf

LEMMA StepTrendInv == TrendInv /\ [MNext]_marketVars => TrendInv'
<1> SUFFICES ASSUME TrendInv, [MNext]_marketVars PROVE TrendInv'
    OBVIOUS
<1> DEFINE View_ == [at : {"asking", "told", "failed"}, prices : Seq(Texts),
                     before : SUBSET WrittenTrade]
<1>1. HistoryInv /\ viewer \in [Viewers -> View_] /\ \A v \in Viewers : Told(viewer[v])
    BY TrendInOrderIs DEF TrendInv
<1>2. HistoryInv'
    BY <1>1, StepHistoryInv
<1>3. ASSUME viewer' = viewer PROVE TrendInv'
    BY <1>1, <1>2, <1>3 DEF TrendInv, TrendInOrder
<1>4. ASSUME NEW v \in Viewers, GetTrend(v) PROVE TrendInv'
  <2>1. PICK e : /\ viewer' = [viewer EXCEPT ![v] = e]
                 /\ \/ e = [viewer[v] EXCEPT !.at = "failed"]
                    \/ e = [at |-> "told", prices |-> TrendTexts, before |-> Written]
      BY <1>4 DEF GetTrend
  <2>2. e \in View_ /\ Told(e)
    <3>1. CASE e = [viewer[v] EXCEPT !.at = "failed"]
      <4>1. viewer[v] \in View_
          BY <1>1
      <4>2. e \in View_ /\ e.at = "failed"
          BY <3>1, <4>1
      <4> QED
          BY <4>2 DEF Told
    <3>2. CASE e = [at |-> "told", prices |-> TrendTexts, before |-> Written]
      <4>1. TrendTexts \in Seq(Texts) /\ Written \in SUBSET WrittenTrade
          BY <1>1, TrendOfSet, WrittenFinite
      <4> QED
          BY <1>1, <3>2, <4>1, TrendTold
    <3> QED
        BY <2>1, <3>1, <3>2
  <2>3. viewer' \in [Viewers -> View_] /\ \A w \in Viewers : Told(viewer'[w])
    <3> HIDE DEF View_
    <3> QED
        BY <1>1, <2>1, <2>2
  <2>4. TrendInOrder'
    <3>1. TrendInOrder' <=> \A w \in Viewers : Told(viewer'[w])
        BY DEF TrendInOrder, Told
    <3> QED
        BY <2>3, <3>1
  <2> QED
      BY <1>2, <2>3, <2>4 DEF TrendInv
<1>5. CASE UNCHANGED marketVars \/ PushRecords \/ Publish \/ \E c \in Conns : Break(c)
    BY <1>3, <1>5 DEF marketVars, dataVars, PushRecords, Publish, TakeBatch,
       PublisherConnects, Zadd, LoseBatch, PublisherReturns, Break
<1>6. ASSUME NEW v \in Viewers, ViewerConnects(v) \/ ViewerReturns(v) PROVE TrendInv'
    BY <1>3, <1>6 DEF ViewerConnects, ViewerReturns, dataVars
<1> QED
    BY <1>4, <1>5, <1>6 DEF MNext, View

\* A client that asks for the trend is told of the texts whose last trades the clock puts
\* last, each once and in that order, as far as scores that are doubles tell them apart: GetTrendHandler turns
\* round what ZREVRANGE answers, and the scores in the sorted set are those of the last
\* trades, whatever the publisher is in the middle of and whichever connections broke.
THEOREM TrendAlwaysInOrder == MSpec => []TrendInOrder
<1>1. MInit => TrendInv
  <2> SUFFICES ASSUME MInit PROVE TrendInv
      OBVIOUS
  <2>1. /\ viewer \in [Viewers -> [at : {"asking", "told", "failed"}, prices : Seq(Texts),
                                   before : SUBSET WrittenTrade]]
        /\ \A v \in Viewers : viewer[v].at = "asking"
    <3>1. << >> \in Seq(Texts)
        BY EmptySeq
    <3> QED
        BY <3>1 DEF MInit
  <2> QED
      BY <2>1, InitHistoryInv DEF TrendInv, TrendInOrder
<1>2. TrendInv => TrendInOrder
    BY DEF TrendInv
<1> QED
    BY <1>1, <1>2, StepTrendInv, PTL DEF MSpec

=============================================================================
