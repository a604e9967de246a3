-------------------------- MODULE OrderBookProofs --------------------------
(***************************************************************************)
(* What OrderBook guarantees for every set of users, prices, quantities    *)
(* and order ids: its inductive invariant, that it implements              *)
(* PriceTimeBook, and that no quantity is lost.                            *)
(***************************************************************************)
EXTENDS OrderBook, SumLemmas, SequenceTheorems, TLAPS

LEMMA OrdersDef ==
    \A f : IsOrders(f) <=> /\ DOMAIN f \subseteq OrderIds
                            /\ f \in [DOMAIN f -> Order]
BY DEF IsOrders

LEMMA LevelsDef ==
    \A f : IsLevels(f) <=> /\ DOMAIN f \subseteq Prices
                            /\ f \in [DOMAIN f -> Seq(OrderIds)]
BY DEF IsLevels

LEMMA SetLevelProperties ==
    ASSUME NEW L, IsLevels(L), NEW p \in Prices, NEW l \in Seq(OrderIds)
    PROVE  /\ IsLevels(SetLevel(L, p, l))
           /\ \A x : x # p =>
                 /\ x \in DOMAIN SetLevel(L, p, l) <=> x \in DOMAIN L
                 /\ x \in DOMAIN SetLevel(L, p, l) => SetLevel(L, p, l)[x] = L[x]
           /\ p \in DOMAIN SetLevel(L, p, l) <=> l # << >>
           /\ l # << >> => SetLevel(L, p, l)[p] = l
BY LevelsDef DEF SetLevel

\* The list r is the list l without its n-th element.
WithoutNth(l, r, n) ==
    /\ r \in Seq(OrderIds)
    /\ Len(r) = Len(l) - 1
    /\ \A j \in 1 .. Len(l) - 1 : r[j] = IF j < n THEN l[j] ELSE l[j + 1]

LEMMA EraseProperties ==
    ASSUME NEW l \in Seq(OrderIds), NEW id, \E n \in 1 .. Len(l) : l[n] = id
    PROVE  \E k \in 1 .. Len(l) : l[k] = id /\ WithoutNth(l, Erase(l, id), k)
<1> DEFINE k == CHOOSE i \in 1 .. Len(l) : l[i] = id
           a == SubSeq(l, 1, k - 1)
           b == SubSeq(l, k + 1, Len(l))
<1>1. k \in 1 .. Len(l) /\ l[k] = id
  OBVIOUS
<1>2. Erase(l, id) = a \o b
  BY DEF Erase, RemoveAt
<1> HIDE DEF k
<1>3. Len(l) \in Nat /\ \A i \in 1 .. Len(l) : l[i] \in OrderIds
  BY ElementOfSeq, LenProperties
<1>4. /\ a \in Seq(OrderIds)
      /\ Len(a) = k - 1
      /\ \A i \in 1 .. k - 1 : a[i] = l[i]
  <2>1. \A i \in 1 .. k - 1 : l[i] \in OrderIds
    BY <1>1, <1>3
  <2> QED
    BY <2>1, <1>1, <1>3, SubSeqProperties
<1>5. /\ b \in Seq(OrderIds)
      /\ Len(b) = Len(l) - k
      /\ \A i \in 1 .. Len(l) - k : b[i] = l[k + i]
  <2>1. \A i \in k + 1 .. Len(l) : l[i] \in OrderIds
    BY <1>1, <1>3
  <2> QED
    BY <2>1, <1>1, <1>3, SubSeqProperties
<1> HIDE DEF a, b
<1>6. /\ a \o b \in Seq(OrderIds)
      /\ Len(a \o b) = Len(a) + Len(b)
      /\ \A i \in 1 .. Len(a) + Len(b) :
            (a \o b)[i] = IF i <= Len(a) THEN a[i] ELSE b[i - Len(a)]
  BY <1>4, <1>5, ConcatProperties
<1> DEFINE c == a \o b
<1> HIDE DEF c
<1>7. Len(c) = Len(l) - 1
  BY <1>4, <1>5, <1>6, <1>1, <1>3 DEF c
<1>8. \A j \in 1 .. Len(l) - 1 : c[j] = IF j < k THEN l[j] ELSE l[j + 1]
  <2> SUFFICES ASSUME NEW j \in 1 .. Len(l) - 1
               PROVE  c[j] = IF j < k THEN l[j] ELSE l[j + 1]
    OBVIOUS
  <2>1. c[j] = IF j <= Len(a) THEN a[j] ELSE b[j - Len(a)]
    BY <1>6, <1>4, <1>5, <1>1, <1>3 DEF c
  <2>2. CASE j < k
    BY <2>1, <2>2, <1>4, <1>1, <1>3
  <2>3. CASE j >= k
    <3>1. j - (k - 1) \in 1 .. Len(l) - k /\ k + (j - (k - 1)) = j + 1
      BY <2>3, <1>1, <1>3
    <3>2. c[j] = b[j - (k - 1)]
      BY <2>1, <2>3, <1>4, <1>1, <1>3
    <3>3. b[j - (k - 1)] = l[j + 1]
      BY <3>1, <1>5
    <3> QED
      BY <2>3, <3>2, <3>3, <1>1, <1>3
  <2> QED
    BY <2>2, <2>3, <1>1, <1>3
<1> QED
  BY <1>1, <1>2, <1>6, <1>7, <1>8 DEF c, WithoutNth

-----------------------------------------------------------------------------
(***************************************************************************)
(* Facts about one state.                                                  *)
(***************************************************************************)

LEMMA RestingDef ==
    ASSUME TypeOK
    PROVE  \A i : i \in Resting <=>
              /\ i \in DOMAIN order
              /\ \E s \in Side : \E p \in DOMAIN book[s] : \E k \in DOMAIN book[s][p] :
                    book[s][p][k] = i
BY DEF Resting, RestingOn, Side

LEMMA RestingNextDef ==
    ASSUME TypeOK'
    PROVE  \A i : i \in Resting' <=>
              /\ i \in DOMAIN order'
              /\ \E s \in Side : \E p \in DOMAIN book'[s] : \E k \in DOMAIN book'[s][p] :
                    book'[s][p][k] = i
BY DEF Resting, RestingOn, Side

LEMMA RestingPlace ==
    ASSUME TypeOK, LevelsWellFormed
    PROVE  \A i \in Resting :
              /\ i \in DOMAIN order
              /\ order[i].side \in Side
              /\ order[i].price \in DOMAIN book[order[i].side]
              /\ \E k \in DOMAIN book[order[i].side][order[i].price] :
                    book[order[i].side][order[i].price][k] = i
BY RestingDef DEF LevelsWellFormed

LEMMA ListedOnce ==
    ASSUME TypeOK, LevelsWellFormed, HistoryAgrees,
           NEW s \in Side, NEW p \in DOMAIN book[s],
           NEW j \in DOMAIN book[s][p], NEW k \in DOMAIN book[s][p],
           book[s][p][j] = book[s][p][k]
    PROVE  j = k
<1>1. j \in Int /\ k \in Int
  BY LevelsDef, LenProperties DEF TypeOK
<1>2. ASSUME NEW a \in DOMAIN book[s][p], NEW b \in DOMAIN book[s][p], a < b,
             book[s][p][a] = book[s][p][b]
      PROVE  FALSE
  <2>1. ArrivedBefore(arrivals, book[s][p][a], book[s][p][b])
    BY <1>2 DEF LevelsWellFormed
  <2>2. PICK x \in DOMAIN arrivals, y \in DOMAIN arrivals :
           /\ x < y
           /\ arrivals[x].order_id = book[s][p][a]
           /\ arrivals[y].order_id = book[s][p][b]
    BY <2>1 DEF ArrivedBefore
  <2>3. x = y
    BY <2>2, <1>2 DEF HistoryAgrees
  <2>4. x \in Int
    BY LenProperties DEF TypeOK
  <2> QED
    BY <2>2, <2>3, <2>4
<1> QED
  BY <1>1, <1>2

(***************************************************************************)
(* What a step that stores one level does to the book.                     *)
(***************************************************************************)

LEMMA ReplaceLevel ==
    ASSUME TypeOK, NEW o \in Side, NEW p \in Prices, NEW l \in Seq(OrderIds),
           book'[o] = SetLevel(book[o], p, l),
           \A t \in Side : t # o => book'[t] = book[t]
    PROVE  /\ \A s \in Side : \A x : (s # o \/ x # p) =>
                 /\ x \in DOMAIN book'[s] <=> x \in DOMAIN book[s]
                 /\ x \in DOMAIN book'[s] => book'[s][x] = book[s][x]
           /\ p \in DOMAIN book'[o] <=> l # << >>
           /\ l # << >> => book'[o][p] = l
           /\ \A s \in Side : IsLevels(book'[s])
<1>1. IsLevels(book[o]) /\ DOMAIN book = Side /\ (\A t \in Side : IsLevels(book[t]))
  BY DEF TypeOK
<1> DEFINE B == SetLevel(book[o], p, l)
<1>3. /\ IsLevels(B)
      /\ \A x : x # p => /\ x \in DOMAIN B <=> x \in DOMAIN book[o]
                         /\ x \in DOMAIN B => B[x] = book[o][x]
      /\ p \in DOMAIN B <=> l # << >>
      /\ l # << >> => B[p] = l
  BY <1>1, SetLevelProperties
<1>5. book'[o] = B
  OBVIOUS
<1> HIDE DEF B
<1> QED
  BY <1>1, <1>3, <1>5

-----------------------------------------------------------------------------
(***************************************************************************)
(* Parts of the invariant that several actions keep in the same way.       *)
(***************************************************************************)

LEMMA OrderFields ==
    ASSUME TypeOK, NEW i \in DOMAIN order
    PROVE  /\ i \in OrderIds
           /\ order[i] \in Order
           /\ order[i].user_id \in Users
           /\ order[i].side \in Side
           /\ order[i].price \in Prices
           /\ order[i].quantity \in Nat
BY OrdersDef DEF TypeOK, Order

\* The steps never forget an order or alter its owner, its side or its limit.
OrdersKept ==
    \A i \in DOMAIN order :
        /\ i \in DOMAIN order'
        /\ order'[i].side = order[i].side
        /\ order'[i].price = order[i].price
        /\ order'[i].user_id = order[i].user_id

LEMMA LimitsKept ==
    ASSUME LimitsRespected, HistoryAgrees, OrdersKept, results' = results
    PROVE  LimitsRespected'
BY DEF LimitsRespected, HistoryAgrees, OrdersKept

LEMMA InitBookInv == Init => BookInv
<1> SUFFICES ASSUME Init PROVE BookInv
  OBVIOUS
<1>1. DOMAIN order = {} /\ (\A s \in Side : DOMAIN book[s] = {}) /\ Resting = {}
  BY DEF Init, Resting, RestingOn
<1>2. TypeOK
  <2>1. IsOrders(order)
    BY OrdersDef DEF Init
  <2>2. DOMAIN book = Side /\ (\A t \in Side : IsLevels(book[t]))
    BY LevelsDef DEF Init
  <2> QED
    BY <2>1, <2>2 DEF Init, TypeOK
<1>3. BookUncrossed /\ LevelsWellFormed
  BY <1>1 DEF BookUncrossed, LevelsWellFormed, Side
<1>4. IndexAgrees
  BY <1>1 DEF Init, IndexAgrees
<1>5. LimitsRespected /\ HistoryAgrees
  BY <1>1 DEF Init, LimitsRespected, HistoryAgrees
<1> QED
  BY <1>2, <1>3, <1>4, <1>5 DEF BookInv

LEMMA NewOrderBookInv ==
    ASSUME BookInv,
           NEW i \in OrderIds, NEW u \in Users, NEW s \in Side, NEW p \in Prices,
           NEW q \in Quantities, NewOrder(i, u, s, p, q)
    PROVE  BookInv' /\ Resting' = Resting
<1> USE DEF BookInv
<1>1. /\ i \notin DOMAIN order
      /\ DOMAIN order' = DOMAIN order \cup {i}
      /\ \A j \in DOMAIN order : order'[j] = order[j]
      /\ order'[i] = [user_id |-> u, side |-> s, price |-> p, quantity |-> q]
  BY DEF NewOrder
<1>2. UNCHANGED <<book, active, results, cancels>> /\ taker' = i /\ lastCancel' = NoCall
  BY DEF NewOrder
<1>3. /\ arrivals' \in Seq(Arrival)
      /\ Len(arrivals') = Len(arrivals) + 1
      /\ \A k \in 1 .. Len(arrivals) : arrivals'[k] = arrivals[k]
      /\ arrivals'[Len(arrivals) + 1] = [order_id |-> i, quantity |-> q]
      /\ Len(arrivals) \in Nat
      /\ DOMAIN arrivals = 1 .. Len(arrivals)
      /\ DOMAIN arrivals' = 1 .. Len(arrivals) + 1
  <2>1. [order_id |-> i, quantity |-> q] \in Arrival /\ arrivals \in Seq(Arrival)
    BY DEF Arrival, TypeOK
  <2>2. arrivals' = Append(arrivals, [order_id |-> i, quantity |-> q])
    BY DEF NewOrder
  <2> QED
    BY <2>1, <2>2, AppendProperties, LenProperties
<1>4. TypeOK'
  <2>1. order' \in [DOMAIN order' -> Order] /\ DOMAIN order' \subseteq OrderIds
    <3>1. [user_id |-> u, side |-> s, price |-> p, quantity |-> q] \in Order
      BY BookAssumption DEF Order
    <3>2. order \in [DOMAIN order -> Order] /\ DOMAIN order \subseteq OrderIds
      BY OrdersDef DEF TypeOK
    <3> QED
      BY <3>1, <3>2 DEF NewOrder
  <2>2. IsOrders(order')
    BY <2>1, OrdersDef
  <2> QED
    BY <2>2, <1>2, <1>3 DEF TypeOK
<1>5. BookUncrossed'
  BY <1>2 DEF BookUncrossed
<1>6. \A j, k \in DOMAIN order : ArrivedBefore(arrivals, j, k) => ArrivedBefore(arrivals', j, k)
  BY <1>3 DEF ArrivedBefore
<1>7. LevelsWellFormed'
  BY <1>1, <1>2, <1>6 DEF LevelsWellFormed
<1>8. Resting' = Resting
  <2>1. \A t \in Side : RestingOn(t)' = RestingOn(t)
    BY <1>1, <1>2 DEF LevelsWellFormed, RestingOn
  <2> QED
    BY <2>1 DEF Resting, Side
<1>9. IndexAgrees'
  <2>1. \A j \in Resting : order'[j].user_id = order[j].user_id
    BY <1>1 DEF Resting, RestingOn
  <2> QED
    BY <2>1, <1>8, <1>2 DEF IndexAgrees
<1>10. LimitsRespected'
  <2>1. OrdersKept
    BY <1>1 DEF OrdersKept
  <2> QED
    BY <2>1, <1>2, LimitsKept
<1>11. HistoryAgrees'
  <2>1. \A k \in DOMAIN arrivals' : arrivals'[k].order_id \in DOMAIN order'
    BY <1>1, <1>3 DEF HistoryAgrees
  <2>2. \A j \in DOMAIN order' : \E k \in DOMAIN arrivals' : arrivals'[k].order_id = j
    BY <1>1, <1>3 DEF HistoryAgrees
  <2>3. \A j, k \in DOMAIN arrivals' :
           arrivals'[j].order_id = arrivals'[k].order_id => j = k
    BY <1>1, <1>3 DEF HistoryAgrees
  <2>4. \A k \in DOMAIN results' :
           results'[k].maker \in DOMAIN order' /\ results'[k].taker \in DOMAIN order'
    BY <1>1, <1>2 DEF HistoryAgrees
  <2>5. i \in DOMAIN order' \ Resting'
    BY <1>1, <1>8 DEF Resting, RestingOn
  <2> QED
    BY <2>1, <2>2, <2>3, <2>4, <2>5, <1>2, <1>3 DEF HistoryAgrees
<1> QED
  BY <1>4, <1>5, <1>7, <1>8, <1>9, <1>10, <1>11

LEMMA ExhaustedBookInv ==
    ASSUME BookInv, Exhausted
    PROVE  BookInv' /\ Resting' = Resting
<1>1. UNCHANGED <<order, book, active, results, cancels, arrivals, lastCancel>>
  BY DEF Exhausted
<1>2. taker' = NoOrder
  BY DEF Exhausted
<1>3. Resting' = Resting
  BY <1>1 DEF Resting, RestingOn
<1>4. TypeOK'
  BY <1>1, <1>2 DEF BookInv, TypeOK
<1>5. BookUncrossed' /\ LevelsWellFormed'
  BY <1>1, <1>3 DEF BookInv, BookUncrossed, LevelsWellFormed
<1>6. IndexAgrees' /\ LimitsRespected' /\ HistoryAgrees'
  BY <1>1, <1>2, <1>3 DEF BookInv, IndexAgrees, LimitsRespected, HistoryAgrees
<1> QED
  BY <1>3, <1>4, <1>5, <1>6 DEF BookInv

LEMMA RestBookInv ==
    ASSUME BookInv, Rest
    PROVE  BookInv' /\ Resting' = Resting \cup {taker}
<1> USE DEF BookInv
<1> DEFINE i == taker
           s == order[i].side
           p == order[i].price
           u == order[i].user_id
           l == Join(ListAt(book[s], p), i)
<1>1. /\ i # NoOrder /\ i \in DOMAIN order \ Resting
      /\ Len(arrivals) > 0 /\ arrivals[Len(arrivals)].order_id = i
      /\ order[i].quantity > 0
  BY DEF Rest, HistoryAgrees
<1>2. /\ i \in OrderIds /\ u \in Users /\ s \in Side /\ p \in Prices
  BY <1>1, OrderFields
<1>3. /\ book' = [book EXCEPT ![s] = SetLevel(@, p, l)]
      /\ active' = [active EXCEPT ![u] = @ \cup {i}]
      /\ taker' = NoOrder
      /\ UNCHANGED <<order, results, cancels, arrivals, lastCancel>>
  BY DEF Rest
<1> DEFINE old == ListAt(book[s], p)
<1>4. /\ old \in Seq(OrderIds)
      /\ p \in DOMAIN book[s] => old = book[s][p]
      /\ p \notin DOMAIN book[s] => old = << >>
  BY <1>2, LevelsDef DEF ListAt, TypeOK
<1>5. /\ l \in Seq(OrderIds) /\ l # << >>
      /\ Len(l) = Len(old) + 1 /\ Len(old) \in Nat
      /\ \A k \in 1 .. Len(old) : l[k] = old[k]
      /\ l[Len(old) + 1] = i
      /\ DOMAIN l = 1 .. Len(old) + 1
      /\ DOMAIN old = 1 .. Len(old)
  <2> HIDE DEF old, i
  <2>1. l = Append(old, i)
    BY DEF Join, old
  <2> HIDE DEF l
  <2> QED
    BY <2>1, <1>4, <1>2, AppendProperties, LenProperties, EmptySeq
<1> HIDE DEF i, s, p, u, l, old
<1>6. /\ DOMAIN book' = Side /\ (\A t \in Side : IsLevels(book'[t]))
      /\ \A t \in Side : \A x : (t # s \/ x # p) =>
            /\ x \in DOMAIN book'[t] <=> x \in DOMAIN book[t]
            /\ x \in DOMAIN book'[t] => book'[t][x] = book[t][x]
      /\ p \in DOMAIN book'[s]
      /\ book'[s][p] = l
  <2>1. book'[s] = SetLevel(book[s], p, l) /\ \A t \in Side : t # s => book'[t] = book[t]
    BY <1>2, <1>3 DEF TypeOK
  <2>2. /\ \A t \in Side : \A x : (t # s \/ x # p) =>
              /\ x \in DOMAIN book'[t] <=> x \in DOMAIN book[t]
              /\ x \in DOMAIN book'[t] => book'[t][x] = book[t][x]
        /\ p \in DOMAIN book'[s] <=> l # << >>
        /\ l # << >> => book'[s][p] = l
        /\ \A t \in Side : IsLevels(book'[t])
    BY <1>2, <1>5, <2>1, ReplaceLevel
  <2>3. DOMAIN book' = Side /\ (\A t \in Side : IsLevels(book'[t]))
    BY <2>2, <1>3 DEF TypeOK
  <2> QED
    BY <2>2, <2>3, <1>5
<1>7. TypeOK'
  <2>1. active' \in [Users -> SUBSET OrderIds]
    BY <1>2, <1>3 DEF TypeOK
  <2> QED
    BY <2>1, <1>3, <1>6 DEF TypeOK
<1>8. BookUncrossed'
  <2>1. /\ s = "BUY" => \A a \in DOMAIN book["SELL"] : p < a
        /\ s = "SELL" => \A b \in DOMAIN book["BUY"] : b < p
    <3>1. \A x \in DOMAIN book[Opposite(s)] : ~ Crosses(s, p, x)
      BY DEF Rest, NothingToTrade, i, s, p
    <3>2. \A t \in Side : DOMAIN book[t] \subseteq Nat
      BY LevelsDef, BookAssumption DEF TypeOK
    <3>3. p \in Nat
      BY <1>2, BookAssumption
    <3> QED
      BY <3>1, <3>2, <3>3 DEF Opposite, Crosses, Side
  <2>2. \A b \in DOMAIN book["BUY"], a \in DOMAIN book["SELL"] : b < a
    BY DEF BookUncrossed
  <2>3. \A b \in DOMAIN book'["BUY"] : b \in DOMAIN book["BUY"] \/ (s = "BUY" /\ b = p)
    BY <1>6 DEF Side
  <2>4. \A a \in DOMAIN book'["SELL"] : a \in DOMAIN book["SELL"] \/ (s = "SELL" /\ a = p)
    BY <1>6 DEF Side
  <2> QED
    BY <2>1, <2>2, <2>3, <2>4 DEF BookUncrossed
<1>10. LevelsWellFormed'
  <2> SUFFICES ASSUME NEW t \in Side, NEW x \in DOMAIN book'[t]
               PROVE  /\ book'[t][x] # << >>
                      /\ \A k \in DOMAIN book'[t][x] :
                            /\ book'[t][x][k] \in DOMAIN order'
                            /\ order'[book'[t][x][k]].side = t
                            /\ order'[book'[t][x][k]].price = x
                            /\ order'[book'[t][x][k]].quantity > 0
                      /\ \A j, k \in DOMAIN book'[t][x] :
                            j < k => ArrivedBefore(arrivals', book'[t][x][j], book'[t][x][k])
    BY DEF LevelsWellFormed
  <2>1. CASE t # s \/ x # p
    BY <2>1, <1>3, <1>6 DEF LevelsWellFormed
  <2>2. CASE t = s /\ x = p
    <3>1. \A k \in 1 .. Len(old) :
             /\ old[k] \in DOMAIN order /\ old[k] # i
             /\ order[old[k]].side = s /\ order[old[k]].price = p
             /\ order[old[k]].quantity > 0
      <4>1. CASE p \in DOMAIN book[s]
        <5>1. \A k \in 1 .. Len(old) :
                 /\ old[k] \in DOMAIN order
                 /\ order[old[k]].side = s /\ order[old[k]].price = p
                 /\ order[old[k]].quantity > 0
          BY <4>1, <1>4, <1>5, <1>2 DEF LevelsWellFormed
        <5>2. \A k \in 1 .. Len(old) : old[k] \in Resting
          BY <4>1, <5>1, <1>4, <1>5, <1>2, RestingDef
        <5> QED
          BY <5>1, <5>2, <1>1
      <4>2. CASE p \notin DOMAIN book[s]
        BY <4>2, <1>4, <1>5
      <4> QED
        BY <4>1, <4>2
    <3>2. \A k \in 1 .. Len(old) : ArrivedBefore(arrivals, old[k], i)
      <4> SUFFICES ASSUME NEW k \in 1 .. Len(old)
                   PROVE  ArrivedBefore(arrivals, old[k], i)
        OBVIOUS
      <4>1. PICK a \in DOMAIN arrivals : arrivals[a].order_id = old[k]
        BY <3>1 DEF HistoryAgrees
      <4>2. DOMAIN arrivals = 1 .. Len(arrivals) /\ Len(arrivals) \in Nat
        BY LenProperties DEF TypeOK
      <4>3. a < Len(arrivals)
        BY <4>1, <4>2, <3>1, <1>1
      <4> QED
        BY <4>1, <4>2, <4>3, <1>1 DEF ArrivedBefore
    <3>3. \A j, k \in 1 .. Len(old) : j < k => ArrivedBefore(arrivals, old[j], old[k])
      <4>1. CASE p \in DOMAIN book[s]
        BY <4>1, <1>4, <1>5, <1>2 DEF LevelsWellFormed
      <4>2. CASE p \notin DOMAIN book[s]
        BY <4>2, <1>4, <1>5
      <4> QED
        BY <4>1, <4>2
    <3>4. \A k \in DOMAIN l : /\ l[k] \in DOMAIN order'
                              /\ order'[l[k]].side = s /\ order'[l[k]].price = p
                              /\ order'[l[k]].quantity > 0
      BY <3>1, <1>1, <1>3, <1>5 DEF s, p
    <3>5. \A j, k \in DOMAIN l : j < k => ArrivedBefore(arrivals, l[j], l[k])
      BY <3>2, <3>3, <1>5
    <3> QED
      BY <2>2, <3>4, <3>5, <1>3, <1>5, <1>6
  <2> QED
    BY <2>1, <2>2
<1>11. Resting' = Resting \cup {i}
  <2>1. ASSUME NEW j \in Resting
        PROVE  j \in Resting'
    <3>1. PICK t, x, k : t \in Side /\
             x \in DOMAIN book[t] /\ k \in DOMAIN book[t][x] /\ book[t][x][k] = j
      BY <2>1, RestingDef
    <3>2. CASE t # s \/ x # p
      BY <3>1, <3>2, <2>1, <1>3, <1>6, <1>7, RestingDef, RestingNextDef
    <3>3. CASE t = s /\ x = p
      <4>1. k \in DOMAIN l /\ l[k] = j
        BY <3>1, <3>3, <1>4, <1>5
      <4> QED
        BY <4>1, <2>1, <1>2, <1>3, <1>6, <1>7, RestingDef, RestingNextDef
    <3> QED
      BY <3>2, <3>3
  <2>2. i \in Resting'
    <3>1. Len(old) + 1 \in DOMAIN l /\ l[Len(old) + 1] = i
      BY <1>5
    <3> QED
      BY <3>1, <1>1, <1>2, <1>3, <1>6, <1>7, RestingNextDef
  <2>3. ASSUME NEW j \in Resting', j # i
        PROVE  j \in Resting
    <3>1. PICK t, x, k :
             /\ t \in Side /\ x \in DOMAIN book'[t] /\ k \in DOMAIN book'[t][x]
             /\ book'[t][x][k] = j /\ j \in DOMAIN order
      BY <2>3, <1>7, <1>3, RestingNextDef
    <3>2. CASE t # s \/ x # p
      BY <3>1, <3>2, <1>6, RestingDef
    <3>3. CASE t = s /\ x = p
      <4>1. k \in 1 .. Len(old) /\ old[k] = j
        BY <3>1, <3>3, <2>3, <1>5, <1>6
      <4>2. p \in DOMAIN book[s] /\ book[s][p][k] = j /\ k \in DOMAIN book[s][p]
        BY <4>1, <1>4, <1>5
      <4> QED
        BY <4>2, <3>1, <1>2, RestingDef
    <3> QED
      BY <3>2, <3>3
  <2> QED
    BY <2>1, <2>2, <2>3
<1>12. IndexAgrees'
  BY <1>1, <1>2, <1>3, <1>11 DEF IndexAgrees, TypeOK, u
<1>13. LimitsRespected'
  BY <1>3 DEF LimitsRespected
<1>14. HistoryAgrees'
  BY <1>3 DEF HistoryAgrees
<1> QED
  BY <1>7, <1>8, <1>10, <1>11, <1>12, <1>13, <1>14 DEF i

(***************************************************************************)
(* A fill that exhausts its maker and a cancel both take one order, the    *)
(* n-th of the level p, off the book.                                      *)
(***************************************************************************)

LEMMA TakeOff ==
    ASSUME BookInv, TypeOK',
           NEW o \in Side, NEW p \in DOMAIN book[o], NEW n \in DOMAIN book[o][p],
           NEW l \in Seq(OrderIds), WithoutNth(book[o][p], l, n),
           book'[o] = SetLevel(book[o], p, l),
           \A t \in Side : t # o => book'[t] = book[t],
           arrivals' = arrivals,
           DOMAIN order' = DOMAIN order,
           \A i \in DOMAIN order \ {taker, book[o][p][n]} : order'[i] = order[i]
    PROVE  BookUncrossed' /\ LevelsWellFormed' /\ Resting' = Resting \ {book[o][p][n]}
<1> DEFINE old == book[o][p]
           m == old[n]
<1>1. TypeOK /\ LevelsWellFormed /\ HistoryAgrees /\ BookUncrossed
  BY DEF BookInv
<1>2. /\ p \in Prices
      /\ old \in Seq(OrderIds) /\ DOMAIN old = 1 .. Len(old) /\ Len(old) \in Nat
      /\ DOMAIN l = 1 .. Len(old) - 1
      /\ \A j \in 1 .. Len(old) - 1 : l[j] = IF j < n THEN old[j] ELSE old[j + 1]
  BY <1>1, LevelsDef, LenProperties DEF TypeOK, WithoutNth
<1>3. /\ \A t \in Side : \A x : (t # o \/ x # p) =>
            /\ x \in DOMAIN book'[t] <=> x \in DOMAIN book[t]
            /\ x \in DOMAIN book'[t] => book'[t][x] = book[t][x]
      /\ p \in DOMAIN book'[o] <=> l # << >>
      /\ l # << >> => book'[o][p] = l
  BY <1>1, <1>2, ReplaceLevel
<1>4. \A t \in Side : \A x \in DOMAIN book'[t] : x \in DOMAIN book[t]
  BY <1>3
<1>5. BookUncrossed'
  BY <1>1, <1>4 DEF BookUncrossed, Side
\* Every position of l shows an order that rested and is not m.
<1> DEFINE pos(j) == IF j < n THEN j ELSE j + 1
<1>6. \A j \in DOMAIN l : pos(j) \in DOMAIN old /\ pos(j) # n /\ l[j] = old[pos(j)]
  <2> SUFFICES ASSUME NEW j \in DOMAIN l
               PROVE  pos(j) \in DOMAIN old /\ pos(j) # n /\ l[j] = old[pos(j)]
    OBVIOUS
  <2>1. j \in 1 .. Len(old) - 1 /\ n \in 1 .. Len(old)
    BY <1>2
  <2>2. l[j] = IF j < n THEN old[j] ELSE old[j + 1]
    BY <2>1, <1>2
  <2>3. CASE j < n
    BY <2>1, <2>2, <2>3, <1>2
  <2>4. CASE ~(j < n)
    BY <2>1, <2>2, <2>4, <1>2
  <2> QED
    BY <2>3, <2>4
<1>7. \A j, k \in DOMAIN l : j < k => pos(j) < pos(k)
  BY <1>2
<1> HIDE DEF pos
<1>8. \A k \in DOMAIN old : k # n => old[k] # m
  BY <1>1, ListedOnce
<1>9. \A t \in Side : \A x \in DOMAIN book[t] : \A k \in DOMAIN book[t][x] :
         /\ book[t][x][k] # taker
         /\ (t # o \/ x # p) => book[t][x][k] # m
  <2> SUFFICES ASSUME NEW t \in Side, NEW x \in DOMAIN book[t],
                      NEW k \in DOMAIN book[t][x]
               PROVE  /\ book[t][x][k] # taker
                      /\ (t # o \/ x # p) => book[t][x][k] # m
    OBVIOUS
  <2>1. book[t][x][k] \in DOMAIN order /\ order[book[t][x][k]].side = t
        /\ order[book[t][x][k]].price = x
    BY <1>1 DEF LevelsWellFormed
  <2>2. order[m].side = o /\ order[m].price = p
    BY <1>1 DEF LevelsWellFormed
  <2>3. book[t][x][k] \in Resting
    BY <1>1, <2>1, RestingDef
  <2>4. book[t][x][k] # NoOrder
    BY <1>1, <2>1, OrderFields, BookAssumption
  <2> QED
    BY <1>1, <2>1, <2>2, <2>3, <2>4 DEF HistoryAgrees
<1> HIDE DEF m
<1>10. LevelsWellFormed'
  <2> SUFFICES ASSUME NEW t \in Side, NEW x \in DOMAIN book'[t]
               PROVE  /\ book'[t][x] # << >>
                      /\ \A k \in DOMAIN book'[t][x] :
                            /\ book'[t][x][k] \in DOMAIN order'
                            /\ order'[book'[t][x][k]].side = t
                            /\ order'[book'[t][x][k]].price = x
                            /\ order'[book'[t][x][k]].quantity > 0
                      /\ \A j, k \in DOMAIN book'[t][x] :
                            j < k => ArrivedBefore(arrivals', book'[t][x][j], book'[t][x][k])
    BY DEF LevelsWellFormed
  <2>1. CASE t # o \/ x # p
    <3>1. x \in DOMAIN book[t] /\ book'[t][x] = book[t][x]
      BY <2>1, <1>3
    <3>2. \A k \in DOMAIN book[t][x] : order'[book[t][x][k]] = order[book[t][x][k]]
      BY <2>1, <3>1, <1>1, <1>9 DEF LevelsWellFormed, m
    <3> QED
      BY <3>1, <3>2, <1>1 DEF LevelsWellFormed
  <2>2. CASE t = o /\ x = p
    <3>1. l # << >> /\ book'[t][x] = l
      BY <2>2, <1>3
    <3>2. \A k \in DOMAIN old : k # n =>
             /\ old[k] \in DOMAIN order' /\ order'[old[k]].side = o
             /\ order'[old[k]].price = p /\ order'[old[k]].quantity > 0
      <4> SUFFICES ASSUME NEW k \in DOMAIN old, k # n
                   PROVE  order'[old[k]] = order[old[k]] /\ old[k] \in DOMAIN order
        BY <1>1 DEF LevelsWellFormed
      <4>1. old[k] \in DOMAIN order
        BY <1>1 DEF LevelsWellFormed
      <4> QED
        BY <4>1, <1>8, <1>9 DEF m
    <3>3. \A k \in DOMAIN l :
             /\ l[k] \in DOMAIN order' /\ order'[l[k]].side = o
             /\ order'[l[k]].price = p /\ order'[l[k]].quantity > 0
      BY <3>2, <1>6
    <3>4. \A a, b \in DOMAIN old : a < b => ArrivedBefore(arrivals, old[a], old[b])
      BY <1>1 DEF LevelsWellFormed
    <3>5. \A j, k \in DOMAIN l : j < k => ArrivedBefore(arrivals, l[j], l[k])
      BY <3>4, <1>6, <1>7
    <3> QED
      BY <2>2, <3>1, <3>3, <3>5
  <2> QED
    BY <2>1, <2>2
<1>11. Resting' = Resting \ {m}
  <2>1. ASSUME NEW j \in Resting, j # m
        PROVE  j \in Resting'
    <3>1. PICK t, x, k : t \in Side /\
             x \in DOMAIN book[t] /\ k \in DOMAIN book[t][x] /\ book[t][x][k] = j
      BY <1>1, <2>1, RestingDef
    <3>2. j \in DOMAIN order'
      BY <1>1, <2>1, RestingDef
    <3>3. CASE t # o \/ x # p
      BY <3>1, <3>2, <3>3, <1>3, RestingNextDef
    <3>4. CASE t = o /\ x = p
      <4>1. k \in DOMAIN old /\ old[k] = j /\ k # n
        BY <3>1, <3>4, <2>1 DEF m
      <4>2. PICK a \in 1 .. Len(old) - 1 : l[a] = j
        <5>1. CASE k < n
          BY <5>1, <4>1, <1>2
        <5>2. CASE k > n
          <6>1. k - 1 \in 1 .. Len(old) - 1 /\ ~(k - 1 < n) /\ (k - 1) + 1 = k
            BY <5>2, <4>1, <1>2
          <6> QED
            BY <6>1, <4>1, <1>2
        <5> QED
          BY <5>1, <5>2, <4>1, <1>2
      <4>3. a \in DOMAIN l /\ l # << >>
        BY <4>2, <1>2
      <4> QED
        BY <4>2, <4>3, <3>2, <1>3, RestingNextDef
    <3> QED
      BY <3>3, <3>4
  <2>2. ASSUME NEW j \in Resting'
        PROVE  j \in Resting /\ j # m
    <3>1. PICK t, x, k :
             /\ t \in Side /\ x \in DOMAIN book'[t] /\ k \in DOMAIN book'[t][x]
             /\ book'[t][x][k] = j /\ j \in DOMAIN order
      BY <2>2, RestingNextDef
    <3>2. CASE t # o \/ x # p
      <4>1. x \in DOMAIN book[t] /\ k \in DOMAIN book[t][x] /\ book[t][x][k] = j
        BY <3>1, <3>2, <1>3
      <4> QED
        BY <4>1, <3>1, <3>2, <1>1, <1>9, RestingDef
    <3>3. CASE t = o /\ x = p
      <4>1. k \in DOMAIN l /\ l[k] = j
        BY <3>1, <3>3, <1>3
      <4>2. PICK a \in DOMAIN old : old[a] = j /\ a # n
        BY <4>1, <1>6
      <4> QED
        BY <4>2, <3>1, <1>1, <1>8, RestingDef
    <3> QED
      BY <3>2, <3>3
  <2> QED
    BY <2>1, <2>2
<1> QED
  BY <1>5, <1>10, <1>11 DEF m

LEMMA CancelOrderBookInv ==
    ASSUME BookInv, NEW id \in OrderIds, NEW u \in Users, CancelOrder(id, u)
    PROVE  /\ BookInv'
           /\ Narrow(id) \in active[u] =>
                 Narrow(id) \in Resting /\ Resting' = Resting \ {Narrow(id)}
           /\ Narrow(id) \notin active[u] => Resting' = Resting
<1> DEFINE key == Narrow(id)
<1>1. TypeOK /\ LevelsWellFormed /\ IndexAgrees /\ HistoryAgrees /\ LimitsRespected
      /\ BookUncrossed
  BY DEF BookInv
<1>2. /\ taker = NoOrder
      /\ UNCHANGED <<order, taker, results, arrivals>>
      /\ lastCancel' = [order_id |-> id, user_id |-> u]
  BY DEF CancelOrder
<1>3. lastCancel' \in CancelCall
  BY <1>2, BookAssumption DEF CancelCall
<1>4. LimitsRespected'
  BY <1>1, <1>2 DEF LimitsRespected
<1>5. CASE key \notin active[u]
  <2>1. UNCHANGED <<book, active, cancels>>
    BY <1>5 DEF CancelOrder
  <2>2. Resting' = Resting
    BY <1>2, <2>1 DEF Resting, RestingOn
  <2>3. TypeOK'
    BY <1>1, <1>2, <1>3, <2>1 DEF TypeOK
  <2>4. BookUncrossed' /\ LevelsWellFormed'
    BY <1>1, <1>2, <2>1 DEF BookUncrossed, LevelsWellFormed
  <2>5. IndexAgrees' /\ HistoryAgrees'
    BY <1>1, <1>2, <2>1, <2>2 DEF IndexAgrees, HistoryAgrees
  <2> QED
    BY <2>2, <2>3, <2>4, <2>5, <1>4, <1>5 DEF BookInv
<1>6. CASE key \in active[u]
  <2> DEFINE s == order[key].side
             p == order[key].price
             old == book[s][p]
             l == Erase(ListAt(book[s], p), key)
             rec == [order_id |-> key, user_id |-> order[key].user_id, side |-> s,
                     price |-> p, quantity |-> order[key].quantity]
  <2>1. key \in Resting /\ order[key].user_id = u
    BY <1>1, <1>6 DEF IndexAgrees
  <2>2. /\ key \in DOMAIN order /\ s \in Side /\ p \in DOMAIN book[s]
        /\ \E k \in DOMAIN old : old[k] = key
    BY <2>1, <1>1, RestingPlace
  <2>3. /\ book' = [book EXCEPT ![s] = SetLevel(@, p, l)]
        /\ active' = Delist(active, u, key)
        /\ cancels' = Append(cancels, rec)
    BY <1>6 DEF CancelOrder
  <2>4. key \in OrderIds /\ order[key] \in Order /\ p \in Prices
    BY <2>2, <1>1, OrderFields
  <2>5. old \in Seq(OrderIds) /\ DOMAIN old = 1 .. Len(old)
    BY <2>2, <1>1, LevelsDef, LenProperties DEF TypeOK
  <2>6. l = Erase(old, key)
    BY <2>2 DEF ListAt
  <2>7. rec \in CancelRecord
    BY <2>1, <2>2, <2>4, <1>1, OrderFields DEF CancelRecord
  <2> HIDE DEF key, s, p, old, l, rec
  <2>8. PICK n \in DOMAIN old :
           /\ old[n] = key
           /\ WithoutNth(old, l, n)
           /\ l \in Seq(OrderIds)
    <3>1. \E k \in 1 .. Len(old) : old[k] = key /\ WithoutNth(old, Erase(old, key), k)
      BY <2>2, <2>5, EraseProperties
    <3> QED
      BY <3>1, <2>5, <2>6 DEF WithoutNth
  <2>9. book'[s] = SetLevel(book[s], p, l) /\ \A t \in Side : t # s => book'[t] = book[t]
    BY <2>2, <2>3, <1>1 DEF TypeOK
  <2>10. TypeOK'
    <3>1. DOMAIN book' = Side /\ (\A t \in Side : IsLevels(book'[t]))
      <4>1. \A t \in Side : IsLevels(book'[t])
        BY <2>2, <2>4, <2>8, <2>9, <1>1, ReplaceLevel
      <4> QED
        BY <4>1, <2>3, <1>1 DEF TypeOK
    <3>2. active' \in [Users -> SUBSET OrderIds]
      BY <2>3, <1>1 DEF TypeOK, Delist
    <3>3. cancels' \in Seq(CancelRecord)
      BY <2>3, <2>7, <1>1, AppendProperties DEF TypeOK
    <3> QED
      BY <3>1, <3>2, <3>3, <1>1, <1>2, <1>3 DEF TypeOK
  <2>11. BookUncrossed' /\ LevelsWellFormed' /\ Resting' = Resting \ {key}
    <3>1. /\ DOMAIN order' = DOMAIN order
          /\ \A i \in DOMAIN order \ {taker, old[n]} : order'[i] = order[i]
          /\ arrivals' = arrivals
      BY <1>2
    <3> QED
      BY <2>2, <2>8, <2>9, <2>10, <3>1, TakeOff DEF old
  <2>12. IndexAgrees'
    BY <2>1, <2>3, <2>11, <1>1, <1>2 DEF IndexAgrees, Delist, TypeOK
  <2>13. HistoryAgrees'
    BY <1>1, <1>2 DEF HistoryAgrees
  <2> QED
    BY <2>1, <2>10, <2>11, <2>12, <2>13, <1>4, <1>6 DEF BookInv, key
<1> QED
  BY <1>5, <1>6

\* What a fill of qty between the taker and the maker m, at price p, does.
FillOf(m, p, qty) ==
    LET s == order[taker].side
        o == Opposite(s)
    IN  /\ IsBest(o, p) /\ Crosses(s, order[taker].price, p)
        /\ 1 \in DOMAIN book[o][p] /\ m = book[o][p][1] /\ m \in Resting
        /\ qty \in Nat /\ qty > 0
        /\ qty =< order[taker].quantity /\ qty =< order[m].quantity
        /\ qty = order[taker].quantity \/ qty = order[m].quantity
        /\ results' = Append(results, FillRecord(taker, m, p, qty))
        /\ DOMAIN order' = DOMAIN order
        /\ \A i \in DOMAIN order \ {taker, m} : order'[i] = order[i]
        /\ order'[taker] = [order[taker] EXCEPT !.quantity = @ - qty]
        /\ order'[m] = [order[m] EXCEPT !.quantity = @ - qty]
        /\ order[m].quantity = qty => Resting' = Resting \ {m}
        /\ order[m].quantity # qty => Resting' = Resting

LEMMA FillBookInv ==
    ASSUME BookInv, Fill
    PROVE  BookInv' /\ \E m, p, qty : FillOf(m, p, qty)
<1>1. TypeOK /\ LevelsWellFormed /\ IndexAgrees /\ HistoryAgrees /\ LimitsRespected
      /\ BookUncrossed
  BY DEF BookInv
<1> DEFINE t == taker
           s == order[t].side
           o == Opposite(s)
<1>2. /\ t # NoOrder /\ order[t].quantity > 0
      /\ UNCHANGED <<taker, cancels, arrivals, lastCancel>>
  BY DEF Fill
<1>3. PICK p \in DOMAIN book[o] :
         /\ IsBest(o, p)
         /\ Crosses(s, order[t].price, p)
         /\ LET m   == Head(book[o][p])
                qty == Smaller(order[t].quantity, order[m].quantity)
                u   == order[m].user_id
            IN  /\ results' = Append(results, FillRecord(t, m, p, qty))
                /\ order' = [order EXCEPT ![t].quantity = @ - qty,
                                          ![m].quantity = @ - qty]
                /\ IF order[m].quantity = qty
                   THEN /\ book' = [book EXCEPT ![o] = SetLevel(@, p, Tail(@[p]))]
                        /\ active' = Delist(active, u, m)
                   ELSE UNCHANGED <<book, active>>
  BY DEF Fill
<1> DEFINE old == book[o][p]
           m   == Head(old)
           qty == Smaller(order[t].quantity, order[m].quantity)
           u   == order[m].user_id
           rec == FillRecord(t, m, p, qty)
<1>4. /\ t \in DOMAIN order \ Resting /\ t \in OrderIds /\ order[t] \in Order
      /\ s \in Side /\ o \in Side /\ o # s /\ order[t].quantity \in Nat
      /\ order[t].price \in Prices /\ order[t].user_id \in Users
  BY <1>1, <1>2, OrderFields DEF HistoryAgrees, Opposite, Side
<1>5. /\ old \in Seq(OrderIds) /\ DOMAIN old = 1 .. Len(old) /\ Len(old) \in Nat \ {0}
      /\ p \in Prices /\ old # << >>
  BY <1>1, <1>4, LevelsDef, LenProperties, EmptySeq DEF TypeOK, LevelsWellFormed
<1>6. m = old[1] /\ 1 \in DOMAIN old
  BY <1>5
<1>7. /\ m \in DOMAIN order /\ order[m].side = o /\ order[m].price = p
      /\ order[m].quantity > 0 /\ m \in Resting /\ m # t
  <2>1. /\ m \in DOMAIN order /\ order[m].side = o /\ order[m].price = p
        /\ order[m].quantity > 0
    BY <1>1, <1>4, <1>6 DEF LevelsWellFormed
  <2>2. m \in Resting
    BY <2>1, <1>1, <1>4, <1>6, RestingDef
  <2> QED
    BY <2>1, <2>2, <1>4
<1>8. m \in OrderIds /\ order[m] \in Order /\ u \in Users /\ order[m].quantity \in Nat
  BY <1>1, <1>7, OrderFields
<1>9. /\ qty \in Nat /\ qty > 0 /\ qty =< order[t].quantity /\ qty =< order[m].quantity
      /\ qty = order[t].quantity \/ qty = order[m].quantity
  BY <1>2, <1>4, <1>7, <1>8 DEF Smaller
<1>10. /\ results' = Append(results, rec)
       /\ order' = [order EXCEPT ![t].quantity = @ - qty, ![m].quantity = @ - qty]
       /\ order[m].quantity = qty =>
             /\ book' = [book EXCEPT ![o] = SetLevel(@, p, Tail(@[p]))]
             /\ active' = Delist(active, u, m)
       /\ order[m].quantity # qty => UNCHANGED <<book, active>>
  BY <1>3
<1>11. rec \in MatchRecord
  BY <1>4, <1>5, <1>7, <1>8, <1>9, OrderFields, <1>1 DEF FillRecord, MatchRecord, Side
<1>12. Len(results) \in Nat /\ DOMAIN results = 1 .. Len(results)
       /\ results' \in Seq(MatchRecord) /\ Len(results') = Len(results) + 1
       /\ DOMAIN results' = 1 .. Len(results) + 1
       /\ (\A k \in 1 .. Len(results) : results'[k] = results[k])
       /\ results'[Len(results) + 1] = rec
  <2>1. results \in Seq(MatchRecord)
    BY <1>1 DEF TypeOK
  <2>2. results' = Append(results, rec)
    BY <1>10
  <2> HIDE DEF rec
  <2>3. /\ results' \in Seq(MatchRecord)
        /\ Len(results') = Len(results) + 1
        /\ \A k \in 1 .. Len(results) : results'[k] = results[k]
        /\ results'[Len(results) + 1] = rec
    BY <2>1, <2>2, <1>11, AppendProperties
  <2> QED
    BY <2>1, <2>3, LenProperties
<1>13. /\ rec.maker = m /\ rec.taker = t /\ rec.match_price = p
       /\ rec.buyer_expected_price = IF s = "BUY" THEN order[t].price ELSE p
  BY <1>7 DEF FillRecord
<1>14. (s = "BUY" => p =< order[t].price) /\ (s = "SELL" => p >= order[t].price)
  BY <1>3 DEF Crosses
<1>15. (o = "SELL" /\ s = "BUY") \/ (o = "BUY" /\ s = "SELL")
  BY <1>4 DEF Opposite, Side
<1> HIDE DEF t, s, o, old, m, qty, u, rec
<1>16. /\ DOMAIN order' = DOMAIN order
       /\ \A i \in DOMAIN order \ {t, m} : order'[i] = order[i]
       /\ order'[t] = [order[t] EXCEPT !.quantity = @ - qty]
       /\ order'[m] = [order[m] EXCEPT !.quantity = @ - qty]
  <2>1. order \in [DOMAIN order -> Order]
    BY <1>1, OrdersDef DEF TypeOK
  <2> QED
    BY <2>1, <1>4, <1>7, <1>10
<1>17. OrdersKept
  BY <1>16, <1>4, <1>7, <1>8 DEF OrdersKept, Order
<1>18. order'[m].quantity = order[m].quantity - qty
  BY <1>16, <1>8 DEF Order
<1>19. TypeOK'
  <2>1. IsOrders(order')
    <3>1. order'[t] \in Order /\ order'[m] \in Order
      BY <1>16, <1>4, <1>8, <1>9 DEF Order
    <3>2. order' \in [DOMAIN order -> Order] /\ DOMAIN order \subseteq OrderIds
      BY <3>1, <1>1, <1>10, <1>16, OrdersDef DEF TypeOK
    <3> QED
      BY <3>2, <1>16, OrdersDef
  <2>2. DOMAIN book' = Side /\ (\A x \in Side : IsLevels(book'[x])) /\ active' \in [Users -> SUBSET OrderIds]
    <3>1. CASE order[m].quantity # qty
      BY <3>1, <1>1, <1>10 DEF TypeOK
    <3>2. CASE order[m].quantity = qty
      <4>1. Tail(old) \in Seq(OrderIds)
        BY <1>5, HeadTailProperties
      <4>2. /\ book'[o] = SetLevel(book[o], p, Tail(old))
            /\ \A x \in Side : x # o => book'[x] = book[x]
        BY <3>2, <1>1, <1>4, <1>10 DEF TypeOK, old
      <4>3. \A x \in Side : IsLevels(book'[x])
        BY <4>1, <4>2, <1>1, <1>4, <1>5, ReplaceLevel
      <4>4. DOMAIN book' = Side /\ (\A x \in Side : IsLevels(book'[x]))
        BY <4>3, <3>2, <1>1, <1>10 DEF TypeOK
      <4>5. active' \in [Users -> SUBSET OrderIds]
        BY <3>2, <1>1, <1>10 DEF TypeOK, Delist
      <4> QED
        BY <4>4, <4>5
    <3> QED
      BY <3>1, <3>2
  <2> QED
    BY <2>1, <2>2, <1>1, <1>2, <1>12 DEF TypeOK
<1>20. LimitsRespected'
  <2> SUFFICES ASSUME NEW k \in DOMAIN results'
               PROVE  LET r    == results'[k]
                          buy  == IF order'[r.taker].side = "BUY" THEN r.taker ELSE r.maker
                          sell == IF order'[r.taker].side = "BUY" THEN r.maker ELSE r.taker
                      IN  /\ order'[buy].side = "BUY" /\ order'[sell].side = "SELL"
                          /\ r.buyer_expected_price = order'[buy].price
                          /\ r.match_price =< r.buyer_expected_price
                          /\ order'[sell].price =< r.match_price
    BY DEF LimitsRespected
  <2>1. CASE k \in 1 .. Len(results)
    <3>1. results'[k] = results[k] /\ k \in DOMAIN results
      BY <2>1, <1>12
    <3> QED
      BY <3>1, <1>1, <1>17 DEF LimitsRespected, HistoryAgrees, OrdersKept
  <2>2. CASE k = Len(results) + 1
    <3>1. results'[k] = rec
      BY <2>2, <1>12
    <3>2. /\ order'[t].side = s /\ order'[t].price = order[t].price
          /\ order'[m].side = o /\ order'[m].price = p
      BY <1>17, <1>4, <1>7 DEF OrdersKept, s
    <3>3. p \in Nat /\ order[t].price \in Nat
      BY <1>4, <1>5, BookAssumption
    <3> QED
      BY <3>1, <3>2, <3>3, <1>13, <1>14, <1>15
  <2> QED
    BY <2>1, <2>2, <1>12
<1>21. /\ BookUncrossed' /\ LevelsWellFormed'
       /\ Resting' = IF order[m].quantity = qty THEN Resting \ {m} ELSE Resting
  <2>1. CASE order[m].quantity = qty
    <3> DEFINE l == Tail(old)
    <3>1. l \in Seq(OrderIds) /\ WithoutNth(old, l, 1)
      BY <1>5, HeadTailProperties DEF WithoutNth
    <3>2. /\ book'[o] = SetLevel(book[o], p, l)
          /\ \A x \in Side : x # o => book'[x] = book[x]
      BY <2>1, <1>1, <1>4, <1>10 DEF TypeOK, old
    <3> HIDE DEF l
    <3>3. \A i \in DOMAIN order \ {taker, old[1]} : order'[i] = order[i]
      BY <1>6, <1>16 DEF t
    <3>4. BookUncrossed' /\ LevelsWellFormed' /\ Resting' = Resting \ {old[1]}
      BY <3>1, <3>2, <3>3, <1>2, <1>4, <1>6, <1>16, <1>19, TakeOff DEF old
    <3> QED
      BY <2>1, <3>4, <1>6
  <2>2. CASE order[m].quantity # qty
    <3>1. UNCHANGED <<book, active, arrivals>>
      BY <2>2, <1>2, <1>10
    <3>2. BookUncrossed'
      BY <3>1, <1>1 DEF BookUncrossed
    <3>3. Resting' = Resting
      BY <3>1, <1>16 DEF Resting, RestingOn
    <3>4. \A i \in Resting : i # t /\ order'[i].quantity > 0
      <4> SUFFICES ASSUME NEW i \in Resting
                   PROVE  i # t /\ order'[i].quantity > 0
        OBVIOUS
      <4>1. i # t /\ i \in DOMAIN order /\ order[i].quantity > 0
        BY <1>1, <1>4, RestingPlace DEF LevelsWellFormed
      <4> QED
        <5>1. CASE i = m
          BY <5>1, <4>1, <2>2, <1>8, <1>9, <1>18
        <5>2. CASE i # m
          BY <5>2, <4>1, <1>16
        <5> QED
          BY <5>1, <5>2
    <3>5. \A x \in Side : \A y \in DOMAIN book[x] : \A k \in DOMAIN book[x][y] :
             book[x][y][k] \in Resting
      BY <1>1, RestingDef DEF LevelsWellFormed
    <3>6. LevelsWellFormed'
      BY <3>1, <3>4, <3>5, <1>1, <1>16, <1>17 DEF LevelsWellFormed, OrdersKept
    <3> QED
      BY <2>2, <3>2, <3>3, <3>6
  <2> QED
    BY <2>1, <2>2
<1>22. IndexAgrees'
  <2>1. \A i \in Resting : order'[i].user_id = order[i].user_id
    BY <1>1, <1>17, RestingDef DEF OrdersKept
  <2>2. CASE order[m].quantity = qty
    <3>1. Resting' = Resting \ {m} /\ active' = [active EXCEPT ![u] = @ \ {m}]
      BY <2>2, <1>10, <1>21 DEF Delist
    <3>2. active \in [Users -> SUBSET OrderIds] /\ u = order[m].user_id
      BY <1>1 DEF TypeOK, u
    <3> QED
      BY <2>1, <3>1, <3>2, <1>1, <1>8 DEF IndexAgrees
  <2>3. CASE order[m].quantity # qty
    <3>1. Resting' = Resting /\ active' = active
      BY <2>3, <1>10, <1>21
    <3> QED
      BY <2>1, <3>1, <1>1 DEF IndexAgrees
  <2> QED
    BY <2>2, <2>3
<1>23. HistoryAgrees'
  <2>1. \A k \in DOMAIN results' :
           results'[k].maker \in DOMAIN order' /\ results'[k].taker \in DOMAIN order'
    BY <1>1, <1>4, <1>7, <1>12, <1>13, <1>16 DEF HistoryAgrees
  <2>2. taker' \in DOMAIN order' \ Resting'
    BY <1>2, <1>4, <1>16, <1>21 DEF t
  <2> QED
    BY <2>1, <2>2, <1>1, <1>2, <1>16 DEF HistoryAgrees
<1>24. FillOf(m, p, qty)
  <2>1. results' = Append(results, FillRecord(taker, m, p, qty))
    BY <1>10 DEF t, rec
  <2>2. /\ IsBest(o, p) /\ Crosses(s, order[t].price, p)
        /\ 1 \in DOMAIN book[o][p] /\ m = book[o][p][1] /\ m \in Resting
    BY <1>3, <1>6, <1>7 DEF old
  <2>3. /\ order[m].quantity = qty => Resting' = Resting \ {m}
        /\ order[m].quantity # qty => Resting' = Resting
    BY <1>21
  <2> QED
    BY <2>1, <2>2, <2>3, <1>9, <1>16 DEF FillOf, t, s, o
<1> QED
  BY <1>19, <1>20, <1>21, <1>22, <1>23, <1>24 DEF BookInv

-----------------------------------------------------------------------------
LEMMA StepBookInv ==
    BookInv /\ [Next]_vars => BookInv'
<1> SUFFICES ASSUME BookInv, [Next]_vars PROVE BookInv'
  OBVIOUS
<1>1. ASSUME NEW i \in OrderIds, NEW u \in Users, NEW s \in Side, NEW p \in Prices,
             NEW q \in Quantities, NewOrder(i, u, s, p, q)
      PROVE  BookInv'
  BY <1>1, NewOrderBookInv
<1>2. CASE Fill
  BY <1>2, FillBookInv
<1>3. CASE Rest
  BY <1>3, RestBookInv
<1>4. CASE Exhausted
  BY <1>4, ExhaustedBookInv
<1>5. ASSUME NEW i \in OrderIds, NEW u \in Users, CancelOrder(i, u)
      PROVE  BookInv'
  BY <1>5, CancelOrderBookInv
<1>6. CASE UNCHANGED vars
  <2>1. Resting' = Resting
    BY <1>6 DEF vars, Resting, RestingOn
  <2>2. TypeOK' /\ BookUncrossed' /\ LevelsWellFormed'
    BY <1>6 DEF BookInv, vars, TypeOK, BookUncrossed, LevelsWellFormed
  <2>3. IndexAgrees' /\ LimitsRespected' /\ HistoryAgrees'
    BY <1>6, <2>1 DEF BookInv, vars, IndexAgrees, LimitsRespected, HistoryAgrees
  <2> QED
    BY <2>2, <2>3 DEF BookInv
<1> QED
  BY <1>1, <1>2, <1>3, <1>4, <1>5, <1>6 DEF Next

\* The book's inductive invariant holds in every reachable state, for every set
\* of users, prices, quantities and ids (matchBuyOrder, matchSellOrder,
\* processOrder, cancelOrder).
THEOREM BookCorrect == Spec => []BookInv
<1>1. Init => BookInv
  BY InitBookInv
<1>2. BookInv /\ [Next]_vars => BookInv'
  BY StepBookInv
<1> QED
  BY <1>1, <1>2, PTL DEF Spec

\* The parts a reader asks for, one by one: each variable keeps its type, no bid
\* reaches an ask, levels are never empty and stay in arrival order, the index of
\* active orders is exactly what rests, and no trade leaves its limits.
THEOREM TypeCorrect == Spec => []TypeOK
<1>1. BookInv => TypeOK
  BY DEF BookInv
<1> QED
  BY <1>1, BookCorrect, PTL

\* No bid reaches an ask (OrderBook.hpp:57, :98).
THEOREM NeverCrossed == Spec => []BookUncrossed
<1>1. BookInv => BookUncrossed
  BY DEF BookInv
<1> QED
  BY <1>1, BookCorrect, PTL

\* No level is empty, and each lists its own live orders in arrival order.
THEOREM LevelsInOrder == Spec => []LevelsWellFormed
<1>1. BookInv => LevelsWellFormed
  BY DEF BookInv
<1> QED
  BY <1>1, BookCorrect, PTL

\* user_active_orders_ lists exactly the orders that can still trade.
THEOREM IndexExact == Spec => []IndexAgrees
<1>1. BookInv => IndexAgrees
  BY DEF BookInv
<1> QED
  BY <1>1, BookCorrect, PTL

\* Every match record is within both limits, so the refund is never negative.
THEOREM TradesWithinLimits == Spec => []LimitsRespected
<1>1. BookInv => LimitsRespected
  BY DEF BookInv
<1> QED
  BY <1>1, BookCorrect, PTL

-----------------------------------------------------------------------------
(***************************************************************************)
(* OrderBook implements PriceTimeBook: each turn of the matching loops is  *)
(* a trade with the first waiting order in price-time priority, or a       *)
(* stutter.                                                                *)
(***************************************************************************)

LEMMA LiveDef ==
    /\ DOMAIN Live = Resting \cup ({taker} \ {NoOrder})
    /\ \A i \in DOMAIN Live : Live[i] = order[i]
BY DEF Live

LEMMA LiveNextDef ==
    /\ DOMAIN Live' = Resting' \cup ({taker'} \ {NoOrder})
    /\ \A i \in DOMAIN Live' : Live'[i] = order'[i]
BY DEF Live

LEMMA RestingKnown ==
    ASSUME BookInv
    PROVE  /\ Resting \subseteq DOMAIN order
           /\ NoOrder \notin DOMAIN order
           /\ taker # NoOrder => taker \in DOMAIN order \ Resting
           /\ DOMAIN order \subseteq OrderIds
BY OrdersDef, BookAssumption DEF BookInv, TypeOK, HistoryAgrees, Resting, RestingOn

LEMMA InitImplements == Init => Promise!Init
<1> SUFFICES ASSUME Init PROVE Promise!Init
  OBVIOUS
<1>1. Resting = {}
  BY DEF Init, Resting, RestingOn
<1>2. Live = [i \in {} |-> 0] /\ Arrived = << >>
  BY <1>1 DEF Init, Live, Arrived
<1> QED
  BY <1>2 DEF Init, Promise!Init

LEMMA NewOrderImplements ==
    ASSUME BookInv,
           NEW i \in OrderIds, NEW u \in Users, NEW s \in Side, NEW p \in Prices,
           NEW q \in Quantities, NewOrder(i, u, s, p, q)
    PROVE  Promise!Submit(i, u, s, p, q)
<1>1. Resting' = Resting
  BY NewOrderBookInv
<1>2. /\ taker = NoOrder /\ taker' = i /\ i \notin DOMAIN order
      /\ DOMAIN order' = DOMAIN order \cup {i}
      /\ \A j \in DOMAIN order : order'[j] = order[j]
      /\ order'[i] = [user_id |-> u, side |-> s, price |-> p, quantity |-> q]
      /\ arrivals' = Append(arrivals, [order_id |-> i, quantity |-> q])
      /\ UNCHANGED <<results, cancels>>
  BY DEF NewOrder
<1>3. i # NoOrder
  BY BookAssumption
<1> DEFINE D == DOMAIN Live \cup {i}
           new == [user_id |-> u, side |-> s, price |-> p, quantity |-> q]
<1>4. DOMAIN Live' = D
  BY <1>1, <1>2, <1>3, LiveDef, LiveNextDef
<1>5. \A j \in D : Live'[j] = IF j = i THEN new ELSE Live[j]
  BY <1>1, <1>2, <1>3, <1>4, LiveDef, LiveNextDef, RestingKnown
<1>6. Live' = [j \in D |-> IF j = i THEN new ELSE Live[j]]
  BY <1>4, <1>5 DEF Live
<1>7. Arrived' = Append(Arrived, i)
  BY <1>2, LenProperties, AppendProperties DEF Arrived, BookInv, TypeOK, Arrival
<1>8. \A k \in DOMAIN Arrived : Arrived[k] # i
  BY <1>2 DEF BookInv, HistoryAgrees, Arrived
<1> QED
  BY <1>2, <1>6, <1>7, <1>8 DEF Promise!Submit

LEMMA ExhaustedImplements ==
    ASSUME BookInv, Exhausted
    PROVE  Promise!Conclude
<1>1. Resting' = Resting
  BY ExhaustedBookInv
<1>2. /\ taker # NoOrder /\ order[taker].quantity = 0 /\ taker' = NoOrder
      /\ UNCHANGED <<order, arrivals, results, cancels>>
  BY DEF Exhausted
<1>3. DOMAIN Live' = DOMAIN Live \ {taker}
  BY <1>1, <1>2, LiveDef, LiveNextDef, RestingKnown
<1>4. \A j \in DOMAIN Live \ {taker} : Live'[j] = Live[j]
  BY <1>1, <1>2, <1>3, LiveDef, LiveNextDef
<1>5. Live' = [j \in DOMAIN Live \ {taker} |-> Live[j]]
  BY <1>3, <1>4 DEF Live
<1>6. Live[taker].quantity = 0 /\ Arrived' = Arrived
  BY <1>2, LiveDef DEF Arrived
<1> QED
  BY <1>2, <1>5, <1>6 DEF Promise!Conclude

LEMMA RestImplements ==
    ASSUME BookInv, Rest
    PROVE  Promise!Conclude
<1>1. Resting' = Resting \cup {taker}
  BY RestBookInv
<1>2. /\ taker # NoOrder /\ order[taker].quantity > 0 /\ taker' = NoOrder
      /\ NothingToTrade(taker)
      /\ UNCHANGED <<order, arrivals, results, cancels>>
  BY DEF Rest
<1>3. DOMAIN Live' = DOMAIN Live /\ \A j \in DOMAIN Live : Live'[j] = Live[j]
  BY <1>1, <1>2, LiveDef, LiveNextDef
<1>4. Live' = Live
  BY <1>3 DEF Live
<1>5. Live[taker].quantity > 0 /\ Arrived' = Arrived
  BY <1>2, LiveDef DEF Arrived
<1>6. ASSUME NEW m \in Promise!Waiting
      PROVE  ~ Promise!Admissible(m)
  <2>1. m \in Resting /\ Live[m] = order[m] /\ Live[taker] = order[taker]
    BY <1>2, LiveDef DEF Promise!Waiting
  <2>2. order[m].side \in Side /\ order[m].price \in DOMAIN book[order[m].side]
    BY <2>1, RestingPlace DEF BookInv
  <2>3. order[taker].side \in Side
    BY <1>2, RestingKnown, OrderFields DEF BookInv
  <2>4. order[m].side # order[taker].side =>
           ~ Crosses(order[taker].side, order[taker].price, order[m].price)
    BY <1>2, <2>2, <2>3 DEF NothingToTrade, Opposite, Side
  <2> QED
    BY <2>1, <2>4 DEF Promise!Admissible, Promise!IsBuy, Crosses
<1> QED
  BY <1>2, <1>4, <1>5, <1>6 DEF Promise!Conclude

LEMMA CancelOrderImplements ==
    ASSUME BookInv, NEW id \in OrderIds, NEW u \in Users, CancelOrder(id, u)
    PROVE  \/ \E i \in DOMAIN Live : Promise!Withdraw(i)
           \/ UNCHANGED <<Live, taker, Arrived, results, cancels>>
<1> DEFINE key == Narrow(id)
<1>1. /\ taker = NoOrder
      /\ UNCHANGED <<order, taker, results, arrivals>>
  BY DEF CancelOrder
<1>2. Arrived' = Arrived
  BY <1>1 DEF Arrived
<1>3. CASE key \in active[u]
  <2>1. key \in Resting /\ Resting' = Resting \ {key}
    BY <1>3, CancelOrderBookInv
  <2>2. cancels' = Append(cancels,
           [order_id |-> key, user_id |-> order[key].user_id,
            side |-> order[key].side, price |-> order[key].price,
            quantity |-> order[key].quantity])
    BY <1>3 DEF CancelOrder
  <2> HIDE DEF key
  <2>3. key \in DOMAIN Live /\ Live[key] = order[key]
    BY <2>1, LiveDef
  <2>4. DOMAIN Live' = DOMAIN Live \ {key}
    BY <2>1, <1>1, LiveDef, LiveNextDef
  <2>5. \A j \in DOMAIN Live \ {key} : Live'[j] = Live[j]
    BY <2>4, <1>1, LiveDef, LiveNextDef
  <2>6. Live' = [j \in DOMAIN Live \ {key} |-> Live[j]]
    BY <2>4, <2>5 DEF Live
  <2>7. Promise!Withdraw(key)
    BY <2>2, <2>3, <2>6, <1>1, <1>2 DEF Promise!Withdraw
  <2> QED
    BY <2>3, <2>7
<1>4. CASE key \notin active[u]
  <2>1. Resting' = Resting
    BY <1>4, CancelOrderBookInv
  <2>2. cancels' = cancels
    BY <1>4 DEF CancelOrder
  <2>3. Live' = Live
    BY <2>1, <1>1 DEF Live
  <2> QED
    BY <2>2, <2>3, <1>1, <1>2
<1> QED
  BY <1>3, <1>4

LEMMA FillImplements ==
    ASSUME BookInv, Fill
    PROVE  \E m \in Promise!Waiting : \E qty \in 1 .. Live[m].quantity :
              Promise!Trade(m, qty)
<1>1. PICK m, p, qty : FillOf(m, p, qty)
  BY FillBookInv
<1>2. /\ taker # NoOrder /\ UNCHANGED <<taker, cancels, arrivals, lastCancel>>
  BY DEF Fill
<1> DEFINE s == order[taker].side
           o == Opposite(s)
<1>3. TypeOK /\ LevelsWellFormed /\ HistoryAgrees
  BY DEF BookInv
<1>4. taker \in DOMAIN order \ Resting /\ s \in Side /\ o \in Side /\ o # s
  BY <1>2, <1>3, RestingKnown, OrderFields DEF Opposite, Side
<1>5. /\ IsBest(o, p) /\ Crosses(s, order[taker].price, p)
      /\ 1 \in DOMAIN book[o][p] /\ m = book[o][p][1] /\ m \in Resting
      /\ p \in DOMAIN book[o]
  BY <1>1 DEF FillOf, IsBest
<1>6. /\ qty \in Nat /\ qty > 0
      /\ qty =< order[taker].quantity /\ qty =< order[m].quantity
      /\ qty = order[taker].quantity \/ qty = order[m].quantity
      /\ results' = Append(results, FillRecord(taker, m, p, qty))
      /\ DOMAIN order' = DOMAIN order
      /\ \A i \in DOMAIN order \ {taker, m} : order'[i] = order[i]
      /\ order'[taker] = [order[taker] EXCEPT !.quantity = @ - qty]
      /\ order'[m] = [order[m] EXCEPT !.quantity = @ - qty]
      /\ order[m].quantity = qty => Resting' = Resting \ {m}
      /\ order[m].quantity # qty => Resting' = Resting
  BY <1>1 DEF FillOf
<1>7. order[m].side = o /\ order[m].price = p /\ m \in DOMAIN order /\ m # taker
  BY <1>3, <1>4, <1>5 DEF LevelsWellFormed
<1>8. order[m].quantity \in Nat /\ order[taker].quantity \in Nat
  BY <1>3, <1>4, <1>7, OrderFields
<1>9. Live[m] = order[m] /\ Live[taker] = order[taker] /\ m \in Promise!Waiting
      /\ taker \in DOMAIN Live /\ m \in DOMAIN Live
  BY <1>2, <1>5, <1>7, LiveDef DEF Promise!Waiting
<1> HIDE DEF s, o
<1>10. Promise!Admissible(m)
  BY <1>4, <1>5, <1>7, <1>9 DEF Promise!Admissible, Promise!IsBuy, Crosses, s
<1>11. Promise!First(m)
  <2> SUFFICES ASSUME NEW n \in Promise!Waiting \ {m}, Live[n].side = Live[m].side
               PROVE  \/ Promise!BetterPrice(m, n)
                      \/ Live[n].price = Live[m].price /\ Promise!Earlier(m, n)
    BY DEF Promise!First
  <2>1. n \in Resting /\ Live[n] = order[n] /\ n # m
    BY <1>2, LiveDef DEF Promise!Waiting
  <2>2. /\ order[n].side = o /\ order[n].price \in DOMAIN book[o]
        /\ \E k \in DOMAIN book[o][order[n].price] : book[o][order[n].price][k] = n
    BY <2>1, <1>3, <1>7, <1>9, RestingPlace
  <2>3. AtLeastAsGood(o, p, order[n].price)
    BY <2>2, <1>5 DEF IsBest
  <2>4. CASE order[n].price = p
    <3>1. PICK k \in DOMAIN book[o][p] : book[o][p][k] = n
      BY <2>2, <2>4
    <3>2. DOMAIN book[o][p] = 1 .. Len(book[o][p]) /\ Len(book[o][p]) \in Nat
      BY <1>3, <1>4, <1>5, LevelsDef, LenProperties DEF TypeOK
    <3>3. 1 < k
      BY <2>1, <3>1, <3>2, <1>5
    <3>4. ArrivedBefore(arrivals, m, n)
      BY <3>1, <3>3, <1>3, <1>4, <1>5 DEF LevelsWellFormed
    <3>5. Promise!Earlier(m, n)
      BY <3>4 DEF ArrivedBefore, Promise!Earlier, Arrived
    <3> QED
      BY <2>1, <2>4, <3>5, <1>7, <1>9
  <2>5. CASE order[n].price # p
    <3>1. p \in Nat /\ order[n].price \in Nat
      BY <2>2, <1>3, <1>4, <1>5, LevelsDef, BookAssumption DEF TypeOK
    <3>2. IF o = "BUY" THEN p > order[n].price ELSE p < order[n].price
      BY <2>3, <2>5, <3>1 DEF AtLeastAsGood
    <3> QED
      BY <2>1, <3>2, <1>7, <1>9 DEF Promise!BetterPrice, Promise!IsBuy
  <2> QED
    BY <2>4, <2>5
<1>12. FillRecord(taker, m, p, qty) = Promise!TradeWith(m, qty)
  BY <1>7, <1>9 DEF FillRecord, Promise!TradeWith, Promise!IsBuy
<1> DEFINE D == IF qty = Live[m].quantity THEN DOMAIN Live \ {m} ELSE DOMAIN Live
<1>13. DOMAIN Live' = D
  <2>1. CASE qty = order[m].quantity
    BY <2>1, <1>2, <1>6, <1>7, <1>9, LiveDef, LiveNextDef
  <2>2. CASE qty # order[m].quantity
    BY <2>2, <1>2, <1>6, <1>9, LiveDef, LiveNextDef
  <2> QED
    BY <2>1, <2>2
<1>14. \A i \in D : i \in DOMAIN Live /\ i \in DOMAIN order
  BY LiveDef, RestingKnown
<1>15. \A i \in D : Live'[i] = IF i \in {m, taker}
                               THEN [Live[i] EXCEPT !.quantity = @ - qty]
                               ELSE Live[i]
  <2> SUFFICES ASSUME NEW i \in D
               PROVE  Live'[i] = IF i \in {m, taker}
                                 THEN [Live[i] EXCEPT !.quantity = @ - qty]
                                 ELSE Live[i]
    OBVIOUS
  <2>1. Live'[i] = order'[i] /\ Live[i] = order[i] /\ i \in DOMAIN order
    BY <1>13, <1>14, LiveDef, LiveNextDef
  <2>2. CASE i = m
    BY <2>1, <2>2, <1>6
  <2>3. CASE i = taker
    BY <2>1, <2>3, <1>6
  <2>4. CASE i \notin {m, taker}
    BY <2>1, <2>4, <1>6
  <2> QED
    BY <2>2, <2>3, <2>4
<1> HIDE DEF D
<1>16. Live' = [i \in D |-> IF i \in {m, taker}
                            THEN [Live[i] EXCEPT !.quantity = @ - qty]
                            ELSE Live[i]]
  BY <1>13, <1>15 DEF Live
<1>17. Arrived' = Arrived
  BY <1>2 DEF Arrived
<1>18. qty \in 1 .. Live[m].quantity
  BY <1>6, <1>8, <1>9
<1>19. Promise!Trade(m, qty)
  BY <1>2, <1>6, <1>9, <1>10, <1>11, <1>12, <1>16, <1>17 DEF Promise!Trade, D
<1> QED
  BY <1>9, <1>18, <1>19

LEMMA StepImplements ==
    BookInv /\ [Next]_vars => [Promise!Next]_(Promise!bookVars)
<1> SUFFICES ASSUME BookInv, [Next]_vars
             PROVE  Promise!Next \/ UNCHANGED <<Live, taker, Arrived, results, cancels>>
  BY DEF Promise!bookVars
<1>1. ASSUME NEW i \in OrderIds, NEW u \in Users, NEW s \in Side, NEW p \in Prices,
             NEW q \in Quantities, NewOrder(i, u, s, p, q)
      PROVE  Promise!Next
  BY <1>1, NewOrderImplements DEF Promise!Next, Side
<1>2. CASE Fill
  BY <1>2, FillImplements DEF Promise!Next
<1>3. CASE Rest
  BY <1>3, RestImplements DEF Promise!Next
<1>4. CASE Exhausted
  BY <1>4, ExhaustedImplements DEF Promise!Next
<1>5. ASSUME NEW i \in OrderIds, NEW u \in Users, CancelOrder(i, u)
      PROVE  Promise!Next \/ UNCHANGED <<Live, taker, Arrived, results, cancels>>
  BY <1>5, CancelOrderImplements DEF Promise!Next
<1>6. CASE UNCHANGED vars
  BY <1>6 DEF vars, Live, Arrived, Resting, RestingOn
<1> QED
  BY <1>1, <1>2, <1>3, <1>4, <1>5, <1>6 DEF Next

\* The book with its levels, lists and index trades exactly as the bare set of
\* live orders in price-time priority does, for every value of the constants.
THEOREM BookKeepsPromise == Spec => KeepsPromise
<1>1. Init => Promise!Init
  BY InitImplements
<1>2. BookInv /\ [Next]_vars => [Promise!Next]_(Promise!bookVars)
  BY StepImplements
<1> QED
  BY <1>1, <1>2, BookCorrect, PTL DEF Spec, KeepsPromise, Promise!Spec

-----------------------------------------------------------------------------
(***************************************************************************)
(* What becomes of an order and of a cancel request.                       *)
(***************************************************************************)

\* The results are a finite sequence of fills, each of a natural quantity.
LEMMA TradedNat ==
    ASSUME TypeOK, NEW i
    PROVE  /\ IsFiniteSet(DOMAIN results)
           /\ Traded(i) \in Nat
<1>1. results \in Seq(MatchRecord)
  BY DEF TypeOK
<1>2. DOMAIN results = 1 .. Len(results) /\ Len(results) \in Nat
  BY <1>1, LenProperties
<1>3. \A k \in DOMAIN results : results[k].match_quantity \in Nat
  <2>1. \A k \in DOMAIN results : results[k] \in MatchRecord
    BY <1>1, <1>2, ElementOfSeq
  <2> QED BY <2>1 DEF MatchRecord
<1>4. IsFiniteSet(DOMAIN results)
  BY <1>2, FS_Interval
<1>5. IsFiniteSet({k \in DOMAIN results : i \in {results[k].maker, results[k].taker}})
  BY <1>4, FS_Subset
<1> QED BY <1>3, <1>4, <1>5, SumType DEF Traded

\* A new match record adds to what its two orders have traded, and to no other's.
LEMMA TradedAppend ==
    ASSUME TypeOK, NEW r \in MatchRecord, results' = Append(results, r), NEW i
    PROVE  Traded(i)' = Traded(i) + (IF i \in {r.maker, r.taker} THEN r.match_quantity ELSE 0)
<1> DEFINE n == Len(results) + 1
           f == [k \in DOMAIN results |-> results[k].match_quantity]
           g == [k \in DOMAIN results' |-> results'[k].match_quantity]
           S == {k \in DOMAIN results : i \in {results[k].maker, results[k].taker}}
           T == {k \in DOMAIN results' : i \in {results'[k].maker, results'[k].taker}}
<1>1. results \in Seq(MatchRecord)
  BY DEF TypeOK
<1>2. /\ DOMAIN results = 1 .. Len(results) /\ Len(results) \in Nat
      /\ DOMAIN results' = 1 .. n /\ results'[n] = r
      /\ \A k \in 1 .. Len(results) : results'[k] = results[k]
  BY <1>1, AppendProperties, LenProperties
<1>3. IsFiniteSet(S)
  BY TradedNat, FS_Subset
<1>4. \A k \in S : g[k] = f[k]
  BY <1>2
<1>5. g[n] = r.match_quantity /\ n \notin S
  BY <1>2
<1>6. \A k \in S \cup {n} : g[k] \in Int
  <2>1. \A k \in DOMAIN results : results[k] \in MatchRecord
    BY <1>1, <1>2, ElementOfSeq
  <2>2. \A k \in DOMAIN results' : results'[k] \in MatchRecord
    BY <1>2, <2>1
  <2>3. \A k \in DOMAIN results' : results'[k].match_quantity \in Nat
    BY <2>2 DEF MatchRecord
  <2> QED BY <1>2, <2>3
<1>7. T = IF i \in {r.maker, r.taker} THEN S \cup {n} ELSE S
  BY <1>2
<1>8. Traded(i) = SumFunctionOnSet(f, S) /\ Traded(i)' = SumFunctionOnSet(g, T)
  BY DEF Traded
<1>9. SumFunctionOnSet(f, S) \in Nat
  BY <1>8, TradedNat
<1> HIDE DEF n, f, g, S, T
<1>10. SumFunctionOnSet(g, S) = SumFunctionOnSet(f, S)
  BY <1>3, <1>4, SumSame
<1>11. SumFunctionOnSet(g, S \cup {n}) = g[n] + SumFunctionOnSet(g, S)
  BY <1>3, <1>5, <1>6, SumAdd
<1>12. r.match_quantity \in Nat
  BY DEF MatchRecord
<1> QED BY <1>5, <1>7, <1>8, <1>9, <1>10, <1>11, <1>12

\* The cancel records of an order.
RecsOf(i) == {k \in DOMAIN cancels : cancels[k].order_id = i}

\* What AccountedFor says of one order, in terms of the orders that can still trade.
Accounted(i, q) ==
    /\ q = Traded(i) + order[i].quantity
    /\ order[i].quantity > 0 =>
          \/ i \in DOMAIN Live /\ RecsOf(i) = {}
          \/ /\ i \notin DOMAIN Live
             /\ \E k \in RecsOf(i) : RecsOf(i) = {k}
                                     /\ cancels[k].quantity = order[i].quantity

\* The inductive invariant behind AccountedFor: cancel records are of known orders.
AccountInv ==
    /\ BookInv
    /\ \A k \in DOMAIN arrivals : Accounted(arrivals[k].order_id, arrivals[k].quantity)
    /\ \A k \in DOMAIN cancels : cancels[k].order_id \in DOMAIN order

LEMMA AccountInvImplies == AccountInv => AccountedFor
<1> SUFFICES ASSUME AccountInv, NEW k \in DOMAIN arrivals
             PROVE  LET i    == arrivals[k].order_id
                        left == order[i].quantity
                        recs == {n \in DOMAIN cancels : cancels[n].order_id = i}
                    IN  /\ arrivals[k].quantity = Traded(i) + left
                        /\ left > 0 =>
                             \/ (i = taker \/ i \in Resting) /\ recs = {}
                             \/ /\ i # taker /\ i \notin Resting
                                /\ \E n \in recs : recs = {n} /\ cancels[n].quantity = left
  BY DEF AccountedFor, Range
<1> DEFINE i == arrivals[k].order_id
<1>1. i \in DOMAIN order
  BY DEF AccountInv, BookInv, HistoryAgrees
<1>2. i \in DOMAIN Live <=> i = taker \/ i \in Resting
  BY <1>1, LiveDef, RestingKnown DEF AccountInv
<1>3. Accounted(i, arrivals[k].quantity)
  BY DEF AccountInv
<1> QED BY <1>2, <1>3 DEF Accounted, RecsOf

LEMMA InitAccountInv == Init => AccountInv
<1> SUFFICES ASSUME Init PROVE AccountInv
  OBVIOUS
<1>1. BookInv
  BY InitBookInv
<1> QED BY <1>1 DEF Init, AccountInv

LEMMA NewOrderAccountInv ==
    ASSUME AccountInv, BookInv', NEW i \in OrderIds, NEW u \in Users, NEW s \in Side,
           NEW p \in Prices, NEW q \in Quantities, NewOrder(i, u, s, p, q)
    PROVE  AccountInv'
<1>1. TypeOK /\ HistoryAgrees /\ arrivals \in Seq(Arrival)
  BY DEF AccountInv, BookInv, TypeOK
<1>2. /\ i \notin DOMAIN order /\ DOMAIN order' = DOMAIN order \cup {i}
      /\ \A j \in DOMAIN order : order'[j] = order[j]
      /\ order'[i].quantity = q
      /\ arrivals' = Append(arrivals, [order_id |-> i, quantity |-> q])
      /\ UNCHANGED <<results, cancels>>
  BY DEF NewOrder
<1>3. DOMAIN Live' = DOMAIN Live \cup {i}
  BY NewOrderImplements DEF AccountInv, Promise!Submit
<1>4. \A j : Traded(j)' = Traded(j) /\ RecsOf(j)' = RecsOf(j)
  BY <1>2 DEF Traded, RecsOf
<1>5. /\ DOMAIN arrivals' = 1 .. Len(arrivals) + 1 /\ DOMAIN arrivals = 1 .. Len(arrivals)
      /\ Len(arrivals) \in Nat
      /\ arrivals'[Len(arrivals) + 1] = [order_id |-> i, quantity |-> q]
      /\ \A k \in 1 .. Len(arrivals) : arrivals'[k] = arrivals[k]
  <2>1. [order_id |-> i, quantity |-> q] \in Arrival
    BY DEF Arrival
  <2> QED BY <1>1, <1>2, <2>1, AppendProperties, LenProperties
<1>6. ASSUME NEW k \in DOMAIN arrivals
      PROVE  Accounted(arrivals[k].order_id, arrivals[k].quantity)'
  <2>1. arrivals'[k] = arrivals[k]
    BY <1>5
  <2>2. arrivals[k].order_id \in DOMAIN order
    BY <1>1 DEF HistoryAgrees
  <2>3. Accounted(arrivals[k].order_id, arrivals[k].quantity)
    BY DEF AccountInv
  <2> QED BY <1>2, <1>3, <1>4, <2>1, <2>2, <2>3 DEF Accounted
<1>7. Traded(i) = 0 /\ RecsOf(i) = {}
  <2>1. {k \in DOMAIN results : i \in {results[k].maker, results[k].taker}} = {}
    BY <1>1, <1>2 DEF HistoryAgrees
  <2>2. Traded(i) = 0
    BY <2>1, SumEmpty DEF Traded
  <2> QED BY <1>2, <2>2 DEF RecsOf, AccountInv
<1>8. Accounted(i, q)'
  BY <1>2, <1>3, <1>4, <1>7, BookAssumption DEF Accounted
<1>9. \A k \in DOMAIN arrivals' : Accounted(arrivals[k].order_id, arrivals[k].quantity)'
  BY <1>5, <1>6, <1>8
<1>10. \A k \in DOMAIN cancels' : cancels'[k].order_id \in DOMAIN order'
  BY <1>2 DEF AccountInv
<1> QED BY <1>9, <1>10 DEF AccountInv

LEMMA ConcludeAccountInv ==
    ASSUME AccountInv, BookInv', Rest \/ Exhausted
    PROVE  AccountInv'
<1>1. UNCHANGED <<order, results, cancels, arrivals>>
  BY DEF Rest, Exhausted
<1>2. \A i : Traded(i)' = Traded(i) /\ RecsOf(i)' = RecsOf(i)
  BY <1>1 DEF Traded, RecsOf
<1>3. ASSUME NEW i \in DOMAIN order, order[i].quantity > 0
      PROVE  i \in DOMAIN Live' <=> i \in DOMAIN Live
  <2>1. CASE Rest
    <3>1. order[taker].quantity > 0 /\ taker # NoOrder /\ taker' = NoOrder
      BY <2>1 DEF Rest
    <3>2. Resting' = Resting \cup {taker}
      BY <2>1, RestBookInv DEF AccountInv
    <3> QED BY <3>1, <3>2, LiveDef, LiveNextDef
  <2>2. CASE Exhausted
    <3>1. order[taker].quantity = 0 /\ taker' = NoOrder
      BY <2>2 DEF Exhausted
    <3>2. Resting' = Resting
      BY <2>2, ExhaustedBookInv DEF AccountInv
    <3> QED BY <1>3, <3>1, <3>2, LiveDef, LiveNextDef
  <2> QED BY <2>1, <2>2
<1>4. \A k \in DOMAIN arrivals : arrivals[k].order_id \in DOMAIN order
  BY DEF AccountInv, BookInv, HistoryAgrees
<1>5. \A k \in DOMAIN arrivals' : Accounted(arrivals[k].order_id, arrivals[k].quantity)'
  BY <1>1, <1>2, <1>3, <1>4 DEF AccountInv, Accounted
<1> QED BY <1>1, <1>5 DEF AccountInv

LEMMA FillAccountInv ==
    ASSUME AccountInv, BookInv', Fill
    PROVE  AccountInv'
<1>1. BookInv /\ TypeOK /\ HistoryAgrees
  BY DEF AccountInv, BookInv
<1>2. PICK m, p, qty : FillOf(m, p, qty)
  BY <1>1, FillBookInv
<1>3. taker # NoOrder /\ UNCHANGED <<taker, cancels, arrivals, lastCancel>>
  BY DEF Fill
<1> DEFINE r == FillRecord(taker, m, p, qty)
<1>4. /\ qty \in Nat /\ qty =< order[m].quantity /\ qty =< order[taker].quantity
      /\ results' = Append(results, r)
      /\ DOMAIN order' = DOMAIN order
      /\ \A i \in DOMAIN order \ {taker, m} : order'[i] = order[i]
      /\ order'[taker] = [order[taker] EXCEPT !.quantity = @ - qty]
      /\ order'[m] = [order[m] EXCEPT !.quantity = @ - qty]
      /\ order[m].quantity = qty => Resting' = Resting \ {m}
      /\ order[m].quantity # qty => Resting' = Resting
      /\ m \in Resting
  BY <1>2 DEF FillOf
<1>5. m \in DOMAIN order /\ taker \in DOMAIN order /\ m # taker
  BY <1>1, <1>3, <1>4, RestingKnown
<1>6. /\ order[m] \in Order /\ order[taker] \in Order
      /\ order[m].quantity \in Nat /\ order[taker].quantity \in Nat
  BY <1>1, <1>5, OrderFields
<1>7. order'[m].quantity = order[m].quantity - qty
      /\ order'[taker].quantity = order[taker].quantity - qty
  BY <1>4, <1>6 DEF Order
<1>8. r.maker = m /\ r.taker = taker /\ r.match_quantity = qty
  BY DEF FillRecord
<1>9. r \in MatchRecord
  <2>2. order[taker].user_id \in Users /\ order[m].user_id \in Users
        /\ order[taker].price \in Prices /\ order[m].price \in Prices /\ p \in Prices
        /\ m \in OrderIds /\ taker \in OrderIds
    <3>1. order[taker].side \in Side /\ Opposite(order[taker].side) \in Side
      BY <1>1, <1>5, OrderFields DEF Opposite, Side
    <3>2. p \in Prices
      BY <1>1, <1>2, <3>1, LevelsDef DEF FillOf, IsBest, TypeOK
    <3> QED BY <1>1, <1>5, <3>2, OrderFields
  <2> QED BY <1>4, <2>2 DEF FillRecord, MatchRecord
<1> HIDE DEF r
<1>10. \A i : Traded(i)' = Traded(i) + (IF i \in {m, taker} THEN qty ELSE 0)
  BY <1>1, <1>4, <1>8, <1>9, TradedAppend
<1>11. \A i : RecsOf(i)' = RecsOf(i) /\ Traded(i) \in Nat
  BY <1>1, <1>3, TradedNat DEF RecsOf
<1>12. ASSUME NEW i \in DOMAIN order, order'[i].quantity > 0
       PROVE  i \in DOMAIN Live' <=> i \in DOMAIN Live
  <2>1. i = m => order[m].quantity # qty
    BY <1>7, <1>12, <1>6
  <2> QED BY <2>1, <1>3, <1>4, LiveDef, LiveNextDef
<1>13. ASSUME NEW k \in DOMAIN arrivals
       PROVE  Accounted(arrivals[k].order_id, arrivals[k].quantity)'
  <2>0. PICK i, q : i = arrivals[k].order_id /\ q = arrivals[k].quantity
    OBVIOUS
  <2>1. i \in DOMAIN order /\ order[i].quantity \in Nat
    BY <1>1, <2>0, OrderFields DEF HistoryAgrees
  <2>2. Accounted(i, q)
    BY <2>0 DEF AccountInv
  <2>3. arrivals'[k] = arrivals[k]
    BY <1>3
  <2>4. CASE i \notin {m, taker}
    <3>1. order'[i] = order[i] /\ Traded(i)' = Traded(i)
      BY <1>4, <1>10, <1>11, <2>1, <2>4
    <3>2. Accounted(i, q)'
      BY <1>3, <1>11, <1>12, <2>1, <2>2, <3>1 DEF Accounted
    <3> QED BY <2>0, <2>3, <3>2
  <2>5. CASE i \in {m, taker}
    <3>1. order'[i].quantity = order[i].quantity - qty /\ Traded(i)' = Traded(i) + qty
      BY <1>7, <1>10, <2>5
    <3>2. i \in DOMAIN Live
      BY <1>3, <1>4, <2>5, LiveDef
    <3>3. order'[i].quantity > 0 => order[i].quantity > 0
      BY <1>4, <2>1, <3>1
    <3>4. q = Traded(i)' + order'[i].quantity
      BY <1>4, <1>11, <2>1, <2>2, <3>1 DEF Accounted
    <3>5. Accounted(i, q)'
      BY <1>11, <1>12, <2>1, <2>2, <3>2, <3>3, <3>4 DEF Accounted
    <3> QED BY <2>0, <2>3, <3>5
  <2> QED BY <2>4, <2>5
<1> QED BY <1>3, <1>4, <1>13 DEF AccountInv

LEMMA CancelAccountInv ==
    ASSUME AccountInv, BookInv', NEW id \in OrderIds, NEW u \in Users, CancelOrder(id, u)
    PROVE  AccountInv'
<1> DEFINE key == Narrow(id)
<1>1. BookInv /\ TypeOK /\ HistoryAgrees
  BY DEF AccountInv, BookInv
<1>2. taker = NoOrder /\ UNCHANGED <<order, taker, results, arrivals>>
  BY DEF CancelOrder
<1>3. \A i : Traded(i)' = Traded(i)
  BY <1>2 DEF Traded
<1>4. CASE key \in active[u]
  <2> DEFINE c == [order_id |-> key, user_id |-> order[key].user_id,
                   side |-> order[key].side, price |-> order[key].price,
                   quantity |-> order[key].quantity]
             n == Len(cancels) + 1
  <2>1. key \in Resting /\ Resting' = Resting \ {key}
    BY <1>1, <1>4, CancelOrderBookInv
  <2>2. cancels' = Append(cancels, c)
    BY <1>4 DEF CancelOrder
  <2> HIDE DEF key
  <2>3. key \in DOMAIN order
    BY <1>1, <2>1, RestingKnown
  <2>4. /\ DOMAIN cancels' = 1 .. n /\ DOMAIN cancels = 1 .. Len(cancels)
        /\ Len(cancels) \in Nat
        /\ cancels'[n] = c
        /\ \A k \in 1 .. Len(cancels) : cancels'[k] = cancels[k]
    <3>1. c \in CancelRecord
      BY <1>1, <2>3, OrderFields DEF CancelRecord
    <3>2. cancels \in Seq(CancelRecord)
      BY <1>1 DEF TypeOK
    <3> HIDE DEF c
    <3> QED BY <2>2, <3>1, <3>2, AppendProperties, LenProperties
  <2>5. \A i : i # key => RecsOf(i)' = RecsOf(i)
    BY <2>4 DEF RecsOf
  <2>6. RecsOf(key)' = RecsOf(key) \cup {n}
    BY <2>4 DEF RecsOf
  <2>7. DOMAIN Live' = DOMAIN Live \ {key} /\ key \in DOMAIN Live
    BY <1>2, <2>1, LiveDef, LiveNextDef
  <2>8. ASSUME NEW k \in DOMAIN arrivals
        PROVE  Accounted(arrivals[k].order_id, arrivals[k].quantity)'
    <3>0. PICK i, q : i = arrivals[k].order_id /\ q = arrivals[k].quantity
      OBVIOUS
    <3>1. Accounted(i, q) /\ arrivals'[k] = arrivals[k]
      BY <1>2, <3>0 DEF AccountInv
    <3>2. CASE i # key
      <4>1. \A x \in RecsOf(i) : cancels'[x] = cancels[x]
        BY <2>4 DEF RecsOf
      <4>2. Accounted(i, q)'
        BY <1>2, <1>3, <2>5, <2>7, <3>1, <3>2, <4>1 DEF Accounted
      <4> QED BY <3>0, <3>1, <4>2
    <3>3. CASE i = key
      <4>1. order[i].quantity > 0 => RecsOf(i)' = {n}
        BY <2>6, <2>7, <3>1, <3>3 DEF Accounted
      <4>2. cancels'[n].quantity = order[i].quantity
        BY <2>4, <3>3
      <4>3. Accounted(i, q)'
        BY <1>2, <1>3, <2>7, <3>1, <3>3, <4>1, <4>2 DEF Accounted
      <4> QED BY <3>0, <3>1, <4>3
    <3> QED BY <3>2, <3>3
  <2>9. \A k \in DOMAIN cancels' : cancels'[k].order_id \in DOMAIN order'
    BY <1>2, <2>3, <2>4 DEF AccountInv
  <2> QED BY <1>2, <2>8, <2>9 DEF AccountInv
<1>5. CASE key \notin active[u]
  <2>1. Resting' = Resting /\ cancels' = cancels
    BY <1>1, <1>5, CancelOrderBookInv DEF CancelOrder
  <2>2. Live' = Live /\ \A i : RecsOf(i)' = RecsOf(i)
    BY <1>2, <2>1 DEF Live, RecsOf
  <2> QED BY <1>2, <1>3, <2>1, <2>2 DEF AccountInv, Accounted
<1> QED BY <1>4, <1>5

LEMMA StepAccountInv == AccountInv /\ [Next]_vars => AccountInv'
<1> SUFFICES ASSUME AccountInv, [Next]_vars PROVE AccountInv'
  OBVIOUS
<1>1. BookInv'
  BY StepBookInv DEF AccountInv
<1>2. ASSUME NEW i \in OrderIds, NEW u \in Users, NEW s \in Side, NEW p \in Prices,
             NEW q \in Quantities, NewOrder(i, u, s, p, q)
      PROVE  AccountInv'
  BY <1>1, <1>2, NewOrderAccountInv
<1>3. ASSUME NEW i \in OrderIds, NEW u \in Users, CancelOrder(i, u)
      PROVE  AccountInv'
  BY <1>1, <1>3, CancelAccountInv
<1>4. CASE Fill
  BY <1>1, <1>4, FillAccountInv
<1>5. CASE Rest \/ Exhausted
  BY <1>1, <1>5, ConcludeAccountInv
<1>6. CASE UNCHANGED vars
  <2>1. \A i : Traded(i)' = Traded(i) /\ RecsOf(i)' = RecsOf(i)
    BY <1>6 DEF vars, Traded, RecsOf
  <2>2. Live' = Live
    BY <1>6 DEF vars, Live, Resting, RestingOn
  <2> QED BY <1>1, <1>6, <2>1, <2>2 DEF vars, AccountInv, Accounted
<1> QED BY <1>2, <1>3, <1>4, <1>5, <1>6 DEF Next

\* Nothing of an order is lost or made up (OrderBook.hpp: matchBuyOrder, matchSellOrder,
\* cancelOrder): what was submitted is what its match records add up to and what is
\* left, and what is left can still trade or was reported once for release.
THEOREM NothingLost == Spec => []AccountedFor
<1>1. Init => AccountInv
  BY InitAccountInv
<1>2. AccountInv /\ [Next]_vars => AccountInv'
  BY StepAccountInv
<1>3. AccountInv => AccountedFor
  BY AccountInvImplies
<1> QED BY <1>1, <1>2, <1>3, PTL DEF Spec

\* With the ids the generator makes, all of them at or above 2^32 from a second after
\* its epoch on, no cancel request ever takes an order off the book: the id that
\* cancelOrder(const uint32_t&, ...) looks up is none of theirs (OrderBook.hpp:123).
THEOREM NoCancelTakesEffect ==
    ASSUME \A i \in OrderIds : i >= IdSpace
    PROVE  Spec => [](cancels = << >>)
<1> DEFINE Inv == cancels = << >>
<1>1. Init => Inv
  BY DEF Init
<1>2. TypeOK /\ Inv /\ [Next]_vars => Inv'
  <2> SUFFICES ASSUME TypeOK, cancels = << >>, [Next]_vars PROVE cancels' = << >>
    OBVIOUS
  <2>1. CASE \E i \in OrderIds, u \in Users, s \in Side, p \in Prices, q \in Quantities :
                NewOrder(i, u, s, p, q)
    BY <2>1 DEF NewOrder
  <2>2. ASSUME NEW i \in OrderIds, NEW u \in Users, CancelOrder(i, u)
        PROVE  cancels' = << >>
    <3>1. Narrow(i) \in Nat /\ Narrow(i) < IdSpace
      BY BookAssumption DEF Narrow
    <3>2. Narrow(i) \notin OrderIds
      BY <3>1, BookAssumption
    <3>3. Narrow(i) \notin active[u]
      BY <3>2 DEF TypeOK
    <3> QED BY <2>2, <3>3 DEF CancelOrder
  <2>3. CASE Fill \/ Rest \/ Exhausted
    BY <2>3 DEF Fill, Rest, Exhausted
  <2>4. CASE UNCHANGED vars
    BY <2>4 DEF vars
  <2> QED BY <2>1, <2>2, <2>3, <2>4 DEF Next
<1> HIDE DEF Inv
<1>3. Spec => []Inv
  BY <1>1, <1>2, TypeCorrect, PTL DEF Spec
<1> QED BY <1>3 DEF Inv

=============================================================================
