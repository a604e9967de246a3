----------------------- MODULE OrderIdGeneratorProofs -----------------------
(***************************************************************************)
(* How far apart two calls of generate() with one id must be, for every    *)
(* width of the fields and any number of threads.                          *)
(***************************************************************************)
EXTENDS OrderIdGenerator, SequenceTheorems, TLAPS

\* Quotient and remainder.
LEMMA DivMod ==
    ASSUME NEW a \in Nat, NEW m \in Nat \ {0}
    PROVE  a % m \in 0 .. m - 1 /\ a \div m \in Nat /\ a = (a \div m) * m + (a % m)
OBVIOUS

\* Different multiples of m are at least m apart.
LEMMA MultiplesApart ==
    ASSUME NEW x \in Int, NEW y \in Int, NEW m \in Nat \ {0}, x < y
    PROVE  x * m \in Int /\ y * m \in Int /\ y * m - x * m >= m
<1> DEFINE d == y - x
<1>1. d \in Int /\ d >= 1 /\ d * m = y * m - x * m
  OBVIOUS
<1> HIDE DEF d
<1>2. d * m >= m
  BY <1>1
<1> QED
  BY <1>1, <1>2

\* A number determines its quotient and remainder.
LEMMA QuotientUnique ==
    ASSUME NEW x \in Int, NEW y \in Int, NEW m \in Nat \ {0},
           NEW r \in 0 .. m - 1, NEW s \in 0 .. m - 1, x * m + r = y * m + s
    PROVE  x = y /\ r = s
<1>1. x * m \in Int /\ y * m \in Int
  OBVIOUS
<1>2. ~ (x < y)
  BY <1>1, MultiplesApart
<1>3. ~ (y < x)
  BY <1>1, MultiplesApart
<1>4. x = y
  BY <1>2, <1>3
<1> QED
  BY <1>1, <1>4

\* Numbers with one remainder are m apart.
LEMMA SameRemainder ==
    ASSUME NEW a \in Nat, NEW b \in Nat, NEW m \in Nat \ {0}, a < b, a % m = b % m
    PROVE  b - a >= m
<1> DEFINE x == a \div m
           y == b \div m
           r == a % m
<1>1. x \in Int /\ y \in Int /\ r \in Int /\ a = x * m + r /\ b = y * m + r
  BY DivMod
<1> HIDE DEF x, y, r
<1>2. x * m \in Int /\ y * m \in Int
  BY <1>1
<1>3. x < y
  <2>1. ~ (x = y)
    BY <1>1, <1>2
  <2>2. ~ (y < x)
    BY <1>1, <1>2, MultiplesApart
  <2> QED
    BY <1>1, <2>1, <2>2
<1> QED
  BY <1>1, <1>2, <1>3, MultiplesApart

\* The remainder is that of any number a multiple of m away.
LEMMA RemainderOf ==
    ASSUME NEW a \in Nat, NEW m \in Nat \ {0}, NEW x \in Int, NEW r \in 0 .. m - 1,
           a = x * m + r
    PROVE  a % m = r
BY DivMod, QuotientUnique

\* Counting on, also past the end of a counter whose size is a multiple of m,
\* counts on in the remainders.
LEMMA CounterWraps ==
    ASSUME NEW c \in Nat, NEW n \in Nat, NEW m \in Nat \ {0}, NEW k \in Nat \ {0},
           NEW w \in Nat \ {0}, w = k * m, c % m = n % m
    PROVE  ((c + 1) % w) % m = (n + 1) % m
<1> DEFINE r == (n + 1) % m
           x == n \div m
           y == c \div m
           z == (n + 1) \div m
           q == (c + 1) \div w
           v == (c + 1) % w
<1>1. /\ n = x * m + (n % m) /\ c = y * m + (n % m) /\ n + 1 = z * m + r
      /\ c + 1 = q * w + v
      /\ x \in Int /\ y \in Int /\ z \in Int /\ q \in Int /\ n % m \in Int
      /\ r \in 0 .. m - 1 /\ v \in Nat
  <2>1. n = x * m + (n % m) /\ x \in Int /\ n % m \in Int
    BY DivMod
  <2>2. c = y * m + (c % m) /\ y \in Int
    BY DivMod
  <2>3. n + 1 = z * m + r /\ z \in Int /\ r \in 0 .. m - 1
    <3>1. n + 1 \in Nat
      OBVIOUS
    <3> QED
      BY <3>1, DivMod
  <2>4. c + 1 = q * w + v /\ q \in Int /\ v \in Nat
    <3>1. c + 1 \in Nat
      OBVIOUS
    <3>2. \A e \in Nat : e % w \in 0 .. w - 1 /\ e \div w \in Nat /\ e = (e \div w) * w + (e % w)
      BY DivMod
    <3>3. /\ (c + 1) % w \in 0 .. w - 1
          /\ (c + 1) \div w \in Nat
          /\ c + 1 = ((c + 1) \div w) * w + ((c + 1) % w)
      BY <3>1, <3>2, Zenon
    <3> QED
      BY <3>3
  <2> QED
    BY <2>1, <2>2, <2>3, <2>4
<1> HIDE DEF r, x, y, z, q, v
<1>2. v = (z + y - x - q * k) * m + r
  <2>1. x * m \in Int /\ y * m \in Int /\ z * m \in Int /\ q * k \in Int
    BY <1>1
  <2>2. v = z * m + y * m - x * m - q * w + r
    BY <1>1, <2>1
  <2>3. q * w = (q * k) * m
    BY <1>1
  <2>4. (z + y - x - q * k) * m = z * m + y * m - x * m - (q * k) * m
    BY <1>1, <2>1
  <2> QED
    BY <2>2, <2>3, <2>4
<1>3. z + y - x - q * k \in Int
  BY <1>1
<1>4. v % m = r
  BY <1>1, <1>2, <1>3, RemainderOf
<1> QED
  BY <1>4 DEF r, v

-----------------------------------------------------------------------------
(***************************************************************************)
(* The inductive invariant: the k-th id is made of its timestamp and of    *)
(* k - 1, and the counter agrees with the number of calls.                 *)
(***************************************************************************)
GenInv ==
    /\ clock \in Nat
    /\ sequence \in Nat
    /\ timestamp \in [Threads -> Nat \cup {NotCalling}]
    /\ generated \in Seq([timestamp : Nat, id : Nat])
    /\ sequence % SequenceSpace = Len(generated) % SequenceSpace
    /\ \A k \in 1 .. Len(generated) :
          generated[k].id = (generated[k].timestamp * NodeSpace + node_id) * SequenceSpace
                            + ((k - 1) % SequenceSpace)

LEMMA GenStep ==
    ASSUME Widths, GenInv, [GenNext]_genVars
    PROVE  GenInv'
<1> USE DEF Widths
<1>1. CASE Tick
  BY <1>1 DEF Tick, GenInv
<1>2. ASSUME NEW t \in Threads, ReadClock(t)
      PROVE  GenInv'
  BY <1>2 DEF ReadClock, GenInv
<1>3. ASSUME NEW t \in Threads, Draw(t)
      PROVE  GenInv'
  <2> DEFINE ts == timestamp[t]
             call == [timestamp |-> ts, id |-> Pack(ts, sequence)]
             n == Len(generated)
  <2>1. /\ ts \in Nat
        /\ sequence \in Nat /\ n \in Nat
        /\ generated \in Seq([timestamp : Nat, id : Nat])
        /\ sequence % SequenceSpace = n % SequenceSpace
    BY <1>3, LenProperties DEF Draw, GenInv
  <2>2. /\ Pack(ts, sequence) = (ts * NodeSpace + node_id) * SequenceSpace
                                + (n % SequenceSpace)
        /\ Pack(ts, sequence) \in Nat
    <3>1. n % SequenceSpace \in Nat
      BY <2>1, DivMod
    <3>2. ts * NodeSpace + node_id \in Nat
      BY <2>1 DEF node_id
    <3>3. (ts * NodeSpace + node_id) * SequenceSpace \in Nat
      BY <3>2
    <3> QED
      BY <2>1, <3>1, <3>3 DEF Pack
  <2>3. generated' = Append(generated, call) /\ clock' = clock
        /\ sequence' = (sequence + 1) % CounterSpace
        /\ timestamp' = [timestamp EXCEPT ![t] = NotCalling]
    BY <1>3 DEF Draw
  <2>4. call \in [timestamp : Nat, id : Nat]
    BY <2>1, <2>2
  <2>5. /\ generated' \in Seq([timestamp : Nat, id : Nat])
        /\ Len(generated') = n + 1
        /\ \A k \in 1 .. n : generated'[k] = generated[k]
        /\ generated'[n + 1] = call
    BY <2>1, <2>3, <2>4, AppendProperties
  <2>6. /\ sequence' \in Nat
        /\ sequence' % SequenceSpace = (n + 1) % SequenceSpace
    <3>1. PICK k \in 1 .. CounterSpace : CounterSpace = k * SequenceSpace
      OBVIOUS
    <3>2. k \in Nat \ {0} /\ CounterSpace \in Nat \ {0}
      BY <3>1
    <3>3. sequence' \in Nat
      BY <2>1, <2>3, <3>2, sequence + 1 \in Nat, DivMod
    <3> QED
      BY <2>1, <2>3, <3>1, <3>2, <3>3, CounterWraps
  <2>7. \A k \in 1 .. Len(generated') :
          generated'[k].id = (generated'[k].timestamp * NodeSpace + node_id) * SequenceSpace
                             + ((k - 1) % SequenceSpace)
    <3> SUFFICES ASSUME NEW k \in 1 .. n + 1
                 PROVE  generated'[k].id =
                           (generated'[k].timestamp * NodeSpace + node_id) * SequenceSpace
                           + ((k - 1) % SequenceSpace)
      BY <2>5
    <3>1. CASE k \in 1 .. n
      BY <3>1, <2>5 DEF GenInv
    <3>2. CASE k = n + 1
      <4>1. k - 1 = n /\ generated'[k] = call
        BY <3>2, <2>1, <2>5
      <4> QED
        BY <4>1, <2>2
    <3> QED
      BY <3>1, <3>2, <2>1
  <2> QED
    BY <2>3, <2>5, <2>6, <2>7 DEF GenInv
<1>4. CASE UNCHANGED genVars
  BY <1>4 DEF genVars, GenInv
<1> QED
  BY <1>1, <1>2, <1>3, <1>4 DEF GenNext

LEMMA GenInvSeparates ==
    ASSUME Widths, GenInv
    PROVE  RepeatsFarApart
<1> USE DEF Widths
<1> SUFFICES ASSUME NEW j \in DOMAIN generated, NEW k \in DOMAIN generated,
                    j < k, generated[j].id = generated[k].id
             PROVE  /\ generated[j].timestamp = generated[k].timestamp
                    /\ k - j >= SequenceSpace
  BY DEF RepeatsFarApart
<1> DEFINE x == generated[j].timestamp
           y == generated[k].timestamp
           a == j - 1
           b == k - 1
<1>1. /\ Len(generated) \in Nat /\ DOMAIN generated = 1 .. Len(generated)
      /\ \A i \in 1 .. Len(generated) : generated[i] \in [timestamp : Nat, id : Nat]
  BY ElementOfSeq, LenProperties DEF GenInv
<1>2. x \in Nat /\ y \in Nat /\ a \in Nat /\ b \in Nat /\ a < b
  BY <1>1
<1>3. (x * NodeSpace + node_id) * SequenceSpace + (a % SequenceSpace)
      = (y * NodeSpace + node_id) * SequenceSpace + (b % SequenceSpace)
  BY <1>1 DEF GenInv
<1> HIDE DEF x, y, a, b
<1>4. /\ x * NodeSpace + node_id \in Int /\ y * NodeSpace + node_id \in Int
      /\ a % SequenceSpace \in 0 .. SequenceSpace - 1
      /\ b % SequenceSpace \in 0 .. SequenceSpace - 1
  <2>1. x * NodeSpace \in Int /\ y * NodeSpace \in Int
    BY <1>2
  <2> QED
    BY <1>2, <2>1, DivMod DEF node_id
<1>5. /\ x * NodeSpace + node_id = y * NodeSpace + node_id
      /\ a % SequenceSpace = b % SequenceSpace
  BY <1>3, <1>4, QuotientUnique
<1>6. x = y
  <2>1. NodeSpace \in Nat \ {0} /\ node_id \in 0 .. NodeSpace - 1
    BY DEF node_id
  <2> QED
    BY <1>2, <1>5, <2>1, QuotientUnique
<1>7. b - a >= SequenceSpace
  BY <1>2, <1>5, SameRemainder
<1> QED
  BY <1>1, <1>6, <1>7 DEF x, y, a, b

\* Whatever the clock and the other threads do between a call's two steps, one id
\* comes twice only from calls with one timestamp that are a sequence space of
\* draws apart: with 12 bits, any 4096 calls in a row get distinct ids.
THEOREM IdsRepeatFarApart ==
    ASSUME Widths
    PROVE  GenSpec => []RepeatsFarApart
<1>1. GenInit => GenInv
  <2> SUFFICES ASSUME GenInit PROVE GenInv
    OBVIOUS
  <2>1. /\ generated \in Seq([timestamp : Nat, id : Nat]) /\ Len(generated) = 0
        /\ sequence = 0 /\ clock = 0
        /\ timestamp \in [Threads -> Nat \cup {NotCalling}]
    BY EmptySeq DEF GenInit
  <2> QED
    BY <2>1 DEF GenInv
<1>2. GenInv /\ [GenNext]_genVars => GenInv'
  BY GenStep
<1>3. GenInv => RepeatsFarApart
  BY GenInvSeparates
<1> QED
  BY <1>1, <1>2, <1>3, PTL DEF GenSpec

=============================================================================
