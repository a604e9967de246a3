----------------------------- MODULE WireProofs -----------------------------
(***************************************************************************)
(* Wire implements RequestReply, for any script, any number of clients and *)
(* threads, and whatever pieces the bytes come in.                         *)
(*                                                                         *)
(* The bytes on their way to the server, wherever they are (not yet        *)
(* consumed in the session's buffer, on the wire, not yet sent), follow    *)
(* each other without a gap from the next request to be dispatched to the  *)
(* last one begun; the bytes on their way back, from the next reply to be  *)
(* taken to the last one owed.  So a packet is always read at its first    *)
(* byte, where its header is.                                              *)
(***************************************************************************)
EXTENDS Wire, SequenceTheorems, FiniteSetTheorems, WellFoundedInduction, TLAPS

\* The byte at place i of s, and b behind its end.
At(s, b, i) == IF i =< Len(s) THEN s[i] ELSE b

\* s begins with a, each byte is followed by the next one, and the last one by b.
Run(nx, s, a, b) ==
    At(s, b, 1) = a /\ \A i \in 1 .. Len(s) : At(s, b, i + 1) = nx[s[i]]

Pairs == Nat \X Nat

\* A sequence without its first k elements.
Rest(s, k) == SubSeq(s, k + 1, Len(s))

\* One sequence after the other.
Join(s, t) == s \o t

\* What follows a byte of a request.
UpNext(c) ==
    [x \in Pairs |->
        IF x[2] < HeaderLen + Script[c][x[1]].body THEN <<x[1], x[2] + 1>>
        ELSE <<x[1] + 1, 1>>]

NoReply(c) == {n \in DOMAIN Script[c] : Script[c][n].reply = 0}

\* The first request from n on that has a reply; the end of the script counts.
FirstReply(c, n) ==
    CHOOSE m \in n .. Len(Script[c]) + 1 :
        m \notin NoReply(c) /\ \A j \in n .. m - 1 : j \in NoReply(c)

\* What follows a byte of a reply.
DownNext(c) ==
    [x \in Pairs |->
        IF x[2] < HeaderLen + Script[c][x[1]].reply THEN <<x[1], x[2] + 1>>
        ELSE <<FirstReply(c, x[1] + 1), 1>>]

-----------------------------------------------------------------------------
(***************************************************************************)
(* The inductive invariant.                                                *)
(***************************************************************************)

\* Bytes of the packets of the first m requests.
Bytes(m) == (1 .. m) \X (Nat \ {0})

PairSeqs == Seq(Pairs)

ClientState ==
    [at : {"next", "send", "recv", "closed"}, n : Nat, left : PairSeqs,
     got : PairSeqs, want : Nat, skipped : BOOLEAN, heard : Seq(Nat)]

TaskState ==
    [at : {"read", "frame", "send"}, c : Clients, processed_len : Nat,
     packet : PairSeqs]

WTypes ==
    /\ client \in [Clients -> ClientState]
    /\ up \in [Clients -> PairSeqs] /\ down \in [Clients -> PairSeqs]
    /\ timeouts \in 0 .. MaxTimeouts
    /\ armed \subseteq Clients /\ tasks \in Seq(Clients) /\ open \subseteq Clients
    /\ worker \in [Workers -> TaskState \cup {NoTask}]
    /\ buffer \in [Clients -> PairSeqs]
    /\ alive \in BOOLEAN
    /\ served \in [Clients -> Seq(Nat)]

Holds(w, c) == worker[w] # NoTask /\ worker[w].c = c

\* A connection is armed, in the queue or with one thread, in one place only, and only
\* while it is open.
OneTask ==
    /\ armed \subseteq open
    /\ \A i \in DOMAIN tasks : tasks[i] \in open \ armed
    /\ \A i, j \in DOMAIN tasks : tasks[i] = tasks[j] => i = j
    /\ \A w \in Workers : worker[w] # NoTask =>
          /\ worker[w].c \in open \ armed
          /\ \A i \in DOMAIN tasks : tasks[i] # worker[w].c
          /\ \A v \in Workers : Holds(v, worker[w].c) => v = w

\* The bytes between the last packet dispatched and the last byte of the last request:
\* behind the first k of the buffer b, on the wire, and not yet sent.
UpStream(l, u, b, k) == Join(Join(Rest(b, k), u), l)

\* They lead from request m + 1 to the end of request n.
UpOK(c, n, l, u, b, m, k) ==
    Run(UpNext(c), UpStream(l, u, b, k), <<m + 1, 1>>, <<n + 1, 1>>)

\* The bytes of replies that were dispatched and not yet taken: with the client, on the
\* wire, and not yet sent.
DownStream(g, d, p) == Join(Join(g, d), p)

\* Up to the h-th, the replies have been taken.
HeardUpTo(c, hd, h) ==
    /\ h \in 1 .. Len(Script[c]) + 1 /\ h \notin NoReply(c)
    /\ \A n \in 1 .. Len(Script[c]) :
          (\E i \in DOMAIN hd : hd[i] = n) <=> n < h /\ n \notin NoReply(c)

\* What recv_pkt wants: nothing, a header, or a whole reply, once it has the header.
Wanted(c, g, want, h) ==
    \/ want \in {0, HeaderLen}
    \/ Len(g) >= HeaderLen /\ want = HeaderLen + Script[c][h].reply

\* They lead from the next reply to be taken to the next one to be dispatched.
DownOK(c, g, want, hd, d, m, p) ==
    \E h \in 1 .. Len(Script[c]) + 1 :
        /\ HeardUpTo(c, hd, h)
        /\ Wanted(c, g, want, h)
        /\ Run(DownNext(c), DownStream(g, d, p), <<h, 1>>, <<FirstReply(c, m + 1), 1>>)

\* A client's own state, with the number m of its requests that were dispatched.
ClientOK(c, cl, m) ==
    /\ cl.n \in 0 .. Len(Script[c]) /\ m \in 0 .. cl.n
    /\ cl.left \in Seq(Bytes(cl.n)) /\ cl.got \in Seq(Bytes(m))
    /\ Len(cl.got) =< cl.want
    /\ cl.at \in {"next", "recv"} => cl.left = << >>
    /\ cl.at \in {"next", "send"} => cl.got = << >>
    /\ cl.at = "recv" => cl.want >= HeaderLen

\* A connection: its client, the wire both ways, the buffer, the number of requests
\* dispatched, and how much of the buffer and of the reply its task has done.
ConnOK(c, cl, u, d, b, m, k, p) ==
    /\ ClientOK(c, cl, m)
    /\ u \in Seq(Bytes(cl.n)) /\ b \in Seq(Bytes(cl.n))
    /\ d \in Seq(Bytes(m)) /\ p \in Seq(Bytes(m))
    /\ Len(d) =< Capacity
    /\ k \in 0 .. Len(b)
    /\ ~ cl.skipped /\ cl.at # "closed" => DownOK(c, cl.got, cl.want, cl.heard, d, m, p)

\* While it is open, the server has not missed a byte.
Sound(c, O, cl, u, d, b, m, k, p) ==
    /\ ConnOK(c, cl, u, d, b, m, k, p)
    /\ c \in O => UpOK(c, cl.n, cl.left, u, b, m, k)

\* The task of a connection has consumed k bytes and has p still to send.
InHand(c, k, p) ==
    \/ \E w \in Workers : /\ Holds(w, c)
                          /\ k = worker[w].processed_len /\ p = worker[w].packet
    \/ k = 0 /\ p = << >> /\ \A w \in Workers : ~ Holds(w, c)

Connection(c) ==
    /\ served[c] = [i \in 1 .. Len(served[c]) |-> i]
    /\ \A k, p : InHand(c, k, p) =>
          Sound(c, open, client[c], up[c], down[c], buffer[c], Len(served[c]), k, p)

\* A task begins with nothing consumed, and has nothing to send but while it sends.
TaskOrderly(w) ==
    /\ worker[w].at = "read" => worker[w].processed_len = 0
    /\ worker[w].at \in {"read", "frame"} => worker[w].packet = << >>

WInv ==
    /\ WTypes
    /\ OneTask
    /\ \A w \in Workers : TaskOrderly(w)
    /\ \A c \in Clients : Connection(c)

-----------------------------------------------------------------------------
(***************************************************************************)
(* Runs of bytes.                                                          *)
(***************************************************************************)

LEMMA SmallestNumber ==
    ASSUME NEW T \in SUBSET Nat, T # {}
    PROVE  \E m \in T : \A n \in T : m =< n
<1> DEFINE R == {ss \in Nat \X Nat : ss[1] < ss[2]}
<1>1. IsWellFoundedOn(R, Nat)
  BY NatLessThanWellFounded, Zenon DEF OpToRel
<1>2. PICK m \in T : \A n \in T : ~ (<<n, m>> \in R)
  <2> HIDE DEF R
  <2> QED BY <1>1, WFMin
<1>3. ASSUME NEW n \in T PROVE m =< n
  <2>1. m \in Nat /\ n \in Nat
    OBVIOUS
  <2>2. n < m => <<n, m>> \in R
    BY <2>1
  <2> QED BY <1>2, <2>1, <2>2
<1> QED BY <1>3

LEMMA RunEmpty == ASSUME NEW nx, NEW a PROVE Run(nx, << >>, a, a)
BY DEF Run, At

\* One run after the other is a run.
LEMMA RunConcat ==
    ASSUME NEW S, NEW s \in Seq(S), NEW t \in Seq(S), NEW nx, NEW a, NEW b, NEW d,
           Run(nx, s, a, b), Run(nx, t, b, d)
    PROVE  Run(nx, Join(s, t), a, d)
<1>1. /\ Len(s) \in Nat /\ Len(t) \in Nat
      /\ s \o t \in Seq(S) /\ Len(s \o t) = Len(s) + Len(t)
      /\ \A i \in 1 .. Len(s) + Len(t) :
            (s \o t)[i] = IF i =< Len(s) THEN s[i] ELSE t[i - Len(s)]
  BY LenProperties, ConcatProperties
<1>2. ASSUME NEW i \in 1 .. Len(s) + Len(t) + 1
      PROVE  At(s \o t, d, i) = IF i =< Len(s) THEN s[i] ELSE At(t, d, i - Len(s))
  BY <1>1 DEF At
<1>3. At(s \o t, d, 1) = a
  <2>1. CASE Len(s) = 0
    BY <1>1, <1>2, <2>1 DEF Run, At
  <2>2. CASE Len(s) > 0
    BY <1>1, <1>2, <2>2 DEF Run, At
  <2> QED BY <1>1, <2>1, <2>2
<1>4. ASSUME NEW i \in 1 .. Len(s \o t)
      PROVE  At(s \o t, d, i + 1) = nx[(s \o t)[i]]
  <2>1. CASE i < Len(s)
    <3>1. At(s, b, i + 1) = nx[s[i]] /\ At(s, b, i + 1) = s[i + 1]
      BY <1>1, <2>1 DEF Run, At
    <3> QED BY <1>1, <1>2, <2>1, <3>1
  <2>2. CASE i = Len(s)
    <3>1. At(s, b, i + 1) = nx[s[i]] /\ At(s, b, i + 1) = b /\ At(t, d, 1) = b
      BY <1>1, <2>2 DEF Run, At
    <3> QED BY <1>1, <1>2, <2>2, <3>1
  <2>3. CASE i > Len(s)
    <3>1. i - Len(s) \in 1 .. Len(t) /\ i + 1 - Len(s) = (i - Len(s)) + 1
      BY <1>1, <2>3
    <3>2. At(t, d, (i - Len(s)) + 1) = nx[t[i - Len(s)]]
      BY <3>1 DEF Run
    <3> QED BY <1>1, <1>2, <2>3, <3>1, <3>2
  <2> QED BY <1>1, <2>1, <2>2, <2>3
<1> QED BY <1>3, <1>4 DEF Run, Join

\* What is left of a run is a run.
LEMMA RunRest ==
    ASSUME NEW S, NEW s \in Seq(S), NEW nx, NEW a, NEW d, Run(nx, s, a, d),
           NEW k \in 0 .. Len(s)
    PROVE  Run(nx, Rest(s, k), At(s, d, k + 1), d)
<1> DEFINE t == SubSeq(s, k + 1, Len(s))
<1>1. Len(s) \in Nat /\ \A i \in 1 .. Len(s) : s[i] \in S
  BY LenProperties, ElementOfSeq
<1>2. Len(t) = Len(s) - k /\ \A i \in 1 .. Len(s) - k : t[i] = s[k + i]
  <2>1. \A i \in k + 1 .. Len(s) : s[i] \in S
    BY <1>1
  <2>2. /\ Len(t) = IF k + 1 =< Len(s) THEN Len(s) - (k + 1) + 1 ELSE 0
        /\ \A i \in 1 .. Len(s) - (k + 1) + 1 : t[i] = s[(k + 1) + i - 1]
    BY <1>1, <2>1, SubSeqProperties
  <2> QED BY <1>1, <2>2
<1> HIDE DEF t
<1>3. ASSUME NEW i \in 1 .. Len(s) - k + 1 PROVE At(t, d, i) = At(s, d, k + i)
  BY <1>1, <1>2 DEF At
<1>4. At(t, d, 1) = At(s, d, k + 1)
  BY <1>1, <1>3
<1>5. ASSUME NEW i \in 1 .. Len(t) PROVE At(t, d, i + 1) = nx[t[i]]
  <2>1. k + i \in 1 .. Len(s) /\ i + 1 \in 1 .. Len(s) - k + 1 /\ k + (i + 1) = (k + i) + 1
    BY <1>1, <1>2
  <2>2. At(s, d, (k + i) + 1) = nx[s[k + i]]
    BY <2>1 DEF Run
  <2> QED BY <1>2, <1>3, <2>1, <2>2
<1> QED BY <1>4, <1>5 DEF Run, Rest, t

\* For nx, the bytes of packet n are the L first of it, and then comes e.
PacketOf(nx, n, L, e) ==
    /\ \A k \in 1 .. L - 1 : nx[<<n, k>>] = <<n, k + 1>>
    /\ nx[<<n, L>>] = e

LEMMA PacketBytes ==
    ASSUME NEW n \in Nat, NEW L \in Nat \ {0}, NEW s, s = [k \in 1 .. L |-> <<n, k>>]
    PROVE  s \in Seq({n} \X (Nat \ {0})) /\ Len(s) = L
OBVIOUS

LEMMA RunPacket ==
    ASSUME NEW nx, NEW n \in Nat, NEW L \in Nat \ {0}, NEW e, PacketOf(nx, n, L, e),
           NEW s, s = [k \in 1 .. L |-> <<n, k>>]
    PROVE  Run(nx, s, <<n, 1>>, e)
<1>1. Len(s) = L
  BY PacketBytes
<1>2. At(s, e, 1) = <<n, 1>>
  BY <1>1 DEF At
<1>3. ASSUME NEW i \in 1 .. Len(s) PROVE At(s, e, i + 1) = nx[s[i]]
  <2>1. s[i] = <<n, i>>
    BY <1>1
  <2>2. CASE i < L
    <3>1. i + 1 \in 1 .. L
      BY <1>1, <2>2
    <3>2. s[i + 1] = <<n, i + 1>>
      BY <3>1
    <3>3. nx[<<n, i>>] = <<n, i + 1>>
      BY <1>1, <2>2 DEF PacketOf
    <3>4. At(s, e, i + 1) = s[i + 1]
      BY <1>1, <3>1 DEF At
    <3> QED BY <2>1, <3>2, <3>3, <3>4
  <2>3. CASE i = L
    <3>1. At(s, e, i + 1) = e
      BY <1>1, <2>3 DEF At
    <3> QED BY <2>1, <2>3, <3>1 DEF PacketOf
  <2> QED BY <1>1, <2>2, <2>3
<1> QED BY <1>2, <1>3 DEF Run

\* A run that begins with a packet's first byte, and is as long, holds the packet.
LEMMA RunFront ==
    ASSUME NEW S, NEW s \in Seq(S), NEW nx, NEW n \in Nat, NEW L \in Nat \ {0}, NEW e,
           PacketOf(nx, n, L, e), NEW d, Run(nx, s, <<n, 1>>, d), Len(s) >= L
    PROVE  Run(nx, Rest(s, L), e, d)
<1>1. Len(s) \in Nat
  BY LenProperties
<1> DEFINE T == {i \in Nat : i \in 1 .. L /\ s[i] # <<n, i>>}
<1>2. T = {}
  <2> SUFFICES ASSUME T # {} PROVE FALSE
    OBVIOUS
  <2>1. PICK m \in T : \A i \in T : m =< i
    <3> HIDE DEF T
    <3>1. T \in SUBSET Nat
      BY DEF T
    <3> QED BY <3>1, SmallestNumber
  <2>2. m \in 1 .. L /\ s[m] # <<n, m>>
    OBVIOUS
  <2>3. CASE m = 1
    BY <1>1, <2>2, <2>3 DEF Run, At
  <2>4. CASE m > 1
    <3>1. m - 1 \in 1 .. L - 1 /\ m - 1 \in 1 .. L /\ m - 1 \in 1 .. Len(s) /\ m - 1 < L /\ (m - 1) + 1 = m
      BY <1>1, <2>2, <2>4
    <3>2. s[m - 1] = <<n, m - 1>>
      BY <2>1, <3>1
    <3>3. At(s, d, m) = nx[s[m - 1]]
      BY <3>1 DEF Run
    <3>4. nx[<<n, m - 1>>] = <<n, (m - 1) + 1>>
      BY <3>1 DEF PacketOf
    <3>5. At(s, d, m) = s[m]
      BY <1>1, <2>2 DEF At
    <3> QED BY <2>2, <3>1, <3>2, <3>3, <3>4, <3>5
  <2> QED BY <2>2, <2>3, <2>4
<1>3. L \in 1 .. Len(s) /\ s[L] = <<n, L>>
  BY <1>1, <1>2
<1>4. At(s, d, L + 1) = e
  <2>1. At(s, d, L + 1) = nx[s[L]]
    BY <1>3 DEF Run
  <2>2. nx[<<n, L>>] = e
    BY DEF PacketOf
  <2> QED BY <1>3, <2>1, <2>2
<1>5. L \in 0 .. Len(s)
  BY <1>3
<1> QED BY <1>4, <1>5, RunRest

-----------------------------------------------------------------------------
(***************************************************************************)
(* The packets of the script.                                              *)
(***************************************************************************)

LEMMA ScriptTyped ==
    ASSUME NEW c \in Clients
    PROVE  /\ Len(Script[c]) \in Nat /\ DOMAIN Script[c] = 1 .. Len(Script[c])
           /\ \A n \in 1 .. Len(Script[c]) :
                 Script[c][n].body \in Nat /\ Script[c][n].reply \in Nat
<1>1. Script[c] \in Seq(Request)
  BY WireAssumption
<1>2. Len(Script[c]) \in Nat /\ DOMAIN Script[c] = 1 .. Len(Script[c])
  BY <1>1, LenProperties
<1>3. \A n \in 1 .. Len(Script[c]) : Script[c][n] \in Request
  BY <1>1, ElementOfSeq
<1> QED BY <1>2, <1>3 DEF Request

LEMMA RequestPacket ==
    ASSUME NEW c \in Clients, NEW n \in 1 .. Len(Script[c])
    PROVE  /\ HeaderLen + Script[c][n].body \in Nat \ {0}
           /\ PacketOf(UpNext(c), n, HeaderLen + Script[c][n].body, <<n + 1, 1>>)
<1> DEFINE L == HeaderLen + Script[c][n].body
<1>1. L \in Nat \ {0} /\ n \in Nat
  BY ScriptTyped, WireAssumption
<1>2. ASSUME NEW k \in 1 .. L - 1 PROVE UpNext(c)[<<n, k>>] = <<n, k + 1>>
  <2>1. <<n, k>> \in Pairs /\ k < L
    BY <1>1 DEF Pairs
  <2> QED BY <2>1 DEF UpNext, Pairs
<1>3. UpNext(c)[<<n, L>>] = <<n + 1, 1>>
  <2>1. <<n, L>> \in Pairs /\ ~ (L < L)
    BY <1>1 DEF Pairs
  <2> QED BY <2>1 DEF UpNext, Pairs
<1> QED BY <1>1, <1>2, <1>3 DEF PacketOf

LEMMA ReplyPacket ==
    ASSUME NEW c \in Clients, NEW n \in 1 .. Len(Script[c])
    PROVE  /\ HeaderLen + Script[c][n].reply \in Nat \ {0}
           /\ PacketOf(DownNext(c), n, HeaderLen + Script[c][n].reply,
                       <<FirstReply(c, n + 1), 1>>)
<1> DEFINE L == HeaderLen + Script[c][n].reply
<1>1. L \in Nat \ {0} /\ n \in Nat
  BY ScriptTyped, WireAssumption
<1>2. ASSUME NEW k \in 1 .. L - 1 PROVE DownNext(c)[<<n, k>>] = <<n, k + 1>>
  <2>1. <<n, k>> \in Pairs /\ k < L
    BY <1>1 DEF Pairs
  <2> QED BY <2>1 DEF DownNext, Pairs
<1>3. DownNext(c)[<<n, L>>] = <<FirstReply(c, n + 1), 1>>
  <2>1. <<n, L>> \in Pairs /\ ~ (L < L)
    BY <1>1 DEF Pairs
  <2> QED BY <2>1 DEF DownNext, Pairs
<1> QED BY <1>1, <1>2, <1>3 DEF PacketOf

LEMMA FirstReplyFound ==
    ASSUME NEW c \in Clients, NEW n \in 1 .. Len(Script[c]) + 1
    PROVE  /\ FirstReply(c, n) \in n .. Len(Script[c]) + 1
           /\ FirstReply(c, n) \notin NoReply(c)
           /\ \A j \in n .. FirstReply(c, n) - 1 : j \in NoReply(c)
<1> DEFINE N == Len(Script[c])
           T == {m \in Nat : m \in n .. N + 1 /\ m \notin NoReply(c)}
<1>1. N \in Nat /\ NoReply(c) \subseteq 1 .. N
  BY ScriptTyped DEF NoReply
<1>2. T # {} /\ T \in SUBSET Nat
  <2>1. N + 1 \in T
    BY <1>1
  <2> QED BY <2>1
<1>3. PICK m \in T : \A i \in T : m =< i
  <2> HIDE DEF T
  <2> QED BY <1>2, SmallestNumber
<1>4. ASSUME NEW j \in n .. m - 1 PROVE j \in NoReply(c)
  <2>1. j \in Nat /\ j \in n .. N + 1 /\ ~ (m =< j)
    BY <1>1
  <2> QED BY <1>3, <2>1
<1>5. \E x \in n .. N + 1 : x \notin NoReply(c) /\ \A j \in n .. x - 1 : j \in NoReply(c)
  BY <1>4
<1> QED BY <1>5 DEF FirstReply

LEMMA FirstReplyHere ==
    ASSUME NEW c \in Clients, NEW n \in 1 .. Len(Script[c]) + 1, n \notin NoReply(c)
    PROVE  FirstReply(c, n) = n
<1>1. Len(Script[c]) \in Nat
  BY ScriptTyped
<1>2. FirstReply(c, n) \in n .. Len(Script[c]) + 1
  BY FirstReplyFound
<1>3. \A j \in n .. FirstReply(c, n) - 1 : j \in NoReply(c)
  BY FirstReplyFound
<1>4. ~ (n < FirstReply(c, n))
  BY <1>1, <1>2, <1>3
<1> QED BY <1>1, <1>2, <1>4

LEMMA FirstReplySkips ==
    ASSUME NEW c \in Clients, NEW n \in 1 .. Len(Script[c]), n \in NoReply(c)
    PROVE  FirstReply(c, n) = FirstReply(c, n + 1)
<1> DEFINE x == FirstReply(c, n)
           y == FirstReply(c, n + 1)
<1>1. Len(Script[c]) \in Nat /\ n \in 1 .. Len(Script[c]) + 1
      /\ n + 1 \in 1 .. Len(Script[c]) + 1
  BY ScriptTyped
<1>2. x \in n .. Len(Script[c]) + 1 /\ x \notin NoReply(c)
      /\ \A j \in n .. x - 1 : j \in NoReply(c)
  BY <1>1, FirstReplyFound
<1>3. y \in n + 1 .. Len(Script[c]) + 1 /\ y \notin NoReply(c)
      /\ \A j \in n + 1 .. y - 1 : j \in NoReply(c)
  BY <1>1, FirstReplyFound
<1> HIDE DEF x, y
<1>4. x # n
  BY <1>2
<1>5. ~ (x < y)
  BY <1>1, <1>2, <1>3, <1>4
<1>6. ~ (y < x)
  BY <1>1, <1>2, <1>3
<1> QED BY <1>1, <1>2, <1>3, <1>5, <1>6 DEF x, y

-----------------------------------------------------------------------------
(***************************************************************************)
(* Streams: moving a piece from one place to the next leaves the stream as *)
(* it is; a packet is added at its end and taken from its front.           *)
(***************************************************************************)

LEMMA Cut ==
    ASSUME NEW S, NEW s \in Seq(S), NEW j \in 0 .. Len(s)
    PROVE  /\ SubSeq(s, 1, j) \in Seq(S) /\ Len(SubSeq(s, 1, j)) = j
           /\ Rest(s, j) \in Seq(S) /\ Len(Rest(s, j)) = Len(s) - j
           /\ SubSeq(s, 1, j) \o Rest(s, j) = s
           /\ \A i \in 1 .. Len(s) - j : Rest(s, j)[i] = s[j + i]
           /\ \A i \in 1 .. j : SubSeq(s, 1, j)[i] = s[i]
<1>1. Len(s) \in Nat /\ \A i \in 1 .. Len(s) : s[i] \in S
  BY LenProperties, ElementOfSeq
<1>2. /\ SubSeq(s, 1, j) \in Seq(S)
      /\ Len(SubSeq(s, 1, j)) = IF 1 =< j THEN j - 1 + 1 ELSE 0
      /\ \A i \in 1 .. j - 1 + 1 : SubSeq(s, 1, j)[i] = s[1 + i - 1]
  <2>1. \A i \in 1 .. j : s[i] \in S
    BY <1>1
  <2> QED BY <1>1, <2>1, SubSeqProperties
<1>3. /\ SubSeq(s, j + 1, Len(s)) \in Seq(S)
      /\ Len(SubSeq(s, j + 1, Len(s))) =
            IF j + 1 =< Len(s) THEN Len(s) - (j + 1) + 1 ELSE 0
      /\ \A i \in 1 .. Len(s) - (j + 1) + 1 :
            SubSeq(s, j + 1, Len(s))[i] = s[(j + 1) + i - 1]
  <2>1. \A i \in j + 1 .. Len(s) : s[i] \in S
    BY <1>1
  <2> QED BY <1>1, <2>1, SubSeqProperties
<1>4. SubSeq(s, 1, j) \o SubSeq(s, j + 1, Len(s)) = s
  <2>1. 1 \in 1 .. Len(s) + 1 /\ j \in 1 - 1 .. Len(s) /\ Len(s) \in j .. Len(s)
    BY <1>1
  <2>2. SubSeq(s, 1, j) \o SubSeq(s, j + 1, Len(s)) = SubSeq(s, 1, Len(s))
    BY <2>1, ConcatAdjacentSubSeq
  <2> QED BY <2>2, SubSeqFull
<1>5. Len(SubSeq(s, 1, j)) = j /\ \A i \in 1 .. j : SubSeq(s, 1, j)[i] = s[i]
  BY <1>1, <1>2
<1>6. /\ Len(SubSeq(s, j + 1, Len(s))) = Len(s) - j
      /\ \A i \in 1 .. Len(s) - j : SubSeq(s, j + 1, Len(s))[i] = s[j + i]
  <2>1. ASSUME NEW i \in 1 .. Len(s) - j PROVE SubSeq(s, j + 1, Len(s))[i] = s[j + i]
    <3>1. i \in 1 .. Len(s) - (j + 1) + 1 /\ (j + 1) + i - 1 = j + i
      BY <1>1
    <3> QED BY <1>3, <3>1
  <2> QED BY <1>1, <1>3, <2>1
<1> QED BY <1>2, <1>3, <1>4, <1>5, <1>6 DEF Rest

\* Dropping the front of the first part.
LEMMA DropFront ==
    ASSUME NEW s \in Seq(Pairs), NEW t \in Seq(Pairs), NEW j \in Nat, j =< Len(s)
    PROVE  Rest(Join(s, t), j) = Join(Rest(s, j), t)
<1> DEFINE x == Rest(s \o t, j)
           r == Rest(s, j)
<1>1. /\ Len(s) \in Nat /\ Len(t) \in Nat
      /\ s \o t \in Seq(Pairs) /\ Len(s \o t) = Len(s) + Len(t)
      /\ \A i \in 1 .. Len(s) + Len(t) :
            (s \o t)[i] = IF i =< Len(s) THEN s[i] ELSE t[i - Len(s)]
  BY LenProperties, ConcatProperties
<1>2. /\ r \in Seq(Pairs) /\ Len(r) = Len(s) - j
      /\ \A i \in 1 .. Len(s) - j : r[i] = s[j + i]
  <2>1. j \in 0 .. Len(s)
    BY <1>1
  <2> QED BY <2>1, Cut
<1>3. /\ x \in Seq(Pairs) /\ Len(x) = Len(s \o t) - j
      /\ \A i \in 1 .. Len(s \o t) - j : x[i] = (s \o t)[j + i]
  <2>1. s \o t \in Seq(Pairs) /\ j \in 0 .. Len(s \o t)
    BY <1>1
  <2> QED BY <2>1, Cut
<1> HIDE DEF x, r
<1>4. /\ r \o t \in Seq(Pairs) /\ Len(r \o t) = Len(r) + Len(t)
      /\ \A i \in 1 .. Len(r) + Len(t) :
            (r \o t)[i] = IF i =< Len(r) THEN r[i] ELSE t[i - Len(r)]
  BY <1>2, ConcatProperties
<1>5. Len(x) = Len(r \o t)
  BY <1>1, <1>2, <1>3, <1>4
<1>6. ASSUME NEW i \in 1 .. Len(x) PROVE x[i] = (r \o t)[i]
  <2>1. i \in 1 .. Len(s \o t) - j /\ j + i \in 1 .. Len(s) + Len(t)
        /\ i \in 1 .. Len(r) + Len(t)
    BY <1>1, <1>2, <1>3
  <2>2. x[i] = (s \o t)[j + i]
    BY <1>3, <2>1
  <2>3. CASE i =< Len(r)
    BY <1>1, <1>2, <1>4, <2>1, <2>2, <2>3
  <2>4. CASE i > Len(r)
    <3>1. (j + i) - Len(s) = i - Len(r) /\ ~ (j + i =< Len(s)) /\ ~ (i =< Len(r))
      BY <1>1, <1>2, <2>4
    <3> QED BY <1>1, <1>4, <2>1, <2>2, <3>1
  <2>5. i =< Len(r) \/ i > Len(r)
    BY <1>1, <1>2, <2>1
  <2> QED BY <2>3, <2>4, <2>5
<1>7. x = r \o t
  BY <1>3, <1>4, <1>5, <1>6, SeqEqual
<1> QED BY <1>7 DEF x, r, Join

\* Dropping the front twice.
LEMMA DropTwice ==
    ASSUME NEW b \in Seq(Pairs), NEW k \in Nat, NEW L \in Nat, NEW kL \in Nat,
           kL = k + L, kL =< Len(b)
    PROVE  Rest(Rest(b, k), L) = Rest(b, kL)
<1>1. Len(b) \in Nat /\ k \in 0 .. Len(b) /\ kL \in 0 .. Len(b)
  BY LenProperties
<1>2. PICK x : x = Rest(b, k)
  OBVIOUS
<1>3. /\ x \in Seq(Pairs) /\ Len(x) = Len(b) - k
      /\ \A i \in 1 .. Len(b) - k : x[i] = b[k + i]
  BY <1>1, <1>2, Cut
<1> DEFINE y == Rest(x, L)
           z == Rest(b, kL)
<1>4. /\ y \in Seq(Pairs) /\ Len(y) = Len(x) - L
      /\ \A i \in 1 .. Len(x) - L : y[i] = x[L + i]
  <2>1. x \in Seq(Pairs) /\ L \in 0 .. Len(x)
    BY <1>1, <1>3
  <2> QED BY <2>1, Cut
<1>5. /\ z \in Seq(Pairs) /\ Len(z) = Len(b) - kL
      /\ \A i \in 1 .. Len(b) - kL : z[i] = b[kL + i]
  BY <1>1, Cut
<1> HIDE DEF y, z
<1>6. Len(y) = Len(z)
  BY <1>1, <1>3, <1>4, <1>5
<1>7. ASSUME NEW i \in 1 .. Len(y) PROVE y[i] = z[i]
  <2>1. /\ i \in 1 .. Len(x) - L /\ i \in 1 .. Len(b) - kL
        /\ L + i \in 1 .. Len(b) - k /\ k + (L + i) = kL + i
    BY <1>1, <1>3, <1>4
  <2>2. y[i] = x[L + i] /\ z[i] = b[kL + i]
    BY <1>4, <1>5, <2>1
  <2>3. x[L + i] = b[k + (L + i)]
    BY <1>3, <2>1
  <2> QED BY <2>1, <2>2, <2>3
<1>8. y = z
  BY <1>4, <1>5, <1>6, <1>7, SeqEqual
<1> QED BY <1>2, <1>8 DEF y, z

\* A piece leaves the front of the last part for the end of the one before it.
LEMMA MoveLast ==
    ASSUME NEW s \in Seq(Pairs), NEW t \in Seq(Pairs), NEW f \in Seq(Pairs),
           NEW g \in Seq(Pairs)
    PROVE  Join(Join(s, Join(t, f)), g) = Join(Join(s, t), Join(f, g))
<1>1. s \o t \in Seq(Pairs)
  BY ConcatProperties
<1>2. s \o (t \o f) = (s \o t) \o f
  BY ConcatAssociative
<1>3. ((s \o t) \o f) \o g = (s \o t) \o (f \o g)
  BY <1>1, ConcatAssociative
<1> QED BY <1>2, <1>3 DEF Join

\* A piece leaves the front of the middle part for the end of the first.
LEMMA MoveMiddle ==
    ASSUME NEW s \in Seq(Pairs), NEW f \in Seq(Pairs), NEW g \in Seq(Pairs), NEW x
    PROVE  Join(Join(Join(s, f), g), x) = Join(Join(s, Join(f, g)), x)
<1>1. (s \o f) \o g = s \o (f \o g)
  BY ConcatAssociative
<1> QED BY <1>1 DEF Join

LEMMA JoinTyped ==
    ASSUME NEW S, NEW s \in Seq(S), NEW t \in Seq(S)
    PROVE  Join(s, t) \in Seq(S) /\ Len(Join(s, t)) = Len(s) + Len(t)
BY ConcatProperties DEF Join

\* The three parts and the whole.
LEMMA ThreeParts ==
    ASSUME NEW s \in Seq(Pairs), NEW t \in Seq(Pairs), NEW x \in Seq(Pairs)
    PROVE  /\ Join(Join(s, t), x) \in Seq(Pairs)
           /\ Len(Join(Join(s, t), x)) >= Len(s)
           /\ s # << >> => Join(Join(s, t), x)[1] = s[1] /\ Len(s) >= 1
<1>1. /\ s \o t \in Seq(Pairs) /\ Len(s \o t) = Len(s) + Len(t)
      /\ \A i \in 1 .. Len(s) + Len(t) :
            (s \o t)[i] = IF i =< Len(s) THEN s[i] ELSE t[i - Len(s)]
  BY ConcatProperties
<1>2. Len(s) \in Nat /\ Len(t) \in Nat /\ Len(x) \in Nat
  BY LenProperties
<1>3. /\ (s \o t) \o x \in Seq(Pairs) /\ Len((s \o t) \o x) = Len(s \o t) + Len(x)
      /\ \A i \in 1 .. Len(s \o t) + Len(x) :
            ((s \o t) \o x)[i] = IF i =< Len(s \o t) THEN (s \o t)[i]
                                 ELSE x[i - Len(s \o t)]
  BY <1>1, ConcatProperties
<1>4. s # << >> => Len(s) >= 1
  BY <1>2, EmptySeq
<1>5. ASSUME s # << >> PROVE ((s \o t) \o x)[1] = s[1]
  BY <1>1, <1>2, <1>3, <1>4, <1>5
<1> QED BY <1>1, <1>2, <1>3, <1>4, <1>5 DEF Join

\* A packet at the front of a stream is consumed.
LEMMA StreamFront ==
    ASSUME NEW b \in Seq(Pairs), NEW u \in Seq(Pairs), NEW l \in Seq(Pairs),
           NEW k \in Nat, NEW L \in Nat \ {0}, NEW kL \in Nat, kL = k + L, kL =< Len(b),
           NEW nx, NEW n \in Nat, NEW e, NEW d, PacketOf(nx, n, L, e),
           Run(nx, Join(Join(Rest(b, k), u), l), <<n, 1>>, d)
    PROVE  Run(nx, Join(Join(Rest(b, kL), u), l), e, d)
<1>1. PICK x, y, all : x = Rest(b, k) /\ y = Join(x, u) /\ all = Join(y, l)
  OBVIOUS
<1>2. x \in Seq(Pairs) /\ L =< Len(x) /\ Len(x) \in Nat /\ L \in Nat
  <2>1. Len(b) \in Nat /\ k \in 0 .. Len(b)
    BY LenProperties
  <2>2. x \in Seq(Pairs) /\ Len(x) = Len(b) - k
    BY <1>1, <2>1, Cut
  <2> QED BY <2>1, <2>2
<1>3. y \in Seq(Pairs) /\ L =< Len(y)
  <2>1. Len(u) \in Nat
    BY LenProperties
  <2>2. y \in Seq(Pairs) /\ Len(y) = Len(x) + Len(u)
    BY <1>1, <1>2, JoinTyped
  <2> QED BY <1>2, <2>1, <2>2
<1>4. all \in Seq(Pairs) /\ Len(all) >= L
  <2>1. Len(l) \in Nat /\ Len(y) \in Nat
    BY <1>3, LenProperties
  <2>2. all \in Seq(Pairs) /\ Len(all) = Len(y) + Len(l)
    BY <1>1, <1>3, JoinTyped
  <2> QED BY <1>2, <1>3, <2>1, <2>2
<1>5. Run(nx, Rest(all, L), e, d)
  <2>1. Run(nx, all, <<n, 1>>, d)
    BY <1>1
  <2> QED BY <1>4, <2>1, RunFront
<1>6. Rest(all, L) = Join(Rest(y, L), l)
  BY <1>1, <1>2, <1>3, DropFront
<1>7. Rest(y, L) = Join(Rest(x, L), u)
  BY <1>1, <1>2, DropFront
<1>8. Rest(x, L) = Rest(b, kL)
  BY <1>1, <1>2, DropTwice
<1> QED BY <1>5, <1>6, <1>7, <1>8

-----------------------------------------------------------------------------
(***************************************************************************)
(* What each step does to the stream of one connection's requests.         *)
(***************************************************************************)

LEMMA BytesAre ==
    ASSUME NEW n \in Nat, NEW m \in 0 .. n, NEW s \in Seq(Bytes(m))
    PROVE  s \in Seq(Pairs) /\ s \in Seq(Bytes(n))
<1>1. Bytes(m) \subseteq Pairs /\ Bytes(m) \subseteq Bytes(n)
  BY DEF Bytes, Pairs
<1> QED BY <1>1, SeqMonotonic

LEMMA ByteParts ==
    ASSUME NEW m \in Nat, NEW s \in Seq(Bytes(m)), s # << >>
    PROVE  /\ Len(s) >= 1
           /\ s[1] \in Bytes(m) /\ s[1][1] \in 1 .. m /\ s[1][2] \in Nat \ {0}
<1>1. Len(s) \in Nat \ {0}
  BY EmptySeq
<1>2. s[1] \in Bytes(m)
  BY <1>1, ElementOfSeq
<1> QED BY <1>1, <1>2 DEF Bytes

LEMMA PacketTyped ==
    ASSUME NEW n \in Nat \ {0}, NEW body \in Nat
    PROVE  /\ Packet(n, body) \in Seq(Bytes(n)) /\ Packet(n, body) \in Seq(Pairs)
           /\ Len(Packet(n, body)) = HeaderLen + body
<1>1. HeaderLen + body \in Nat \ {0}
  BY WireAssumption
<1>2. PICK s : s = Packet(n, body)
  OBVIOUS
<1>3. s \in Seq({n} \X (Nat \ {0})) /\ Len(s) = HeaderLen + body
  BY <1>1, <1>2, PacketBytes DEF Packet
<1>4. {n} \X (Nat \ {0}) \subseteq Bytes(n) /\ {n} \X (Nat \ {0}) \subseteq Pairs
  BY DEF Bytes, Pairs
<1>5. s \in Seq(Bytes(n)) /\ s \in Seq(Pairs)
  BY <1>3, <1>4, SeqMonotonic
<1> QED BY <1>2, <1>3, <1>5

\* A request is begun.
LEMMA UpStarted ==
    ASSUME NEW c \in Clients, NEW u \in Seq(Pairs),
           NEW b \in Seq(Pairs), NEW k \in 0 .. Len(b), NEW m \in Nat,
           NEW n \in 1 .. Len(Script[c]), NEW o, o + 1 = n, UpOK(c, o, << >>, u, b, m, k)
    PROVE  UpOK(c, n, Packet(n, Script[c][n].body), u, b, m, k)
<1>1. PICK x : x = Join(Rest(b, k), u)
  OBVIOUS
<1>2. x \in Seq(Pairs)
  <2>1. Rest(b, k) \in Seq(Pairs)
    BY Cut
  <2> QED BY <1>1, <2>1, JoinTyped
<1>3. Join(x, << >>) = x
  BY <1>2, ConcatEmptySeq DEF Join
<1>4. Run(UpNext(c), x, <<m + 1, 1>>, <<n, 1>>)
  BY <1>1, <1>3 DEF UpOK, UpStream
<1>5. Len(Script[c]) \in Nat /\ Script[c][n].body \in Nat /\ n \in Nat \ {0}
  BY ScriptTyped
<1>6. PICK p : p = Packet(n, Script[c][n].body)
  OBVIOUS
<1>7. p \in Seq(Pairs)
  BY <1>5, <1>6, PacketTyped
<1>8. Run(UpNext(c), p, <<n, 1>>, <<n + 1, 1>>)
  <2>1. PICK L, e : L = HeaderLen + Script[c][n].body /\ e = <<n + 1, 1>>
    OBVIOUS
  <2>2. p = [i \in 1 .. L |-> <<n, i>>]
    BY <1>6, <2>1 DEF Packet
  <2>3. L \in Nat \ {0} /\ PacketOf(UpNext(c), n, L, e)
    BY <2>1, RequestPacket
  <2>4. Run(UpNext(c), p, <<n, 1>>, e)
    BY <1>5, <2>2, <2>3, RunPacket
  <2> QED BY <2>1, <2>4
<1>9. Run(UpNext(c), Join(x, p), <<m + 1, 1>>, <<n + 1, 1>>)
  BY <1>2, <1>4, <1>7, <1>8, RunConcat
<1> QED BY <1>1, <1>6, <1>9 DEF UpOK, UpStream

\* A piece of a request is sent.
LEMMA UpSent ==
    ASSUME NEW c \in Clients, NEW u \in Seq(Pairs),
           NEW b \in Seq(Pairs), NEW k \in 0 .. Len(b), NEW m \in Nat, NEW n \in Nat,
           NEW l \in Seq(Pairs), NEW j \in Nat, j =< Len(l), UpOK(c, n, l, u, b, m, k)
    PROVE  UpOK(c, n, Rest(l, j), Join(u, SubSeq(l, 1, j)), b, m, k)
<1>1. PICK x : x = Rest(b, k)
  OBVIOUS
<1>2. x \in Seq(Pairs)
  BY <1>1, Cut
<1>3. PICK f, g : f = SubSeq(l, 1, j) /\ g = Rest(l, j)
  OBVIOUS
<1>4. f \in Seq(Pairs) /\ g \in Seq(Pairs) /\ Join(f, g) = l
  <2>1. j \in 0 .. Len(l)
    BY LenProperties
  <2> QED BY <1>3, <2>1, Cut DEF Join
<1>5. Join(Join(x, Join(u, f)), g) = Join(Join(x, u), Join(f, g))
  <2>1. f \in Seq(Pairs) /\ g \in Seq(Pairs)
    BY <1>4
  <2> QED BY <1>2, <2>1, MoveLast
<1>6. UpStream(Rest(l, j), Join(u, SubSeq(l, 1, j)), b, k) = UpStream(l, u, b, k)
  BY <1>1, <1>3, <1>4, <1>5 DEF UpStream
<1> QED BY <1>6 DEF UpOK

\* What was on the wire is read.
LEMMA UpRead ==
    ASSUME NEW c \in Clients, NEW n, NEW l, NEW u \in Seq(Pairs),
           NEW b \in Seq(Pairs), NEW m \in Nat, UpOK(c, n, l, u, b, m, 0)
    PROVE  UpOK(c, n, l, << >>, Join(b, u), m, 0)
<1>1. PICK x : x = Join(b, u)
  OBVIOUS
<1>2. x \in Seq(Pairs)
  BY <1>1, JoinTyped
<1>3. Rest(x, 0) = x
  BY <1>2, SubSeqFull DEF Rest
<1>4. Join(x, << >>) = x
  BY <1>2, ConcatEmptySeq DEF Join
<1>5. Rest(b, 0) = b
  BY SubSeqFull DEF Rest
<1>6. UpStream(l, << >>, Join(b, u), 0) = UpStream(l, u, b, 0)
  BY <1>1, <1>3, <1>4, <1>5 DEF UpStream
<1> QED BY <1>6 DEF UpOK

\* What was consumed is erased.
LEMMA UpErased ==
    ASSUME NEW c \in Clients, NEW n, NEW l, NEW u \in Seq(Pairs),
           NEW b \in Seq(Pairs), NEW k \in 0 .. Len(b), NEW m \in Nat,
           UpOK(c, n, l, u, b, m, k)
    PROVE  UpOK(c, n, l, u, EraseProcessed(b, k), m, 0)
<1>1. PICK x : x = Rest(b, k)
  OBVIOUS
<1>2. x \in Seq(Pairs)
  BY <1>1, Cut
<1>3. Rest(x, 0) = x
  BY <1>2, SubSeqFull DEF Rest
<1>4. UpStream(l, u, EraseProcessed(b, k), 0) = UpStream(l, u, b, k)
  BY <1>1, <1>3 DEF UpStream, EraseProcessed, Rest
<1> QED BY <1>4 DEF UpOK

\* A whole packet is consumed: it is that of the next request.
LEMMA UpDispatched ==
    ASSUME NEW c \in Clients, NEW m \in Nat, NEW n \in 0 .. Len(Script[c]),
           NEW u \in Seq(Bytes(n)), NEW b \in Seq(Bytes(n)), NEW l \in Seq(Bytes(n)),
           NEW k \in 0 .. Len(b), UpOK(c, n, l, u, b, m, k),
           NEW x, x = Rest(b, k), WholePacket(c, x)
    PROVE  /\ m + 1 \in 1 .. n
           /\ RequestAt(x) = m + 1 /\ HeaderLength(c, x) = Script[c][m + 1].body
           /\ k + HeaderLen + HeaderLength(c, x) \in 0 .. Len(b)
           /\ UpOK(c, n, l, u, b, m + 1, k + HeaderLen + HeaderLength(c, x))
<1>1. /\ Len(Script[c]) \in Nat /\ n \in Nat
      /\ HeaderLen \in Nat \ {0} /\ Len(b) \in Nat /\ k \in Nat
  BY ScriptTyped, WireAssumption, LenProperties
<1>2. /\ x \in Seq(Bytes(n)) /\ Len(x) = Len(b) - k
      /\ \A i \in 1 .. Len(b) - k : x[i] = b[k + i]
  BY Cut
<1>3. Len(x) >= HeaderLen /\ Len(x) >= HeaderLen + HeaderLength(c, x)
  BY DEF WholePacket
<1>4. x # << >>
  <2>1. Len(x) # 0
    BY <1>1, <1>2, <1>3
  <2> QED BY <2>1, EmptySeq
<1>5. x[1][1] \in 1 .. n /\ Len(x) >= 1
  BY <1>1, <1>2, <1>4, ByteParts
<1>6. PICK all : all = Join(Join(x, u), l)
  OBVIOUS
<1>7. /\ x \in Seq(Pairs) /\ u \in Seq(Pairs) /\ l \in Seq(Pairs)
      /\ b \in Seq(Pairs)
  <2>1. n \in 0 .. n
    BY <1>1
  <2> QED BY <1>1, <1>2, <1>6, <2>1, BytesAre
<1>8. all \in Seq(Pairs) /\ Len(all) >= Len(x) /\ all[1] = x[1]
  BY <1>4, <1>6, <1>7, ThreeParts
<1>9. Run(UpNext(c), all, <<m + 1, 1>>, <<n + 1, 1>>)
  BY <1>6 DEF UpOK, UpStream
<1>10. x[1] = <<m + 1, 1>>
  <2>1. Len(all) \in Nat /\ 1 =< Len(all)
    BY <1>1, <1>2, <1>5, <1>8, LenProperties
  <2> QED BY <1>8, <1>9, <2>1 DEF Run, At
<1>11. m + 1 \in 1 .. n /\ m + 1 \in 1 .. Len(Script[c])
  BY <1>1, <1>5, <1>10
<1>12. RequestAt(x) = m + 1 /\ HeaderLength(c, x) = Script[c][m + 1].body
  <2>1. PICK y : y = x[1]
    OBVIOUS
  <2>2. y = <<m + 1, 1>>
    BY <1>10, <2>1
  <2>3. y[1] = m + 1 /\ y[2] = 1
    BY <2>2
  <2> QED BY <2>1, <2>3 DEF RequestAt, HeaderLength
<1>13. PICK L : L = HeaderLen + Script[c][m + 1].body
  OBVIOUS
<1>14. /\ L \in Nat \ {0} /\ PacketOf(UpNext(c), m + 1, L, <<(m + 1) + 1, 1>>)
  BY <1>11, <1>13, RequestPacket
<1>15. k + HeaderLen + HeaderLength(c, x) = k + L /\ k + L \in 0 .. Len(b)
  <2>1. Script[c][m + 1].body \in Nat
    BY <1>11, ScriptTyped
  <2>2. PICK body : body = Script[c][m + 1].body
    OBVIOUS
  <2>3. L = HeaderLen + body /\ body \in Nat /\ HeaderLength(c, x) = body
    BY <1>12, <1>13, <2>1, <2>2
  <2>4. Len(x) = Len(b) - k /\ Len(x) >= L
    BY <1>2, <1>3, <2>3
  <2> QED BY <1>1, <2>3, <2>4
<1>16. UpOK(c, n, l, u, b, m + 1, k + L)
  <2>1. L \in Nat \ {0} /\ k + L =< Len(b) /\ m + 1 \in Nat /\ k \in Nat
    BY <1>1, <1>14, <1>15
  <2>2. u \in Seq(Pairs) /\ l \in Seq(Pairs) /\ b \in Seq(Pairs)
    BY <1>7
  <2>3. Run(UpNext(c), Join(Join(Rest(b, k), u), l), <<m + 1, 1>>, <<n + 1, 1>>)
    BY DEF UpOK, UpStream
  <2>4. Run(UpNext(c), Join(Join(Rest(b, k + L), u), l), <<(m + 1) + 1, 1>>,
            <<n + 1, 1>>)
    BY <1>14, <2>1, <2>2, <2>3, StreamFront
  <2> QED BY <2>4 DEF UpOK, UpStream
<1> QED BY <1>11, <1>12, <1>15, <1>16

-----------------------------------------------------------------------------
(***************************************************************************)
(* What each step does to the stream of one connection's replies.          *)
(***************************************************************************)

\* A piece of a reply is sent.
LEMMA DownSent ==
    ASSUME NEW g \in Seq(Pairs), NEW d \in Seq(Pairs), NEW p \in Seq(Pairs),
           NEW j \in Nat, j =< Len(p)
    PROVE  DownStream(g, Join(d, SubSeq(p, 1, j)), Rest(p, j)) = DownStream(g, d, p)
<1>1. PICK f, r : f = SubSeq(p, 1, j) /\ r = Rest(p, j)
  OBVIOUS
<1>2. f \in Seq(Pairs) /\ r \in Seq(Pairs) /\ Join(f, r) = p
  <2>1. j \in 0 .. Len(p)
    BY LenProperties
  <2> QED BY <1>1, <2>1, Cut DEF Join
<1>3. Join(Join(g, Join(d, f)), r) = Join(Join(g, d), Join(f, r))
  <2>1. f \in Seq(Pairs) /\ r \in Seq(Pairs)
    BY <1>2
  <2> QED BY <2>1, MoveLast
<1> QED BY <1>1, <1>2, <1>3 DEF DownStream

\* A piece of a reply is received.
LEMMA DownReceived ==
    ASSUME NEW g \in Seq(Pairs), NEW d \in Seq(Pairs), NEW p,
           NEW j \in Nat, j =< Len(d)
    PROVE  DownStream(Join(g, SubSeq(d, 1, j)), Rest(d, j), p) = DownStream(g, d, p)
<1>1. PICK f, r : f = SubSeq(d, 1, j) /\ r = Rest(d, j)
  OBVIOUS
<1>2. f \in Seq(Pairs) /\ r \in Seq(Pairs) /\ Join(f, r) = d
  <2>1. j \in 0 .. Len(d)
    BY LenProperties
  <2> QED BY <1>1, <2>1, Cut DEF Join
<1>3. Join(Join(Join(g, f), r), p) = Join(Join(g, Join(f, r)), p)
  <2>1. f \in Seq(Pairs) /\ r \in Seq(Pairs)
    BY <1>2
  <2> QED BY <2>1, MoveMiddle
<1> QED BY <1>1, <1>2, <1>3 DEF DownStream

\* A request without a reply is dispatched.
LEMMA DownQuiet ==
    ASSUME NEW c \in Clients, NEW g, NEW want, NEW hd, NEW d, NEW m \in Nat, NEW p,
           m + 1 \in 1 .. Len(Script[c]), m + 1 \in NoReply(c),
           DownOK(c, g, want, hd, d, m, p)
    PROVE  DownOK(c, g, want, hd, d, m + 1, p)
<1>1. FirstReply(c, m + 1) = FirstReply(c, (m + 1) + 1)
  BY FirstReplySkips
<1> QED BY <1>1 DEF DownOK

\* A request is dispatched and its reply made.
LEMMA DownDispatched ==
    ASSUME NEW c \in Clients, NEW g \in Seq(Pairs), NEW want, NEW hd, NEW d \in Seq(Pairs),
           NEW m \in Nat, NEW n \in 1 .. Len(Script[c]), n = m + 1, n \notin NoReply(c),
           DownOK(c, g, want, hd, d, m, << >>)
    PROVE  DownOK(c, g, want, hd, d, n, Packet(n, Script[c][n].reply))
<1>1. PICK h \in 1 .. Len(Script[c]) + 1 :
        /\ HeardUpTo(c, hd, h) /\ Wanted(c, g, want, h)
        /\ Run(DownNext(c), DownStream(g, d, << >>), <<h, 1>>, <<FirstReply(c, n), 1>>)
  BY DEF DownOK
<1>2. Len(Script[c]) \in Nat /\ n \in 1 .. Len(Script[c]) + 1 /\ n \in Nat \ {0}
      /\ Script[c][n].reply \in Nat
  BY ScriptTyped
<1>3. FirstReply(c, n) = n
  BY <1>2, FirstReplyHere
<1>4. PICK x, p, L, e : /\ x = Join(g, d) /\ p = Packet(n, Script[c][n].reply)
                        /\ L = HeaderLen + Script[c][n].reply
                        /\ e = <<FirstReply(c, n + 1), 1>>
  OBVIOUS
<1>5. x \in Seq(Pairs) /\ p \in Seq(Pairs)
  BY <1>2, <1>4, JoinTyped, PacketTyped
<1>6. Join(x, << >>) = x
  BY <1>5, ConcatEmptySeq DEF Join
<1>7. Run(DownNext(c), x, <<h, 1>>, <<n, 1>>)
  BY <1>1, <1>3, <1>4, <1>6 DEF DownStream
<1>8. Run(DownNext(c), p, <<n, 1>>, e)
  <2>1. p = [i \in 1 .. L |-> <<n, i>>]
    BY <1>4 DEF Packet
  <2>2. L \in Nat \ {0} /\ PacketOf(DownNext(c), n, L, e)
    BY <1>4, ReplyPacket
  <2> QED BY <1>2, <2>1, <2>2, RunPacket
<1>9. Run(DownNext(c), Join(x, p), <<h, 1>>, e)
  BY <1>5, <1>7, <1>8, RunConcat
<1>10. Run(DownNext(c), DownStream(g, d, p), <<h, 1>>, <<FirstReply(c, n + 1), 1>>)
  BY <1>4, <1>9 DEF DownStream
<1> QED BY <1>1, <1>4, <1>10 DEF DownOK

\* What the client has begins with the reply it waits for.
LEMMA FirstByte ==
    ASSUME NEW g \in Seq(Pairs), NEW d \in Seq(Pairs), NEW p \in Seq(Pairs), g # << >>,
           NEW nx, NEW h, NEW e, Run(nx, DownStream(g, d, p), <<h, 1>>, e)
    PROVE  g[1] = <<h, 1>>
<1>1. PICK all : all = Join(Join(g, d), p)
  OBVIOUS
<1>2. all \in Seq(Pairs) /\ Len(all) >= Len(g) /\ all[1] = g[1] /\ Len(g) >= 1
  BY <1>1, ThreeParts
<1>3. Len(all) \in Nat /\ Len(g) \in Nat
  BY <1>2, LenProperties
<1>4. 1 =< Len(all)
  BY <1>2, <1>3
<1>5. Run(nx, all, <<h, 1>>, e)
  BY <1>1 DEF DownStream
<1> QED BY <1>2, <1>3, <1>4, <1>5 DEF Run, At

\* Nothing is left behind the last element.
LEMMA RestAll == ASSUME NEW s, NEW L \in Nat, L = Len(s) PROVE Rest(s, L) = << >>
<1>1. L + 1 \in Int /\ L \in Int /\ L < L + 1
  OBVIOUS
<1>2. SubSeq(s, L + 1, L) = << >>
  BY <1>1, SubSeqEmpty
<1> QED BY <1>2 DEF Rest

\* A whole reply leaves the client's hands.
LEMMA DownTaken ==
    ASSUME NEW c \in Clients, NEW h \in 1 .. Len(Script[c]), NEW e,
           NEW g \in Seq(Pairs), NEW d \in Seq(Pairs), NEW p \in Seq(Pairs),
           Len(g) = HeaderLen + Script[c][h].reply,
           Run(DownNext(c), DownStream(g, d, p), <<h, 1>>, e)
    PROVE  Run(DownNext(c), DownStream(<< >>, d, p), <<FirstReply(c, h + 1), 1>>, e)
<1>1. PICK L, f : L = HeaderLen + Script[c][h].reply /\ f = <<FirstReply(c, h + 1), 1>>
  OBVIOUS
<1>2. L \in Nat \ {0} /\ PacketOf(DownNext(c), h, L, f)
  BY <1>1, ReplyPacket
<1>3. Rest(g, 0) = g
  BY SubSeqFull DEF Rest
<1>4. Rest(g, L) = << >>
  BY <1>1, <1>2, RestAll
<1>5. h \in Nat /\ 0 \in Nat /\ L \in Nat /\ L = 0 + L /\ L =< Len(g)
  BY <1>1, <1>2, ScriptTyped
<1>6. Run(DownNext(c), Join(Join(Rest(g, 0), d), p), <<h, 1>>, e)
  BY <1>3 DEF DownStream
<1>7. Run(DownNext(c), Join(Join(Rest(g, L), d), p), f, e)
  BY <1>2, <1>5, <1>6, StreamFront
<1> QED BY <1>1, <1>4, <1>7 DEF DownStream

LEMMA HeardTaken ==
    ASSUME NEW c \in Clients, NEW hd \in Seq(Nat), NEW h \in 1 .. Len(Script[c]),
           HeardUpTo(c, hd, h)
    PROVE  HeardUpTo(c, Append(hd, h), FirstReply(c, h + 1))
<1>1. Len(Script[c]) \in Nat /\ h + 1 \in 1 .. Len(Script[c]) + 1 /\ h \in Nat
  BY ScriptTyped
<1>2. PICK x, hd2 : x = FirstReply(c, h + 1) /\ hd2 = Append(hd, h)
  OBVIOUS
<1>3. /\ x \in h + 1 .. Len(Script[c]) + 1 /\ x \notin NoReply(c)
      /\ \A j \in h + 1 .. x - 1 : j \in NoReply(c)
  BY <1>1, <1>2, FirstReplyFound
<1>4. ASSUME NEW n \in 1 .. Len(Script[c])
      PROVE  (\E i \in DOMAIN hd2 : hd2[i] = n) <=> (\E i \in DOMAIN hd : hd[i] = n) \/ n = h
  <2>1. Len(hd) \in Nat /\ DOMAIN hd = 1 .. Len(hd)
    BY LenProperties
  <2>2. /\ DOMAIN hd2 = 1 .. Len(hd) + 1 /\ hd2[Len(hd) + 1] = h
        /\ \A i \in 1 .. Len(hd) : hd2[i] = hd[i]
    <3>1. /\ hd2 \in Seq(Nat) /\ Len(hd2) = Len(hd) + 1 /\ hd2[Len(hd) + 1] = h
          /\ \A i \in 1 .. Len(hd) : hd2[i] = hd[i]
      BY <1>1, <1>2, AppendProperties
    <3> QED BY <3>1, LenProperties
  <2>3. (\E i \in DOMAIN hd : hd[i] = n) => (\E i \in DOMAIN hd2 : hd2[i] = n)
    BY <2>1, <2>2
  <2>4. n = h => \E i \in DOMAIN hd2 : hd2[i] = n
    <3>1. Len(hd) + 1 \in DOMAIN hd2
      BY <2>1, <2>2
    <3> QED BY <2>2, <3>1
  <2>5. (\E i \in DOMAIN hd2 : hd2[i] = n) => (\E i \in DOMAIN hd : hd[i] = n) \/ n = h
    BY <2>1, <2>2
  <2> QED BY <2>3, <2>4, <2>5
<1>5. h \notin NoReply(c)
      /\ \A n \in 1 .. Len(Script[c]) :
            (\E i \in DOMAIN hd : hd[i] = n) <=> n < h /\ n \notin NoReply(c)
  BY DEF HeardUpTo
<1>6. ASSUME NEW n \in 1 .. Len(Script[c])
      PROVE  (n < h /\ n \notin NoReply(c)) \/ n = h <=> n < x /\ n \notin NoReply(c)
  <2>1. CASE n =< h
    BY <1>1, <1>3, <1>5, <2>1
  <2>2. CASE n > h
    <3>1. n < x => n \in h + 1 .. x - 1
      BY <1>1, <1>3, <2>2
    <3> QED BY <1>1, <1>3, <2>2, <3>1
  <2> QED BY <1>1, <2>1, <2>2
<1>7. \A n \in 1 .. Len(Script[c]) :
         (\E i \in DOMAIN hd2 : hd2[i] = n) <=> n < x /\ n \notin NoReply(c)
  BY <1>4, <1>5, <1>6
<1>8. x \in 1 .. Len(Script[c]) + 1
  BY <1>1, <1>3
<1> QED BY <1>2, <1>3, <1>7, <1>8 DEF HeardUpTo

-----------------------------------------------------------------------------
(***************************************************************************)
(* What each step does to one connection.                                  *)
(***************************************************************************)

\* A client after each of its steps: a request begun, a piece of it sent, the reply
\* given up, a part of it received, all of it taken.
Begun(cl, n, l) == [cl EXCEPT !.at = "send", !.n = n, !.left = l]

PieceSent(cl, l) ==
    {[cl EXCEPT !.left = l]} \cup
    (IF l = << >> THEN {[cl EXCEPT !.at = "next", !.left = l],
                       [cl EXCEPT !.at = "recv", !.left = l, !.want = HeaderLen]} ELSE {})

GivenUp(cl) == [cl EXCEPT !.at = "next", !.got = << >>, !.want = 0, !.skipped = TRUE]

Has(cl, g, want) == [cl EXCEPT !.got = g, !.want = want]

Taken(cl, want, at, heard) ==
    [cl EXCEPT !.got = << >>, !.want = want, !.at = at, !.heard = heard]

LEMMA ClientParts ==
    ASSUME NEW cl \in ClientState
    PROVE  /\ cl.at \in {"next", "send", "recv", "closed"} /\ cl.n \in Nat
           /\ cl.left \in PairSeqs /\ cl.got \in PairSeqs /\ cl.want \in Nat
           /\ cl.skipped \in BOOLEAN /\ cl.heard \in Seq(Nat)
BY DEF ClientState

\* What is said of a connection, one part each.
LEMMA SoundParts ==
    ASSUME NEW c \in Clients, NEW O, NEW cl \in ClientState, NEW u, NEW d, NEW b, NEW m,
           NEW k, NEW p, Sound(c, O, cl, u, d, b, m, k, p)
    PROVE  /\ ClientOK(c, cl, m) /\ m \in Nat /\ m \in 0 .. cl.n
           /\ cl.n \in 0 .. Len(Script[c])
           /\ u \in Seq(Bytes(cl.n)) /\ b \in Seq(Bytes(cl.n)) /\ d \in Seq(Bytes(m))
           /\ p \in Seq(Bytes(m))
           /\ u \in Seq(Pairs) /\ b \in Seq(Pairs) /\ d \in Seq(Pairs) /\ p \in Seq(Pairs)
           /\ Len(d) =< Capacity /\ k \in 0 .. Len(b)
           /\ ~ cl.skipped /\ cl.at # "closed" =>
                 DownOK(c, cl.got, cl.want, cl.heard, d, m, p)
           /\ c \in O => UpOK(c, cl.n, cl.left, u, b, m, k)
<1>1. /\ ClientOK(c, cl, m)
      /\ u \in Seq(Bytes(cl.n)) /\ b \in Seq(Bytes(cl.n))
      /\ d \in Seq(Bytes(m)) /\ p \in Seq(Bytes(m))
      /\ Len(d) =< Capacity /\ k \in 0 .. Len(b)
      /\ ~ cl.skipped /\ cl.at # "closed" => DownOK(c, cl.got, cl.want, cl.heard, d, m, p)
      /\ c \in O => UpOK(c, cl.n, cl.left, u, b, m, k)
  BY DEF Sound, ConnOK
<1>2. cl.n \in 0 .. Len(Script[c]) /\ m \in 0 .. cl.n
  BY <1>1 DEF ClientOK
<1>3. cl.n \in Nat
  BY ClientParts
<1>4. PICK n : n = cl.n
  OBVIOUS
<1>5. n \in Nat /\ m \in 0 .. n /\ m \in Nat
  BY <1>2, <1>3, <1>4
<1>6. u \in Seq(Pairs) /\ b \in Seq(Pairs)
  <2>1. n \in 0 .. n
    BY <1>5
  <2>2. u \in Seq(Bytes(n)) /\ b \in Seq(Bytes(n))
    BY <1>1, <1>4
  <2> QED BY <1>5, <2>1, <2>2, BytesAre
<1>7. d \in Seq(Pairs) /\ p \in Seq(Pairs)
  <2>2. d \in Seq(Bytes(m)) /\ p \in Seq(Bytes(m))
    BY <1>1
  <2> QED BY <1>5, <2>2, BytesAre
<1> QED BY <1>1, <1>2, <1>5, <1>6, <1>7

\* A client that closes.
LEMMA SoundClosed ==
    ASSUME NEW c \in Clients, NEW O, NEW cl \in ClientState, NEW u, NEW d, NEW b, NEW m,
           NEW k, NEW p, Sound(c, O, cl, u, d, b, m, k, p),
           NEW cl2, cl2 = [cl EXCEPT !.at = "closed"]
    PROVE  cl2 \in ClientState /\ Sound(c, O, cl2, u, d, b, m, k, p)
<1>1. /\ cl2 \in ClientState /\ cl2.at = "closed" /\ cl2.n = cl.n /\ cl2.left = cl.left
      /\ cl2.got = cl.got /\ cl2.want = cl.want
  BY DEF ClientState
<1>2. ClientOK(c, cl, m)
  BY SoundParts
<1>3. ClientOK(c, cl2, m)
  BY <1>1, <1>2 DEF ClientOK
<1>4. ConnOK(c, cl2, u, d, b, m, k, p)
  BY <1>1, <1>3 DEF ConnOK, Sound
<1> QED BY <1>1, <1>4 DEF Sound

\* A request is begun.
LEMMA SoundStarted ==
    ASSUME NEW c \in Clients, NEW O, NEW cl \in ClientState, NEW u, NEW d, NEW b, NEW m,
           NEW k, NEW p, Sound(c, O, cl, u, d, b, m, k, p),
           cl.at = "next", NEW n \in DOMAIN Script[c], n = cl.n + 1,
           NEW l, l = Packet(n, Script[c][n].body),
           NEW cl2, cl2 = Begun(cl, n, l)
    PROVE  cl2 \in ClientState /\ Sound(c, O, cl2, u, d, b, m, k, p)
<1>1. /\ n \in 1 .. Len(Script[c]) /\ Len(Script[c]) \in Nat /\ n \in Nat \ {0}
      /\ Script[c][n].body \in Nat
  BY ScriptTyped
<1>2. l \in Seq(Bytes(n)) /\ l \in PairSeqs
  BY <1>1, PacketTyped DEF PairSeqs
<1>3. /\ cl2 \in ClientState /\ cl2.at = "send" /\ cl2.n = n /\ cl2.left = l
      /\ cl2.got = cl.got /\ cl2.want = cl.want /\ cl2.skipped = cl.skipped
      /\ cl2.heard = cl.heard
  BY <1>1, <1>2 DEF ClientState, Begun
<1>4. PICK o : o = cl.n
  OBVIOUS
<1>5. /\ ClientOK(c, cl, m) /\ m \in 0 .. o /\ o \in Nat /\ o + 1 = n /\ m \in Nat
      /\ cl.got \in Seq(Bytes(m)) /\ cl.left = << >> /\ cl.got = << >> /\ Len(cl.got) =< cl.want
  <2>1. ClientOK(c, cl, m) /\ m \in 0 .. cl.n /\ m \in Nat
    BY SoundParts
  <2>2. cl.n \in Nat
    BY ClientParts
  <2>3. cl.got \in Seq(Bytes(m)) /\ cl.left = << >> /\ cl.got = << >> /\ Len(cl.got) =< cl.want
    BY <2>1 DEF ClientOK
  <2> QED BY <1>4, <2>1, <2>2, <2>3
<1>6. m \in 0 .. n /\ o \in 0 .. n /\ n \in 0 .. Len(Script[c])
  BY <1>1, <1>5
<1>7. ClientOK(c, cl2, m)
  <2>1. /\ cl2.n \in 0 .. Len(Script[c]) /\ m \in 0 .. cl2.n
        /\ cl2.left \in Seq(Bytes(cl2.n)) /\ cl2.got \in Seq(Bytes(m))
        /\ Len(cl2.got) =< cl2.want /\ cl2.at = "send" /\ cl2.got = << >>
    BY <1>2, <1>3, <1>5, <1>6
  <2> QED BY <2>1 DEF ClientOK
<1>8. u \in Seq(Bytes(o)) /\ b \in Seq(Bytes(o)) /\ u \in Seq(Pairs) /\ b \in Seq(Pairs)
      /\ k \in 0 .. Len(b)
  BY <1>4, SoundParts
<1>9. u \in Seq(Bytes(n)) /\ b \in Seq(Bytes(n))
  <2>1. n \in Nat
    BY <1>1
  <2> QED BY <1>6, <1>8, <2>1, BytesAre
<1>10. ConnOK(c, cl2, u, d, b, m, k, p)
  <2>1. /\ d \in Seq(Bytes(m)) /\ p \in Seq(Bytes(m)) /\ Len(d) =< Capacity
        /\ ~ cl.skipped /\ cl.at # "closed" =>
              DownOK(c, cl.got, cl.want, cl.heard, d, m, p)
    BY SoundParts
  <2>2. ~ cl2.skipped /\ cl2.at # "closed" =>
              DownOK(c, cl2.got, cl2.want, cl2.heard, d, m, p)
    BY <1>3, <2>1
  <2> QED BY <1>3, <1>7, <1>8, <1>9, <2>1, <2>2 DEF ConnOK
<1>11. c \in O => UpOK(c, n, l, u, b, m, k)
  <2> HAVE c \in O
  <2>1. UpOK(c, o, << >>, u, b, m, k)
    BY <1>4, <1>5, SoundParts
  <2> QED BY <1>1, <1>5, <1>8, <2>1, UpStarted
<1> QED BY <1>3, <1>10, <1>11 DEF Sound

\* A piece of a request is sent; after the last one the client goes on, or waits for
\* the reply.
LEMMA SoundSent ==
    ASSUME NEW c \in Clients, NEW O, NEW cl \in ClientState, NEW u, NEW d, NEW b, NEW m,
           NEW k, NEW p, Sound(c, O, cl, u, d, b, m, k, p),
           cl.at = "send", NEW j \in 1 .. Len(cl.left),
           NEW l2, l2 = Rest(cl.left, j), NEW u2, u2 = Join(u, SubSeq(cl.left, 1, j)),
           NEW cl2 \in PieceSent(cl, l2)
    PROVE  cl2 \in ClientState /\ u2 \in PairSeqs /\ Sound(c, O, cl2, u2, d, b, m, k, p)
<1>1. PICK l, n, f : l = cl.left /\ n = cl.n /\ f = SubSeq(cl.left, 1, j)
  OBVIOUS
<1>2. /\ n \in Nat /\ HeaderLen \in Nat
      /\ cl.at \in {"next", "send", "recv", "closed"} /\ cl.want \in Nat
  BY <1>1, ClientParts, WireAssumption
<1>3. /\ ClientOK(c, cl, m) /\ m \in 0 .. n /\ n \in 0 .. Len(Script[c]) /\ m \in Nat
      /\ u \in Seq(Bytes(n)) /\ u \in Seq(Pairs) /\ b \in Seq(Pairs) /\ k \in 0 .. Len(b)
      /\ b \in Seq(Bytes(n))
  BY <1>1, SoundParts
<1>4. /\ l \in Seq(Bytes(n)) /\ cl.got = << >> /\ cl.got \in Seq(Bytes(m))
      /\ Len(cl.got) =< cl.want /\ Len(cl.got) = 0
  BY <1>1, <1>3 DEF ClientOK
<1>5. l2 \in Seq(Bytes(n)) /\ f \in Seq(Bytes(n)) /\ j \in Nat /\ j =< Len(l)
  <2>1. j \in 0 .. Len(l) /\ j \in Nat /\ j =< Len(l)
    BY <1>1, <1>4, LenProperties
  <2> QED BY <1>1, <1>4, <2>1, Cut
<1>6. l \in Seq(Pairs) /\ l2 \in PairSeqs
  <2>1. n \in 0 .. n
    BY <1>2
  <2> QED BY <1>2, <1>4, <1>5, <2>1, BytesAre DEF PairSeqs
<1>7. u2 \in Seq(Bytes(n)) /\ u2 \in PairSeqs
  <2>1. n \in 0 .. n
    BY <1>2
  <2>2. u2 \in Seq(Bytes(n))
    BY <1>1, <1>3, <1>5, JoinTyped
  <2> QED BY <1>2, <2>1, <2>2, BytesAre DEF PairSeqs
<1>8. /\ cl2 \in ClientState /\ cl2.n = n /\ cl2.left = l2
      /\ cl2.got = cl.got /\ cl2.skipped = cl.skipped /\ cl2.heard = cl.heard
      /\ cl2.want = cl.want \/ cl2.want = HeaderLen
      /\ \/ cl2.at = "send" 
         \/ l2 = << >> /\ cl2.at = "next"
         \/ l2 = << >> /\ cl2.at = "recv" /\ cl2.want = HeaderLen
  <2>1. \/ cl2 = [cl EXCEPT !.left = l2]
        \/ l2 = << >> /\ cl2 = [cl EXCEPT !.at = "next", !.left = l2]
        \/ l2 = << >> /\ cl2 = [cl EXCEPT !.at = "recv", !.left = l2, !.want = HeaderLen]
    BY DEF PieceSent
  <2> QED BY <1>1, <1>2, <1>6, <2>1 DEF ClientState
<1>9. ClientOK(c, cl2, m)
  <2>1. /\ cl2.n \in 0 .. Len(Script[c]) /\ m \in 0 .. cl2.n
        /\ cl2.left \in Seq(Bytes(cl2.n)) /\ cl2.got \in Seq(Bytes(m))
    BY <1>3, <1>4, <1>5, <1>8
  <2>2. Len(cl2.got) =< cl2.want /\ cl2.got = << >>
    BY <1>2, <1>4, <1>8
  <2>3. cl2.at \in {"next", "recv"} => cl2.left = << >>
    BY <1>8
  <2>4. cl2.at = "recv" => cl2.want >= HeaderLen
    BY <1>2, <1>8
  <2> QED BY <2>1, <2>2, <2>3, <2>4 DEF ClientOK
<1>10. ~ cl2.skipped /\ cl2.at # "closed" =>
          DownOK(c, cl2.got, cl2.want, cl2.heard, d, m, p)
  <2> HAVE ~ cl2.skipped
  <2>1. DownOK(c, cl.got, cl.want, cl.heard, d, m, p)
    BY <1>8, SoundParts
  <2>2. \A h : Wanted(c, cl.got, cl.want, h) => Wanted(c, cl.got, cl2.want, h)
    BY <1>8 DEF Wanted
  <2>3. DownOK(c, cl.got, cl2.want, cl.heard, d, m, p)
    BY <2>1, <2>2 DEF DownOK
  <2> QED BY <1>8, <2>3
<1>11. ConnOK(c, cl2, u2, d, b, m, k, p)
  <2>1. d \in Seq(Bytes(m)) /\ p \in Seq(Bytes(m)) /\ Len(d) =< Capacity
    BY SoundParts
  <2> QED BY <1>3, <1>7, <1>8, <1>9, <1>10, <2>1 DEF ConnOK
<1>12. c \in O => UpOK(c, n, l2, u2, b, m, k)
  <2> HAVE c \in O
  <2>1. UpOK(c, n, l, u, b, m, k)
    BY <1>1, SoundParts
  <2>2. UpOK(c, n, Rest(l, j), Join(u, SubSeq(l, 1, j)), b, m, k)
    BY <1>2, <1>3, <1>5, <1>6, <2>1, UpSent
  <2> QED BY <1>1, <2>2
<1> QED BY <1>7, <1>8, <1>11, <1>12 DEF Sound

\* A client that gives up on a reply and goes on.
LEMMA SoundGivenUp ==
    ASSUME NEW c \in Clients, NEW O, NEW cl \in ClientState, NEW u, NEW d, NEW b, NEW m,
           NEW k, NEW p, Sound(c, O, cl, u, d, b, m, k, p), cl.at = "recv",
           NEW cl2, cl2 = GivenUp(cl)
    PROVE  cl2 \in ClientState /\ Sound(c, O, cl2, u, d, b, m, k, p)
<1>1. << >> \in PairSeqs /\ << >> \in Seq(Bytes(m)) /\ Len(<< >>) = 0
  BY DEF PairSeqs
<1>2. /\ cl2 \in ClientState /\ cl2.at = "next" /\ cl2.n = cl.n /\ cl2.left = cl.left
      /\ cl2.got = << >> /\ cl2.want = 0 /\ cl2.skipped
  BY <1>1 DEF ClientState, GivenUp
<1>3. ClientOK(c, cl, m)
  BY SoundParts
<1>4. ClientOK(c, cl2, m)
  BY <1>1, <1>2, <1>3 DEF ClientOK
<1>5. ConnOK(c, cl2, u, d, b, m, k, p)
  BY <1>2, <1>4 DEF ConnOK, Sound
<1> QED BY <1>2, <1>5 DEF Sound

\* A piece of a reply is received, at most what is wanted.
LEMMA PieceReceived ==
    ASSUME NEW c \in Clients, NEW O, NEW cl \in ClientState, NEW u, NEW d, NEW b, NEW m,
           NEW k, NEW p, Sound(c, O, cl, u, d, b, m, k, p),
           NEW j \in Nat, j =< Len(d), j =< cl.want - Len(cl.got),
           NEW g2, g2 = Join(cl.got, SubSeq(d, 1, j)), NEW d2, d2 = Rest(d, j)
    PROVE  /\ g2 \in Seq(Bytes(m)) /\ g2 \in PairSeqs /\ d2 \in Seq(Bytes(m))
           /\ d2 \in PairSeqs /\ Len(d2) =< Capacity
           /\ Len(g2) \in Nat /\ Len(g2) >= Len(cl.got) /\ Len(g2) =< cl.want
<1>1. PICK g, f, want : g = cl.got /\ f = SubSeq(d, 1, j) /\ want = cl.want
  OBVIOUS
<1>2. d \in Seq(Bytes(m)) /\ Len(d) =< Capacity /\ m \in Nat /\ ClientOK(c, cl, m)
  BY SoundParts
<1>3. g \in Seq(Bytes(m))
  BY <1>1, <1>2 DEF ClientOK
<1>4. /\ f \in Seq(Bytes(m)) /\ Len(f) = j /\ d2 \in Seq(Bytes(m))
      /\ Len(d2) = Len(d) - j /\ Len(d) \in Nat
  <2>1. j \in 0 .. Len(d) /\ Len(d) \in Nat
    BY <1>2, LenProperties
  <2> QED BY <1>1, <1>2, <2>1, Cut
<1>5. g2 \in Seq(Bytes(m)) /\ Len(g2) = Len(g) + j /\ Len(g) \in Nat
  BY <1>1, <1>3, <1>4, JoinTyped, LenProperties
<1>6. g2 \in PairSeqs /\ d2 \in PairSeqs
  <2>1. m \in 0 .. m
    BY <1>2
  <2> QED BY <1>2, <1>4, <1>5, <2>1, BytesAre DEF PairSeqs
<1>7. Len(d2) =< Capacity
  BY <1>2, <1>4, WireAssumption
<1>8. Len(g2) \in Nat /\ Len(g2) >= Len(g) /\ Len(g2) =< want
  <2>1. want \in Nat
    BY <1>1, ClientParts
  <2> QED BY <1>1, <1>5, <2>1
<1> QED BY <1>1, <1>4, <1>5, <1>6, <1>7, <1>8

\* With g received and d on the wire, the client waits for the reply to request h.
WaitsFor(c, hd, want, g, d, m, p, h) ==
    /\ HeardUpTo(c, hd, h) /\ Wanted(c, g, want, h)
    /\ Run(DownNext(c), DownStream(g, d, p), <<h, 1>>, <<FirstReply(c, m + 1), 1>>)
    /\ g # << >> => /\ h \in 1 .. m /\ h \in 1 .. Len(Script[c])
                    /\ Script[c][h].reply > 0 /\ g[1][1] = h /\ g[1][2] = 1

\* What a client that has not given up on any reply has received begins with the first
\* byte of the reply it waits for.
LEMMA ReplyAhead ==
    ASSUME NEW c \in Clients, NEW O, NEW cl \in ClientState, NEW u, NEW d, NEW b, NEW m,
           NEW k, NEW p, Sound(c, O, cl, u, d, b, m, k, p), ~ cl.skipped, cl.at = "recv",
           NEW j \in Nat, j =< Len(d), j =< cl.want - Len(cl.got),
           NEW g2, g2 = Join(cl.got, SubSeq(d, 1, j)), NEW d2, d2 = Rest(d, j)
    PROVE  \E h \in 1 .. Len(Script[c]) + 1 :
              WaitsFor(c, cl.heard, cl.want, g2, d2, m, p, h)
<1>1. PICK g, want, e : /\ g = cl.got /\ want = cl.want
                        /\ e = <<FirstReply(c, m + 1), 1>>
  OBVIOUS
<1>2. PICK h \in 1 .. Len(Script[c]) + 1 :
        /\ HeardUpTo(c, cl.heard, h) /\ Wanted(c, g, want, h)
        /\ Run(DownNext(c), DownStream(g, d, p), <<h, 1>>, e)
  <2>1. DownOK(c, cl.got, cl.want, cl.heard, d, m, p)
    BY SoundParts
  <2> QED BY <1>1, <2>1 DEF DownOK
<1>3. /\ d \in Seq(Pairs) /\ p \in Seq(Pairs) /\ m \in Nat /\ ClientOK(c, cl, m)
      /\ m \in 0 .. cl.n /\ cl.n \in 0 .. Len(Script[c])
  BY SoundParts
<1>4. g \in Seq(Pairs)
  BY <1>1, ClientParts DEF PairSeqs
<1>5. DownStream(g2, d2, p) = DownStream(g, d, p)
  BY <1>1, <1>3, <1>4, DownReceived
<1>6. Run(DownNext(c), DownStream(g2, d2, p), <<h, 1>>, e)
  BY <1>2, <1>5
<1>7. /\ g2 \in Seq(Bytes(m)) /\ g2 \in Seq(Pairs) /\ d2 \in Seq(Pairs)
      /\ Len(g2) \in Nat /\ Len(g2) >= Len(g) /\ Len(g) \in Nat
  <2>1. /\ g2 \in Seq(Bytes(m)) /\ g2 \in PairSeqs /\ d2 \in PairSeqs
        /\ Len(g2) \in Nat /\ Len(g2) >= Len(g)
    BY <1>1, PieceReceived
  <2> QED BY <1>4, <2>1, LenProperties DEF PairSeqs
<1>8. Wanted(c, g2, want, h)
  BY <1>2, <1>7, WireAssumption DEF Wanted
<1>9. ASSUME g2 # << >>
      PROVE  /\ h \in 1 .. m
             /\ h \in 1 .. Len(Script[c]) /\ Script[c][h].reply > 0
             /\ g2[1][1] = h /\ g2[1][2] = 1
  <2>1. g2[1] = <<h, 1>>
    BY <1>3, <1>6, <1>7, <1>9, FirstByte
  <2>2. PICK y : y = g2[1]
    OBVIOUS
  <2>3. y = <<h, 1>>
    BY <2>1, <2>2
  <2>4. y[1] = h /\ y[2] = 1
    BY <2>3
  <2>5. g2[1][1] \in 1 .. m
    BY <1>3, <1>7, <1>9, ByteParts
  <2>6. h \in 1 .. m
    BY <2>2, <2>4, <2>5
  <2>7. Len(Script[c]) \in Nat
    BY ScriptTyped
  <2>8. h \in 1 .. Len(Script[c]) /\ DOMAIN Script[c] = 1 .. Len(Script[c])
    <3>1. cl.n \in Nat
      BY ClientParts
    <3>2. DOMAIN Script[c] = 1 .. Len(Script[c])
      BY WireAssumption
    <3> QED BY <1>3, <2>6, <2>7, <3>1, <3>2
  <2>9. Script[c][h].reply \in Nat /\ h \notin NoReply(c)
    BY <1>2, <2>8, ScriptTyped DEF HeardUpTo
  <2>10. Script[c][h].reply > 0
    BY <2>8, <2>9 DEF NoReply
  <2> QED BY <2>2, <2>4, <2>6, <2>8, <2>10
<1> QED BY <1>1, <1>2, <1>6, <1>8, <1>9 DEF WaitsFor

\* What a client has after a piece of a reply: a part of it, or its header, or all of it.
TakenFrom(c, cl, g) ==
    {Has(cl, g, cl.want)} \cup
    {Has(cl, g, HeaderLen + len) : len \in IF Len(g) = HeaderLen THEN Lengths(c, g) ELSE {}}

TakenAll(c, cl, g) ==
    LET heard == IF cl.skipped THEN cl.heard ELSE Append(cl.heard, g[1][1])
    IN  IF Len(g) = cl.want /\ (Len(g) > HeaderLen \/ 0 \in Lengths(c, g))
        THEN {Taken(cl, 0, "next", heard), Taken(cl, HeaderLen, "recv", heard)} ELSE {}

\* A step takes no reply, or the next one, which was dispatched.
HeardMore(c, cl, cl2, m) ==
    \/ cl2.heard = cl.heard
    \/ \E n \in 1 .. m : HeardUpTo(c, cl.heard, n) /\ cl2.heard = Append(cl.heard, n)

LEMMA LengthsTyped ==
    ASSUME NEW c \in Clients, NEW m \in 0 .. Len(Script[c]), NEW g \in Seq(Bytes(m)), g # << >>,
           NEW len \in Lengths(c, g)
    PROVE  len \in Nat
<1>1. Len(Script[c]) \in Nat /\ m \in Nat /\ DOMAIN Script[c] = 1 .. Len(Script[c])
  BY ScriptTyped, WireAssumption
<1>2. g[1][1] \in 1 .. m
  BY <1>1, ByteParts
<1>3. g[1][1] \in 1 .. Len(Script[c])
  BY <1>1, <1>2
<1>4. Script[c][g[1][1]].reply \in Nat
  BY <1>3, ScriptTyped
<1>5. \A n \in DOMAIN Script[c] : Script[c][n].reply \in Nat
  BY <1>1, ScriptTyped
<1> QED BY <1>4, <1>5 DEF Lengths

\* The client has a part of what it wants, or a whole header, which tells it how long
\* the reply is.
LEMMA SoundReceived ==
    ASSUME NEW c \in Clients, NEW O, NEW cl \in ClientState, NEW u, NEW d, NEW b, NEW m,
           NEW k, NEW p, Sound(c, O, cl, u, d, b, m, k, p), cl.at = "recv",
           NEW j \in Nat, j =< Len(d), j =< cl.want - Len(cl.got),
           NEW g2, g2 = Join(cl.got, SubSeq(d, 1, j)), NEW d2, d2 = Rest(d, j),
           NEW cl2 \in TakenFrom(c, cl, g2)
    PROVE  /\ cl2 \in ClientState /\ d2 \in PairSeqs /\ Sound(c, O, cl2, u, d2, b, m, k, p)
           /\ cl2.n = cl.n /\ HeardMore(c, cl, cl2, m)
<1>0. PICK want2 : /\ cl2 = Has(cl, g2, want2)
                   /\ \/ want2 = cl.want
                      \/ /\ Len(g2) = HeaderLen
                         /\ \E len \in Lengths(c, g2) : want2 = HeaderLen + len
  BY DEF TakenFrom
<1>1. /\ g2 \in Seq(Bytes(m)) /\ g2 \in PairSeqs /\ d2 \in Seq(Bytes(m))
      /\ d2 \in PairSeqs /\ Len(d2) =< Capacity
      /\ Len(g2) \in Nat /\ Len(g2) >= Len(cl.got) /\ Len(g2) =< cl.want
  BY PieceReceived
<1>2. /\ ClientOK(c, cl, m) /\ m \in Nat /\ m \in 0 .. cl.n /\ cl.n \in 0 .. Len(Script[c])
      /\ k \in 0 .. Len(b) /\ u \in Seq(Bytes(cl.n)) /\ b \in Seq(Bytes(cl.n))
      /\ p \in Seq(Bytes(m))
  BY SoundParts
<1>3. /\ HeaderLen \in Nat \ {0} /\ cl.want \in Nat /\ cl.n \in Nat
      /\ cl.left = << >> /\ cl.want >= HeaderLen /\ cl.left \in Seq(Bytes(cl.n))
  BY <1>2, ClientParts, WireAssumption DEF ClientOK
<1>4. m \in 0 .. Len(Script[c]) /\ Len(Script[c]) \in Nat
  BY <1>2, <1>3, ScriptTyped
<1>5. Len(g2) = HeaderLen => g2 # << >>
  BY <1>1, <1>3
<1>6. want2 \in Nat /\ want2 >= HeaderLen /\ Len(g2) =< want2
  <2>1. CASE want2 = cl.want
    BY <1>1, <1>3, <2>1
  <2>2. CASE want2 # cl.want
    <3>1. PICK len \in Lengths(c, g2) : want2 = HeaderLen + len /\ Len(g2) = HeaderLen
      BY <1>0, <2>2
    <3>2. len \in Nat
      BY <1>1, <1>4, <1>5, <3>1, LengthsTyped
    <3> QED BY <1>3, <3>1, <3>2
  <2> QED BY <2>1, <2>2
<1>7. /\ cl2 \in ClientState /\ cl2.n = cl.n /\ cl2.left = cl.left /\ cl2.at = "recv"
      /\ cl2.got = g2 /\ cl2.want = want2 /\ cl2.skipped = cl.skipped
      /\ cl2.heard = cl.heard
  BY <1>0, <1>1, <1>6 DEF ClientState, Has
<1>8. ClientOK(c, cl2, m)
  BY <1>1, <1>2, <1>3, <1>6, <1>7 DEF ClientOK
<1>9. ~ cl.skipped => DownOK(c, g2, want2, cl.heard, d2, m, p)
  <2> HAVE ~ cl.skipped
  <2>0. PICK h \in 1 .. Len(Script[c]) + 1 :
           WaitsFor(c, cl.heard, cl.want, g2, d2, m, p, h)
    BY ReplyAhead
  <2>1. /\ HeardUpTo(c, cl.heard, h) /\ Wanted(c, g2, cl.want, h)
        /\ Run(DownNext(c), DownStream(g2, d2, p), <<h, 1>>, <<FirstReply(c, m + 1), 1>>)
        /\ g2 # << >> => g2[1][1] = h /\ g2[1][2] = 1
    BY <2>0 DEF WaitsFor
  <2>2. Wanted(c, g2, want2, h)
    <3>1. CASE want2 = cl.want
      BY <2>1, <3>1
    <3>2. CASE want2 # cl.want
      <4>1. PICK len \in Lengths(c, g2) : want2 = HeaderLen + len /\ Len(g2) = HeaderLen
        BY <1>0, <3>2
      <4>2. len = Script[c][h].reply
        BY <1>5, <2>1, <4>1 DEF Lengths
      <4>3. Len(g2) >= HeaderLen
        BY <1>3, <4>1
      <4> QED BY <4>1, <4>2, <4>3 DEF Wanted
    <3> QED BY <3>1, <3>2
  <2> QED BY <2>1, <2>2 DEF DownOK
<1>10. ConnOK(c, cl2, u, d2, b, m, k, p)
  BY <1>1, <1>2, <1>7, <1>8, <1>9 DEF ConnOK
<1>11. c \in O => UpOK(c, cl2.n, cl2.left, u, b, m, k)
  BY <1>7, SoundParts
<1> QED BY <1>1, <1>7, <1>10, <1>11 DEF Sound, HeardMore

\* The client has a whole reply: unless it has given up on one before, it is the reply
\* it waits for.
LEMMA SoundTaken ==
    ASSUME NEW c \in Clients, NEW O, NEW cl \in ClientState, NEW u, NEW d, NEW b, NEW m,
           NEW k, NEW p, Sound(c, O, cl, u, d, b, m, k, p), cl.at = "recv",
           NEW j \in Nat, j =< Len(d), j =< cl.want - Len(cl.got),
           NEW g2, g2 = Join(cl.got, SubSeq(d, 1, j)), NEW d2, d2 = Rest(d, j),
           NEW cl2 \in TakenAll(c, cl, g2)
    PROVE  /\ cl2 \in ClientState /\ d2 \in PairSeqs /\ Sound(c, O, cl2, u, d2, b, m, k, p)
           /\ cl2.n = cl.n
           /\ HeardMore(c, cl, cl2, m)
<1>a. PICK want2, at2, heard2 :
          /\ (at2 = "next" /\ want2 = 0) \/ (at2 = "recv" /\ want2 = HeaderLen)
          /\ heard2 = (IF cl.skipped THEN cl.heard ELSE Append(cl.heard, g2[1][1]))
          /\ cl2 = Taken(cl, want2, at2, heard2)
  BY DEF TakenAll
<1>b. Len(g2) = cl.want /\ (Len(g2) > HeaderLen \/ 0 \in Lengths(c, g2))
  BY DEF TakenAll
<1>1. /\ g2 \in Seq(Bytes(m)) /\ g2 \in PairSeqs /\ d2 \in Seq(Bytes(m))
      /\ d2 \in PairSeqs /\ Len(d2) =< Capacity
      /\ Len(g2) \in Nat /\ Len(g2) >= Len(cl.got) /\ Len(g2) =< cl.want
  BY PieceReceived
<1>2. /\ ClientOK(c, cl, m) /\ m \in Nat /\ m \in 0 .. cl.n /\ cl.n \in 0 .. Len(Script[c])
      /\ k \in 0 .. Len(b) /\ u \in Seq(Bytes(cl.n)) /\ b \in Seq(Bytes(cl.n))
      /\ p \in Seq(Bytes(m))
  BY SoundParts
<1>3. /\ HeaderLen \in Nat \ {0} /\ cl.want \in Nat /\ cl.n \in Nat /\ cl.heard \in Seq(Nat)
      /\ cl.left = << >> /\ cl.want >= HeaderLen /\ cl.left \in Seq(Bytes(cl.n))
      /\ cl.skipped \in BOOLEAN
  BY <1>2, ClientParts, WireAssumption DEF ClientOK
<1>4. m \in 0 .. Len(Script[c]) /\ Len(Script[c]) \in Nat
  BY <1>2, <1>3, ScriptTyped
<1>5. g2 # << >>
  BY <1>1, <1>3, <1>b
<1>6. g2[1][1] \in Nat
  BY <1>1, <1>2, <1>5, ByteParts
<1>7. heard2 \in Seq(Nat) /\ << >> \in PairSeqs /\ << >> \in Seq(Bytes(m)) /\ Len(<< >>) = 0
  BY <1>3, <1>6, <1>a, AppendProperties DEF PairSeqs
<1>8. /\ cl2 \in ClientState /\ cl2.n = cl.n /\ cl2.left = cl.left /\ cl2.at = at2
      /\ cl2.got = << >> /\ cl2.want = want2 /\ cl2.skipped = cl.skipped
      /\ cl2.heard = heard2
  <2>1. at2 \in {"next", "recv"} /\ want2 \in Nat
    BY <1>3, <1>a
  <2> QED BY <1>3, <1>7, <1>a, <2>1 DEF ClientState, Taken
<1>9. ClientOK(c, cl2, m)
  <2>1. want2 \in Nat /\ want2 >= 0 /\ (at2 = "recv" => want2 >= HeaderLen)
    BY <1>3, <1>a
  <2>2. Len(cl2.got) =< cl2.want
    BY <1>7, <1>8, <2>1
  <2> QED BY <1>2, <1>3, <1>7, <1>8, <1>a, <2>1, <2>2 DEF ClientOK
<1>10. ASSUME ~ cl.skipped
       PROVE  /\ g2[1][1] \in 1 .. m /\ HeardUpTo(c, cl.heard, g2[1][1])
              /\ DownOK(c, << >>, want2, heard2, d2, m, p)
  <2>0. PICK h \in 1 .. Len(Script[c]) + 1 :
           WaitsFor(c, cl.heard, cl.want, g2, d2, m, p, h)
    BY <1>10, ReplyAhead
  <2>1. /\ HeardUpTo(c, cl.heard, h) /\ Wanted(c, g2, cl.want, h)
        /\ Run(DownNext(c), DownStream(g2, d2, p), <<h, 1>>, <<FirstReply(c, m + 1), 1>>)
        /\ h \in 1 .. m /\ h \in 1 .. Len(Script[c]) /\ Script[c][h].reply > 0
        /\ g2[1][1] = h /\ g2[1][2] = 1
    BY <1>5, <2>0 DEF WaitsFor
  <2>2. Script[c][h].reply \in Nat
    BY <2>1, ScriptTyped
  <2>3. Len(g2) > HeaderLen
    BY <1>b, <2>1, <2>2 DEF Lengths
  <2>4. Len(g2) = HeaderLen + Script[c][h].reply
    <3>1. PICK want, reply : want = cl.want /\ reply = Script[c][h].reply
      OBVIOUS
    <3>2. want \in {0, HeaderLen} \/ want = HeaderLen + reply
      BY <2>1, <3>1 DEF Wanted
    <3>3. Len(g2) = want
      BY <1>b, <3>1
    <3> QED BY <1>1, <1>3, <2>3, <3>1, <3>2, <3>3
  <2>5. PICK e, h2 : e = <<FirstReply(c, m + 1), 1>> /\ h2 = FirstReply(c, h + 1)
    OBVIOUS
  <2>6. g2 \in Seq(Pairs) /\ d2 \in Seq(Pairs) /\ p \in Seq(Pairs)
    BY <1>1, SoundParts DEF PairSeqs
  <2>7. Run(DownNext(c), DownStream(g2, d2, p), <<h, 1>>, e)
    BY <2>1, <2>5
  <2>8. Run(DownNext(c), DownStream(<< >>, d2, p), <<h2, 1>>, e)
    BY <2>1, <2>4, <2>5, <2>6, <2>7, DownTaken
  <2>9. HeardUpTo(c, heard2, h2)
    <3>1. heard2 = Append(cl.heard, h)
      BY <1>10, <1>a, <2>1
    <3> QED BY <1>3, <2>1, <2>5, <3>1, HeardTaken
  <2>10. h2 \in 1 .. Len(Script[c]) + 1
    BY <2>9 DEF HeardUpTo
  <2>11. Wanted(c, << >>, want2, h2)
    BY <1>a DEF Wanted
  <2> QED BY <2>1, <2>5, <2>8, <2>9, <2>10, <2>11 DEF DownOK
<1>11. ConnOK(c, cl2, u, d2, b, m, k, p)
  BY <1>1, <1>2, <1>8, <1>9, <1>10 DEF ConnOK
<1>12. c \in O => UpOK(c, cl2.n, cl2.left, u, b, m, k)
  BY <1>8, SoundParts
<1>13. Sound(c, O, cl2, u, d2, b, m, k, p)
  BY <1>11, <1>12 DEF Sound
<1>14. HeardMore(c, cl, cl2, m)
  BY <1>8, <1>10, <1>a DEF HeardMore
<1> QED BY <1>1, <1>8, <1>13, <1>14

\* The server reads what is on the wire.
LEMMA SoundRead ==
    ASSUME NEW c \in Clients, NEW O, NEW cl \in ClientState, NEW u, NEW d, NEW b, NEW m,
           NEW p, Sound(c, O, cl, u, d, b, m, 0, p), NEW b2, b2 = Join(b, u)
    PROVE  b2 \in PairSeqs /\ Sound(c, O, cl, << >>, d, b2, m, 0, p)
<1>1. PICK n : n = cl.n
  OBVIOUS
<1>2. /\ u \in Seq(Bytes(n)) /\ b \in Seq(Bytes(n)) /\ u \in Seq(Pairs) /\ b \in Seq(Pairs)
      /\ m \in Nat /\ n \in Nat
  BY <1>1, SoundParts, ClientParts
<1>3. b2 \in Seq(Bytes(n)) /\ b2 \in PairSeqs
  BY <1>2, JoinTyped DEF PairSeqs
<1>4. 0 \in 0 .. Len(b2) /\ << >> \in Seq(Bytes(n))
  BY <1>3, LenProperties
<1>5. ConnOK(c, cl, << >>, d, b2, m, 0, p)
  BY <1>1, <1>3, <1>4 DEF Sound, ConnOK
<1>6. c \in O => UpOK(c, cl.n, cl.left, << >>, b2, m, 0)
  <2> HAVE c \in O
  <2>1. UpOK(c, cl.n, cl.left, u, b, m, 0)
    BY SoundParts
  <2> QED BY <1>2, <2>1, UpRead
<1> QED BY <1>3, <1>5, <1>6 DEF Sound

\* The server closes the connection and drops what is on the wire.
LEMMA SoundLeft ==
    ASSUME NEW c \in Clients, NEW O, NEW cl \in ClientState, NEW u, NEW d, NEW b, NEW m,
           NEW k, NEW p, Sound(c, O, cl, u, d, b, m, k, p)
    PROVE  Sound(c, O \ {c}, cl, << >>, d, b, m, k, p)
<1>1. << >> \in Seq(Bytes(cl.n))
  OBVIOUS
<1> QED BY <1>1 DEF Sound, ConnOK

\* Bytes of the first requests are bytes of the requests.
LEMMA ClientMore ==
    ASSUME NEW c \in Clients, NEW cl \in ClientState, NEW m \in Nat, NEW m2 \in Nat,
           m =< m2, m2 =< cl.n, ClientOK(c, cl, m)
    PROVE  ClientOK(c, cl, m2)
<1>1. cl.n \in Nat
  BY ClientParts
<1>2. m2 \in 0 .. cl.n /\ m \in 0 .. m2
  BY <1>1
<1>3. cl.got \in Seq(Bytes(m2))
  <2>1. PICK g : g = cl.got
    OBVIOUS
  <2>2. g \in Seq(Bytes(m))
    BY <2>1 DEF ClientOK
  <2>3. g \in Seq(Bytes(m2))
    BY <1>2, <2>2, BytesAre
  <2> QED BY <2>1, <2>3
<1> QED BY <1>2, <1>3 DEF ClientOK

\* The server dispatches a packet: it is the next request, and, if it has a reply, the
\* reply is made.
LEMMA SoundDispatched ==
    ASSUME NEW c \in Clients, NEW O, NEW cl \in ClientState, NEW u, NEW d, NEW b, NEW m,
           NEW k, Sound(c, O, cl, u, d, b, m, k, << >>), c \in O,
           NEW x, x = Rest(b, k), WholePacket(c, x), NEW n, n = RequestAt(x),
           NEW k2, k2 = k + HeaderLen + HeaderLength(c, x),
           NEW reply, reply = (IF n = 0 THEN 0 ELSE Script[c][n].reply),
           NEW p2, \/ reply = 0 /\ p2 = << >>
                   \/ reply > 0 /\ p2 = Packet(n, reply)
    PROVE  /\ n = m + 1 /\ n =< cl.n /\ k2 \in Nat /\ p2 \in PairSeqs
           /\ Sound(c, O, cl, u, d, b, n, k2, p2)
<1>1. PICK r, l : r = cl.n /\ l = cl.left
  OBVIOUS
<1>2. /\ u \in Seq(Bytes(r)) /\ b \in Seq(Bytes(r)) /\ m \in Nat /\ r \in 0 .. Len(Script[c])
      /\ k \in 0 .. Len(b) /\ UpOK(c, r, l, u, b, m, k) /\ ClientOK(c, cl, m)
      /\ d \in Seq(Bytes(m)) /\ d \in Seq(Pairs) /\ Len(d) =< Capacity
  BY <1>1, SoundParts
<1>3. l \in Seq(Bytes(r))
  BY <1>1, <1>2 DEF ClientOK
<1>4. /\ m + 1 \in 1 .. r /\ RequestAt(x) = m + 1
      /\ k + HeaderLen + HeaderLength(c, x) \in 0 .. Len(b)
      /\ UpOK(c, r, l, u, b, m + 1, k + HeaderLen + HeaderLength(c, x))
  BY <1>2, <1>3, UpDispatched
<1>5. /\ n = m + 1 /\ n \in 1 .. r /\ k2 \in 0 .. Len(b) /\ UpOK(c, r, l, u, b, n, k2)
  BY <1>4
<1>6. /\ r \in Nat /\ n \in Nat \ {0} /\ n =< r /\ m =< n /\ m \in 0 .. n
      /\ n \in 1 .. Len(Script[c]) /\ Len(Script[c]) \in Nat
  <2>1. Len(Script[c]) \in Nat
    BY ScriptTyped
  <2> QED BY <1>2, <1>5, <2>1
<1>7. reply = Script[c][n].reply /\ reply \in Nat
  BY <1>6, ScriptTyped
<1>8. p2 \in Seq(Bytes(n)) /\ p2 \in PairSeqs
  <2>1. CASE p2 = << >>
    BY <2>1 DEF PairSeqs
  <2>2. CASE p2 = Packet(n, reply)
    BY <1>6, <1>7, <2>2, PacketTyped DEF PairSeqs
  <2> QED BY <2>1, <2>2
<1>9. ClientOK(c, cl, n)
  BY <1>1, <1>2, <1>6, ClientMore
<1>10. d \in Seq(Bytes(n))
  BY <1>2, <1>6, BytesAre
<1>11. DOMAIN Script[c] = 1 .. Len(Script[c])
  BY WireAssumption
<1>12. ~ cl.skipped /\ cl.at # "closed" =>
          DownOK(c, cl.got, cl.want, cl.heard, d, n, p2)
  <2> HAVE ~ cl.skipped /\ cl.at # "closed"
  <2>1. DownOK(c, cl.got, cl.want, cl.heard, d, m, << >>)
    BY SoundParts
  <2>2. CASE reply = 0
    <3>1. m + 1 \in NoReply(c) /\ m + 1 \in 1 .. Len(Script[c]) /\ p2 = << >>
      <4>1. n \in NoReply(c)
        BY <1>6, <1>7, <1>11, <2>2 DEF NoReply
      <4>2. p2 = << >>
        BY <2>2
      <4> QED BY <1>5, <1>6, <4>1, <4>2
    <3>2. DownOK(c, cl.got, cl.want, cl.heard, d, m + 1, << >>)
      BY <1>2, <2>1, <3>1, DownQuiet
    <3> QED BY <1>5, <3>1, <3>2
  <2>3. CASE reply > 0
    <3>1. n \notin NoReply(c) /\ p2 = Packet(n, Script[c][n].reply)
      BY <1>7, <2>3 DEF NoReply
    <3>2. cl.got \in Seq(Pairs)
      BY ClientParts DEF PairSeqs
    <3>3. PICK g : g = cl.got
      OBVIOUS
    <3>4. g \in Seq(Pairs) /\ DownOK(c, g, cl.want, cl.heard, d, m, << >>)
      BY <2>1, <3>2, <3>3
    <3>5. DownOK(c, g, cl.want, cl.heard, d, n, Packet(n, Script[c][n].reply))
      BY <1>2, <1>5, <1>6, <3>1, <3>4, DownDispatched
    <3> QED BY <3>1, <3>3, <3>5
  <2> QED BY <1>7, <2>2, <2>3
<1>13. ConnOK(c, cl, u, d, b, n, k2, p2)
  BY <1>1, <1>2, <1>5, <1>8, <1>9, <1>10, <1>12 DEF ConnOK
<1>14. k2 \in Nat
  BY <1>2, <1>5, LenProperties
<1> QED BY <1>1, <1>5, <1>6, <1>8, <1>13, <1>14 DEF Sound

\* The server sends a piece of a reply.
LEMMA SoundReplied ==
    ASSUME NEW c \in Clients, NEW O, NEW cl \in ClientState, NEW u, NEW d, NEW b, NEW m,
           NEW k, NEW p, Sound(c, O, cl, u, d, b, m, k, p),
           NEW j \in 1 .. Len(p), Len(d) + j =< Capacity,
           NEW d2, d2 = Join(d, SubSeq(p, 1, j)), NEW p2, p2 = Rest(p, j)
    PROVE  /\ d2 \in PairSeqs /\ p2 \in PairSeqs /\ Sound(c, O, cl, u, d2, b, m, k, p2)
           /\ j = Len(p) => p2 = << >>
<1>1. /\ d \in Seq(Bytes(m)) /\ p \in Seq(Bytes(m)) /\ d \in Seq(Pairs) /\ p \in Seq(Pairs)
      /\ m \in Nat
  BY SoundParts
<1>2. PICK f : f = SubSeq(p, 1, j)
  OBVIOUS
<1>3. j \in 0 .. Len(p) /\ j \in Nat /\ j =< Len(p) /\ Len(p) \in Nat
  BY <1>1, LenProperties
<1>4. /\ f \in Seq(Bytes(m)) /\ p2 \in Seq(Bytes(m)) /\ Len(f) = j
      /\ Len(p2) = Len(p) - j
  BY <1>1, <1>2, <1>3, Cut
<1>5. d2 \in Seq(Bytes(m)) /\ Len(d2) = Len(d) + j
  BY <1>1, <1>2, <1>4, JoinTyped
<1>6. d2 \in PairSeqs /\ p2 \in PairSeqs
  <2>1. m \in 0 .. m
    BY <1>1
  <2> QED BY <1>1, <1>4, <1>5, <2>1, BytesAre DEF PairSeqs
<1>7. j = Len(p) => p2 = << >>
  BY <1>3, <1>4, EmptySeq
<1>8. \A g : g \in Seq(Pairs) => DownStream(g, d2, p2) = DownStream(g, d, p)
  BY <1>1, <1>3, DownSent
<1>9. ~ cl.skipped /\ cl.at # "closed" =>
          DownOK(c, cl.got, cl.want, cl.heard, d2, m, p2)
  <2> HAVE ~ cl.skipped /\ cl.at # "closed"
  <2>1. DownOK(c, cl.got, cl.want, cl.heard, d, m, p)
    BY SoundParts
  <2>2. cl.got \in Seq(Pairs)
    BY ClientParts DEF PairSeqs
  <2>3. DownStream(cl.got, d2, p2) = DownStream(cl.got, d, p)
    BY <1>8, <2>2
  <2> QED BY <2>1, <2>3 DEF DownOK
<1>10. ConnOK(c, cl, u, d2, b, m, k, p2)
  BY <1>4, <1>5, <1>9 DEF ConnOK, Sound
<1> QED BY <1>6, <1>7, <1>10 DEF Sound

\* The reply is dropped: the client has gone.
LEMMA SoundDropped ==
    ASSUME NEW c \in Clients, NEW O, NEW cl \in ClientState, NEW u, NEW d, NEW b, NEW m,
           NEW k, NEW p, Sound(c, O, cl, u, d, b, m, k, p), cl.at = "closed"
    PROVE  Sound(c, O, cl, u, d, b, m, k, << >>)
<1>1. << >> \in Seq(Bytes(m))
  OBVIOUS
<1> QED BY <1>1 DEF Sound, ConnOK

\* What the task has consumed is erased.
LEMMA SoundErased ==
    ASSUME NEW c \in Clients, NEW O, NEW cl \in ClientState, NEW u, NEW d, NEW b, NEW m,
           NEW k, NEW p, Sound(c, O, cl, u, d, b, m, k, p),
           NEW b2, b2 = EraseProcessed(b, k)
    PROVE  b2 \in PairSeqs /\ Sound(c, O, cl, u, d, b2, m, 0, p)
<1>1. PICK n : n = cl.n
  OBVIOUS
<1>2. /\ b \in Seq(Bytes(n)) /\ u \in Seq(Pairs) /\ b \in Seq(Pairs) /\ k \in 0 .. Len(b)
      /\ m \in Nat /\ n \in Nat
  BY <1>1, SoundParts, ClientParts
<1>3. b2 \in Seq(Bytes(n))
  BY <1>2, Cut DEF EraseProcessed, Rest
<1>4. b2 \in PairSeqs
  <2>1. n \in 0 .. n
    BY <1>2
  <2> QED BY <1>2, <1>3, <2>1, BytesAre DEF PairSeqs
<1>5. 0 \in 0 .. Len(b2)
  BY <1>3, LenProperties
<1>6. ConnOK(c, cl, u, d, b2, m, 0, p)
  BY <1>1, <1>3, <1>5 DEF Sound, ConnOK
<1>7. c \in O => UpOK(c, cl.n, cl.left, u, b2, m, 0)
  <2> HAVE c \in O
  <2>1. UpOK(c, cl.n, cl.left, u, b, m, k)
    BY SoundParts
  <2> QED BY <1>2, <2>1, UpErased
<1> QED BY <1>4, <1>6, <1>7 DEF Sound

-----------------------------------------------------------------------------
(***************************************************************************)
(* The invariant, step by step.                                            *)
(***************************************************************************)

LEMMA InitSound ==
    ASSUME NEW c \in Clients, NEW O,
           NEW cl, cl = [at |-> "next", n |-> 0, left |-> << >>, got |-> << >>,
                         want |-> 0, skipped |-> FALSE, heard |-> << >>]
    PROVE  cl \in ClientState /\ Sound(c, O, cl, << >>, << >>, << >>, 0, 0, << >>)
<1>1. << >> \in PairSeqs /\ << >> \in Seq(Nat) /\ Len(<< >>) = 0
      /\ << >> \in Seq(Bytes(0)) /\ << >> \in Seq(Pairs)
  BY DEF PairSeqs
<1>2. /\ cl \in ClientState /\ cl.at = "next" /\ cl.n = 0 /\ cl.left = << >>
      /\ cl.got = << >> /\ cl.want = 0 /\ cl.heard = << >>
  BY <1>1 DEF ClientState
<1>3. Len(Script[c]) \in Nat /\ Capacity \in Nat /\ HeaderLen \in Nat
  BY ScriptTyped, WireAssumption
<1>4. ClientOK(c, cl, 0)
  BY <1>1, <1>2, <1>3 DEF ClientOK
<1>5. Join(<< >>, << >>) = << >> /\ Rest(<< >>, 0) = << >>
  <2>1. Join(<< >>, << >>) = << >>
    BY <1>1, ConcatEmptySeq DEF Join
  <2>2. Rest(<< >>, 0) = << >>
    BY <1>1, SubSeqFull DEF Rest
  <2> QED BY <2>1, <2>2
<1>6. UpOK(c, 0, << >>, << >>, << >>, 0, 0)
  BY <1>5, RunEmpty DEF UpOK, UpStream
<1>7. DownOK(c, << >>, 0, << >>, << >>, 0, << >>)
  <2>1. PICK h : h = FirstReply(c, 1)
    OBVIOUS
  <2>2. 1 \in 1 .. Len(Script[c]) + 1
    BY <1>3
  <2>3. /\ h \in 1 .. Len(Script[c]) + 1 /\ h \notin NoReply(c)
        /\ \A j \in 1 .. h - 1 : j \in NoReply(c)
    BY <2>1, <2>2, FirstReplyFound
  <2>4. HeardUpTo(c, << >>, h)
    <3>1. ASSUME NEW n \in 1 .. Len(Script[c])
          PROVE  ~ (n < h /\ n \notin NoReply(c))
      <4>1. n < h => n \in 1 .. h - 1
        BY <1>3, <2>3
      <4> QED BY <2>3, <4>1
    <3>2. \A n : ~ (\E i \in DOMAIN << >> : << >>[i] = n)
      OBVIOUS
    <3> QED BY <2>3, <3>1, <3>2 DEF HeardUpTo
  <2>5. Wanted(c, << >>, 0, h)
    BY DEF Wanted
  <2>6. Run(DownNext(c), DownStream(<< >>, << >>, << >>), <<h, 1>>,
            <<FirstReply(c, 0 + 1), 1>>)
    BY <1>5, <2>1, RunEmpty DEF DownStream
  <2> QED BY <2>3, <2>4, <2>5, <2>6 DEF DownOK
<1>8. ConnOK(c, cl, << >>, << >>, << >>, 0, 0, << >>)
  <2>1. 0 \in 0 .. Len(<< >>) /\ Len(<< >>) =< Capacity
    BY <1>1, <1>3
  <2> QED BY <1>1, <1>2, <1>4, <1>7, <2>1 DEF ConnOK
<1> QED BY <1>2, <1>6, <1>8 DEF Sound

LEMMA InitInv == WInit => WInv
<1> SUFFICES ASSUME WInit PROVE WInv
  OBVIOUS
<1>1. ASSUME NEW c \in Clients
      PROVE  /\ client[c] \in ClientState
             /\ Sound(c, open, client[c], << >>, << >>, << >>, 0, 0, << >>)
  <2>1. client[c] = [at |-> "next", n |-> 0, left |-> << >>, got |-> << >>,
                     want |-> 0, skipped |-> FALSE, heard |-> << >>]
    BY DEF WInit
  <2> QED BY <2>1, InitSound
<1>2. << >> \in PairSeqs /\ << >> \in Seq(Clients) /\ << >> \in Seq(Nat) /\ Len(<< >>) = 0
  BY DEF PairSeqs
<1>3. client = [c \in Clients |-> client[c]]
  BY DEF WInit
<1>4. WTypes
  <2>1. client \in [Clients -> ClientState]
    BY <1>1, <1>3
  <2>2. 0 \in 0 .. MaxTimeouts
    BY WireAssumption
  <2> QED BY <1>2, <2>1, <2>2 DEF WTypes, WInit
<1>5. \A w \in Workers : worker[w] = NoTask /\ worker[w].at = "idle"
  BY DEF WInit, NoTask
<1>6. OneTask
  BY <1>5 DEF OneTask, WInit
<1>7. \A w \in Workers : TaskOrderly(w)
  BY <1>5 DEF TaskOrderly
<1>8. ASSUME NEW c \in Clients PROVE Connection(c)
  <2>1. \A k, p : InHand(c, k, p) => k = 0 /\ p = << >>
    BY <1>5 DEF InHand, Holds
  <2>2. /\ up[c] = << >> /\ down[c] = << >> /\ buffer[c] = << >> /\ served[c] = << >>
        /\ Len(served[c]) = 0
    BY <1>2 DEF WInit
  <2>3. served[c] = [i \in 1 .. Len(served[c]) |-> i]
    BY <2>2
  <2> QED BY <1>1, <2>1, <2>2, <2>3 DEF Connection
<1> QED BY <1>4, <1>6, <1>7, <1>8 DEF WInv

LEMMA WorkerParts ==
    ASSUME WTypes, NEW w \in Workers
    PROVE  /\ worker[w] = NoTask \/ worker[w] \in TaskState
           /\ worker[w] \in TaskState =>
                 /\ worker[w] # NoTask /\ worker[w].c \in Clients
                 /\ worker[w].processed_len \in Nat /\ worker[w].packet \in PairSeqs
                 /\ worker[w].at \in {"read", "frame", "send"}
           /\ worker[w] = NoTask => worker[w].at = "idle"
<1>1. worker[w] = NoTask \/ worker[w] \in TaskState
  BY DEF WTypes
<1>2. worker[w] \in TaskState =>
                 /\ worker[w].c \in Clients
                 /\ worker[w].processed_len \in Nat /\ worker[w].packet \in PairSeqs
                 /\ worker[w].at \in {"read", "frame", "send"}
  BY DEF TaskState
<1>3. worker[w] = NoTask => worker[w].at = "idle"
  BY DEF NoTask
<1> QED BY <1>1, <1>2, <1>3

\* What the task of a connection has done is known: there is one at most.
LEMMA HandOf ==
    ASSUME WTypes, OneTask, NEW w \in Workers, worker[w] # NoTask
    PROVE  \A k, p : InHand(worker[w].c, k, p) <=>
                        k = worker[w].processed_len /\ p = worker[w].packet
<1>1. Holds(w, worker[w].c) /\ \A v \in Workers : Holds(v, worker[w].c) => v = w
  BY DEF Holds, OneTask
<1> QED BY <1>1 DEF InHand

LEMMA SomeHand == \A c : \E k, p : InHand(c, k, p)
BY DEF InHand

\* A step of client c.
LEMMA ClientStep ==
    ASSUME WInv, NEW c \in Clients, NEW cl2, NEW u2, NEW d2,
           client' = [client EXCEPT ![c] = cl2],
           up' = [up EXCEPT ![c] = u2], down' = [down EXCEPT ![c] = d2],
           timeouts' \in 0 .. MaxTimeouts, UNCHANGED serverVars,
           \A k, p : Sound(c, open, client[c], up[c], down[c], buffer[c],
                           Len(served[c]), k, p) =>
              /\ cl2 \in ClientState /\ u2 \in PairSeqs /\ d2 \in PairSeqs
              /\ Sound(c, open, cl2, u2, d2, buffer[c], Len(served[c]), k, p)
    PROVE  WInv'
<1>1. WTypes /\ OneTask /\ (\A w \in Workers : TaskOrderly(w))
      /\ (\A e \in Clients : Connection(e))
  BY DEF WInv
<1>2. /\ armed' = armed /\ tasks' = tasks /\ worker' = worker /\ buffer' = buffer
      /\ open' = open /\ alive' = alive /\ served' = served
  BY DEF serverVars
<1>3. cl2 \in ClientState /\ u2 \in PairSeqs /\ d2 \in PairSeqs
  <2>1. PICK k, p : InHand(c, k, p)
    BY SomeHand
  <2>2. Sound(c, open, client[c], up[c], down[c], buffer[c], Len(served[c]), k, p)
    BY <1>1, <2>1 DEF Connection
  <2> QED BY <2>2
<1>4. WTypes'
  BY <1>1, <1>2, <1>3 DEF WTypes
<1>5. OneTask'
  BY <1>1, <1>2 DEF OneTask, Holds
<1>6. \A w \in Workers : TaskOrderly(w)'
  BY <1>1, <1>2 DEF TaskOrderly
<1>7. ASSUME NEW e \in Clients PROVE Connection(e)'
  <2>1. ASSUME NEW k, NEW p, InHand(e, k, p)'
        PROVE  Sound(e, open, client'[e], up'[e], down'[e], buffer[e], Len(served[e]), k, p)
    <3>1. InHand(e, k, p)
      BY <1>2, <2>1 DEF InHand, Holds
    <3>2. Sound(e, open, client[e], up[e], down[e], buffer[e], Len(served[e]), k, p)
      BY <1>1, <3>1 DEF Connection
    <3>3. CASE e = c
      <4>1. client'[e] = cl2 /\ up'[e] = u2 /\ down'[e] = d2
        BY <1>1, <3>3 DEF WTypes
      <4>2. Sound(c, open, cl2, u2, d2, buffer[c], Len(served[c]), k, p)
        BY <3>2, <3>3
      <4> QED BY <3>3, <4>1, <4>2
    <3>4. CASE e # c
      <4>1. client'[e] = client[e] /\ up'[e] = up[e] /\ down'[e] = down[e]
        BY <1>1, <3>4 DEF WTypes
      <4> QED BY <3>2, <4>1
    <3> QED BY <3>3, <3>4
  <2>2. served[e] = [i \in 1 .. Len(served[e]) |-> i]
    BY <1>1 DEF Connection
  <2> QED BY <1>2, <2>1, <2>2 DEF Connection
<1> QED BY <1>4, <1>5, <1>6, <1>7 DEF WInv

\* A step of a task that goes on.
LEMMA TaskStep ==
    ASSUME WInv, NEW w \in Workers, worker[w] # NoTask, NEW c, c = worker[w].c,
           NEW t2 \in TaskState, t2.c = c,
           t2.at = "frame" => t2.packet = << >>, t2.at # "read",
           NEW u2 \in PairSeqs, NEW d2 \in PairSeqs, NEW b2 \in PairSeqs,
           NEW s2 \in Seq(Nat), s2 = [i \in 1 .. Len(s2) |-> i],
           worker' = [worker EXCEPT ![w] = t2],
           up' = [up EXCEPT ![c] = u2], down' = [down EXCEPT ![c] = d2],
           buffer' = [buffer EXCEPT ![c] = b2], served' = [served EXCEPT ![c] = s2],
           client' = client, timeouts' = timeouts, armed' = armed, tasks' = tasks,
           open' = open, alive' \in BOOLEAN,
           Sound(c, open, client[c], u2, d2, b2, Len(s2), t2.processed_len, t2.packet)
    PROVE  WInv'
<1>1. WTypes /\ OneTask /\ (\A v \in Workers : TaskOrderly(v))
      /\ (\A e \in Clients : Connection(e))
  BY DEF WInv
<1>2. /\ worker[w] \in TaskState /\ c \in Clients
  BY <1>1, WorkerParts
<1>3. WTypes'
  BY <1>1, <1>2 DEF WTypes
<1>4. /\ worker'[w] = t2 /\ \A v \in Workers : v # w => worker'[v] = worker[v]
      /\ t2 # NoTask
  <2>1. t2 # NoTask
    BY DEF TaskState, NoTask
  <2> QED BY <1>1, <2>1 DEF WTypes
<1>5. \A v \in Workers : /\ worker'[v] # NoTask <=> worker[v] # NoTask
                         /\ worker[v] # NoTask => worker'[v].c = worker[v].c
  BY <1>4
<1>6. OneTask'
  BY <1>1, <1>5 DEF OneTask, Holds
<1>7. ASSUME NEW v \in Workers PROVE TaskOrderly(v)'
  <2>1. t2.at \in {"read", "frame", "send"}
    BY DEF TaskState
  <2> QED BY <1>1, <1>4, <2>1 DEF TaskOrderly
<1>8. ASSUME NEW e \in Clients PROVE Connection(e)'
  <2>1. CASE e = c
    <3>1. /\ up'[e] = u2 /\ down'[e] = d2 /\ buffer'[e] = b2 /\ served'[e] = s2
      BY <1>1, <2>1 DEF WTypes
    <3>2. ASSUME NEW k, NEW p, InHand(e, k, p)'
          PROVE  k = t2.processed_len /\ p = t2.packet
      <4>1. Holds(w, c)' /\ \A v \in Workers : Holds(v, c)' => v = w
        BY <1>4, <1>6 DEF Holds, OneTask
      <4> QED BY <1>4, <2>1, <3>2, <4>1 DEF InHand
    <3> QED BY <2>1, <3>1, <3>2 DEF Connection
  <2>2. CASE e # c
    <3>1. /\ up'[e] = up[e] /\ down'[e] = down[e] /\ buffer'[e] = buffer[e]
          /\ served'[e] = served[e] /\ client'[e] = client[e]
      BY <1>1, <2>2 DEF WTypes
    <3>2. \A v \in Workers : Holds(v, e)' <=> Holds(v, e)
      BY <1>5 DEF Holds
    <3>3. \A v \in Workers : Holds(v, e) => worker'[v] = worker[v]
      BY <1>4, <2>2 DEF Holds
    <3>4. ASSUME NEW k, NEW p, InHand(e, k, p)' PROVE InHand(e, k, p)
      BY <3>2, <3>3, <3>4 DEF InHand
    <3> QED BY <1>1, <3>1, <3>4 DEF Connection
  <2> QED BY <2>1, <2>2
<1> QED BY <1>3, <1>6, <1>7, <1>8 DEF WInv

\* The end of a task: the connection is armed again, or closed.
LEMMA LeaveStep ==
    ASSUME WInv, NEW w \in Workers, worker[w] # NoTask, NEW c, c = worker[w].c,
           NEW u2 \in PairSeqs, NEW b2 \in PairSeqs,
           worker' = [worker EXCEPT ![w] = NoTask],
           up' = [up EXCEPT ![c] = u2], buffer' = [buffer EXCEPT ![c] = b2],
           down' = down, served' = served, client' = client, timeouts' = timeouts,
           tasks' = tasks, alive' = alive,
           \/ armed' = armed \cup {c} /\ open' = open
           \/ armed' = armed /\ open' = open \ {c},
           Sound(c, open', client[c], u2, down[c], b2, Len(served[c]), 0, << >>)
    PROVE  WInv'
<1>1. WTypes /\ OneTask /\ (\A v \in Workers : TaskOrderly(v))
      /\ (\A e \in Clients : Connection(e))
  BY DEF WInv
<1>2. /\ worker[w] \in TaskState /\ c \in Clients
  BY <1>1, WorkerParts
<1>3. WTypes'
  BY <1>1, <1>2 DEF WTypes
<1>4. worker'[w] = NoTask /\ \A v \in Workers : v # w => worker'[v] = worker[v]
  BY <1>1 DEF WTypes
<1>5. /\ c \in open \ armed /\ \A i \in DOMAIN tasks : tasks[i] # c
      /\ \A v \in Workers : Holds(v, c) => v = w
  BY <1>1 DEF OneTask
<1>6. \A v \in Workers : ~ Holds(v, c)'
  BY <1>4, <1>5 DEF Holds
<1>7. OneTask'
  <2>1. /\ armed' \subseteq open'
        /\ \A i \in DOMAIN tasks' : tasks'[i] \in open' \ armed'
        /\ \A i, j \in DOMAIN tasks' : tasks'[i] = tasks'[j] => i = j
    BY <1>1, <1>5 DEF OneTask
  <2>2. ASSUME NEW v \in Workers, worker'[v] # NoTask
        PROVE  /\ worker'[v].c \in open' \ armed'
               /\ \A i \in DOMAIN tasks' : tasks'[i] # worker'[v].c
               /\ \A z \in Workers : worker'[z] # NoTask /\ worker'[z].c = worker'[v].c => z = v
    <3>1. v # w /\ worker'[v] = worker[v] /\ worker[v] # NoTask
      BY <1>4, <2>2
    <3>2. /\ worker[v].c \in open \ armed
          /\ \A i \in DOMAIN tasks : tasks[i] # worker[v].c
          /\ \A z \in Workers : Holds(z, worker[v].c) => z = v
      BY <1>1, <3>1 DEF OneTask
    <3>3. worker[v].c # c
      BY <1>5, <3>1 DEF Holds
    <3>4. \A z \in Workers : worker'[z] # NoTask /\ worker'[z].c = worker[v].c => z = v
      BY <1>4, <3>2 DEF Holds
    <3> QED BY <3>1, <3>2, <3>3, <3>4
  <2> QED BY <2>1, <2>2 DEF OneTask, Holds
<1>8. ASSUME NEW v \in Workers PROVE TaskOrderly(v)'
  BY <1>1, <1>4 DEF TaskOrderly, NoTask
<1>9. ASSUME NEW e \in Clients PROVE Connection(e)'
  <2>1. CASE e = c
    <3>1. up'[e] = u2 /\ buffer'[e] = b2
      BY <1>1, <2>1 DEF WTypes
    <3>2. \A k, p : InHand(e, k, p)' => k = 0 /\ p = << >>
      BY <1>6, <2>1 DEF InHand
    <3>3. served[e] = [i \in 1 .. Len(served[e]) |-> i]
      BY <1>1 DEF Connection
    <3> QED BY <2>1, <3>1, <3>2, <3>3 DEF Connection
  <2>2. CASE e # c
    <3>1. up'[e] = up[e] /\ buffer'[e] = buffer[e]
      BY <1>1, <2>2 DEF WTypes
    <3>2. \A v \in Workers : Holds(v, e)' <=> Holds(v, e)
      BY <1>4, <2>2 DEF Holds
    <3>3. \A v \in Workers : Holds(v, e) => worker'[v] = worker[v]
      BY <1>4, <2>2 DEF Holds
    <3>4. ASSUME NEW k, NEW p, InHand(e, k, p)' PROVE InHand(e, k, p)
      BY <3>2, <3>3, <3>4 DEF InHand
    <3>5. ASSUME NEW k, NEW p, InHand(e, k, p)'
          PROVE  Sound(e, open', client[e], up[e], down[e], buffer[e], Len(served[e]), k, p)
      <4>1. Sound(e, open, client[e], up[e], down[e], buffer[e], Len(served[e]), k, p)
        BY <1>1, <3>4, <3>5 DEF Connection
      <4>2. e \in open' => e \in open
        OBVIOUS
      <4> QED BY <4>1, <4>2 DEF Sound
    <3>6. served[e] = [i \in 1 .. Len(served[e]) |-> i]
      BY <1>1 DEF Connection
    <3> QED BY <3>1, <3>5, <3>6 DEF Connection
  <2> QED BY <2>1, <2>2
<1> QED BY <1>3, <1>7, <1>8, <1>9 DEF WInv

LEMMA EventStep ==
    ASSUME WInv, NEW c \in Clients, Event(c)
    PROVE  WInv'
<1>1. WTypes /\ OneTask /\ (\A v \in Workers : TaskOrderly(v))
      /\ (\A e \in Clients : Connection(e))
  BY DEF WInv
<1>2. /\ c \in armed /\ armed' = armed \ {c} /\ tasks' = Append(tasks, c)
      /\ client' = client /\ up' = up /\ down' = down /\ timeouts' = timeouts
      /\ worker' = worker /\ buffer' = buffer /\ open' = open /\ alive' = alive
      /\ served' = served
  BY DEF Event
<1>3. tasks \in Seq(Clients) /\ tasks' \in Seq(Clients)
  BY <1>1, <1>2, AppendProperties DEF WTypes
<1>4. WTypes'
  BY <1>1, <1>2, <1>3 DEF WTypes
<1>5. PICK n \in Nat : n = Len(tasks)
  BY <1>3, LenProperties
<1>6. /\ DOMAIN tasks = 1 .. n /\ DOMAIN tasks' = 1 .. n + 1 /\ tasks'[n + 1] = c
      /\ \A i \in 1 .. n : tasks'[i] = tasks[i]
  <2>1. /\ Len(tasks') = n + 1 /\ tasks'[n + 1] = c
        /\ \A i \in 1 .. n : tasks'[i] = tasks[i]
    BY <1>2, <1>3, <1>5, AppendProperties
  <2> QED BY <1>3, <1>5, <2>1, LenProperties
<1>7. OneTask'
  <2>1. \A i \in 1 .. n + 1 : i \in 1 .. n \/ i = n + 1
    OBVIOUS
  <2>2. \A i \in 1 .. n : tasks[i] # c /\ tasks[i] \in open \ armed
    BY <1>1, <1>2, <1>6 DEF OneTask
  <2>3. armed' \subseteq open' /\ c \in open
    BY <1>1, <1>2 DEF OneTask
  <2>4. \A i \in DOMAIN tasks' : tasks'[i] \in open' \ armed'
    BY <1>2, <1>6, <2>1, <2>2, <2>3
  <2>5. \A i, j \in DOMAIN tasks' : tasks'[i] = tasks'[j] => i = j
    <3>1. \A i, j \in 1 .. n : tasks[i] = tasks[j] => i = j
      BY <1>1, <1>6 DEF OneTask
    <3> QED BY <1>6, <2>1, <2>2, <3>1
  <2>6. ASSUME NEW w \in Workers, worker[w] # NoTask
        PROVE  /\ worker[w].c \in open' \ armed'
               /\ \A i \in DOMAIN tasks' : tasks'[i] # worker[w].c
               /\ \A v \in Workers : Holds(v, worker[w].c) => v = w
    <3>1. /\ worker[w].c \in open \ armed
          /\ \A i \in DOMAIN tasks : tasks[i] # worker[w].c
          /\ \A v \in Workers : Holds(v, worker[w].c) => v = w
      BY <1>1, <2>6 DEF OneTask
    <3> QED BY <1>2, <1>6, <2>1, <3>1
  <2>7. \A v, e : Holds(v, e)' <=> Holds(v, e)
    BY <1>2 DEF Holds
  <2> QED BY <1>2, <2>3, <2>4, <2>5, <2>6, <2>7 DEF OneTask
<1>8. \A v \in Workers : TaskOrderly(v)'
  BY <1>1, <1>2 DEF TaskOrderly
<1>9. ASSUME NEW e \in Clients PROVE Connection(e)'
  <2>1. \A k, p : InHand(e, k, p)' <=> InHand(e, k, p)
    BY <1>2 DEF InHand, Holds
  <2> QED BY <1>1, <1>2, <2>1 DEF Connection
<1> QED BY <1>4, <1>7, <1>8, <1>9 DEF WInv

LEMMA TakeTaskStep ==
    ASSUME WInv, NEW w \in Workers, TakeTask(w)
    PROVE  WInv'
<1>1. WTypes /\ OneTask /\ (\A v \in Workers : TaskOrderly(v))
      /\ (\A e \in Clients : Connection(e))
  BY DEF WInv
<1>2. PICK c, t2 : c = Head(tasks) /\ t2 = [at |-> "read", c |-> c, processed_len |-> 0,
                                           packet |-> << >>]
  OBVIOUS
<1>3. /\ worker[w] = NoTask /\ tasks # << >> /\ worker' = [worker EXCEPT ![w] = t2]
      /\ tasks' = Tail(tasks) /\ armed' = armed
      /\ client' = client /\ up' = up /\ down' = down /\ timeouts' = timeouts
      /\ buffer' = buffer /\ open' = open /\ alive' = alive /\ served' = served
  BY <1>2 DEF TakeTask
<1>4. tasks \in Seq(Clients) /\ tasks' \in Seq(Clients) /\ c \in Clients /\ c = tasks[1]
  BY <1>1, <1>2, <1>3, HeadTailProperties DEF WTypes
<1>5. t2 \in TaskState /\ t2 # NoTask
  <2>1. << >> \in PairSeqs
    BY DEF PairSeqs
  <2> QED BY <1>2, <1>4, <2>1 DEF TaskState, NoTask
<1>6. WTypes'
  BY <1>1, <1>3, <1>4, <1>5 DEF WTypes
<1>7. worker'[w] = t2 /\ \A v \in Workers : v # w => worker'[v] = worker[v]
  BY <1>1, <1>3 DEF WTypes
<1>8. PICK n \in Nat \ {0} : n = Len(tasks)
  <2>1. Len(tasks) \in Nat /\ Len(tasks) # 0
    BY <1>3, <1>4, LenProperties, EmptySeq
  <2> QED BY <2>1
<1>9. /\ DOMAIN tasks = 1 .. n /\ DOMAIN tasks' = 1 .. n - 1
      /\ \A i \in 1 .. n - 1 : tasks'[i] = tasks[i + 1] /\ i + 1 \in 1 .. n /\ i + 1 # 1
  <2>1. /\ Len(tasks') = n - 1 /\ \A i \in 1 .. n - 1 : tasks'[i] = tasks[i + 1]
    BY <1>3, <1>4, <1>8, HeadTailProperties
  <2>2. DOMAIN tasks = 1 .. n /\ DOMAIN tasks' = 1 .. n - 1
    BY <1>4, <1>8, <2>1, LenProperties
  <2>3. \A i \in 1 .. n - 1 : i + 1 \in 1 .. n /\ i + 1 # 1
    BY <1>8
  <2> QED BY <2>1, <2>2, <2>3
<1>10. /\ \A i \in 1 .. n : tasks[i] \in open \ armed
       /\ \A i, j \in 1 .. n : tasks[i] = tasks[j] => i = j
       /\ 1 \in 1 .. n
  BY <1>1, <1>8, <1>9 DEF OneTask
<1>11. c \in open \ armed /\ \A v \in Workers : ~ Holds(v, c)
  BY <1>1, <1>4, <1>9, <1>10 DEF OneTask, Holds
<1>12. OneTask'
  <2>1. /\ armed' \subseteq open'
        /\ \A i \in DOMAIN tasks' : tasks'[i] \in open' \ armed' /\ tasks'[i] # c
    BY <1>1, <1>3, <1>4, <1>9, <1>10 DEF OneTask
  <2>2. ASSUME NEW i \in DOMAIN tasks', NEW j \in DOMAIN tasks', tasks'[i] = tasks'[j]
        PROVE  i = j
    <3>1. i + 1 = j + 1
      BY <1>9, <1>10, <2>2
    <3> QED BY <1>9, <3>1
  <2>3. ASSUME NEW v \in Workers, worker'[v] # NoTask
        PROVE  /\ worker'[v].c \in open' \ armed'
               /\ \A i \in DOMAIN tasks' : tasks'[i] # worker'[v].c
               /\ \A z \in Workers : worker'[z] # NoTask /\ worker'[z].c = worker'[v].c => z = v
    <3>1. CASE v = w
      <4>1. worker'[v].c = c
        BY <1>2, <1>7, <3>1
      <4>2. \A z \in Workers : Holds(z, c)' => z = w
        BY <1>7, <1>11 DEF Holds
      <4>3. \A z \in Workers : worker'[z] # NoTask /\ worker'[z].c = c => z = w
        BY <4>2 DEF Holds
      <4> QED BY <1>3, <1>11, <2>1, <3>1, <4>1, <4>3
    <3>2. CASE v # w
      <4>1. worker'[v] = worker[v] /\ worker[v] # NoTask
        BY <1>7, <2>3, <3>2
      <4>2. /\ worker[v].c \in open \ armed
            /\ \A i \in 1 .. n : tasks[i] # worker[v].c
            /\ \A z \in Workers : Holds(z, worker[v].c) => z = v
        BY <1>1, <1>9, <4>1 DEF OneTask
      <4>3. worker[v].c # c
        BY <1>11, <4>1 DEF Holds
      <4>4. t2.c = c
        BY <1>2
      <4>5. \A z \in Workers : worker'[z] # NoTask /\ worker'[z].c = worker[v].c => z = v
        BY <1>7, <4>2, <4>3, <4>4 DEF Holds
      <4> QED BY <1>3, <1>9, <4>1, <4>2, <4>5
    <3> QED BY <3>1, <3>2
  <2> QED BY <2>1, <2>2, <2>3 DEF OneTask, Holds
<1>13. ASSUME NEW v \in Workers PROVE TaskOrderly(v)'
  BY <1>1, <1>2, <1>7 DEF TaskOrderly
<1>14. ASSUME NEW e \in Clients PROVE Connection(e)'
  <2>1. ASSUME NEW k, NEW p, InHand(e, k, p)' PROVE InHand(e, k, p)
    <3>1. CASE e = c
      <4>1. InHand(e, 0, << >>)
        BY <1>11, <3>1 DEF InHand
      <4>2. t2.c = c /\ t2.processed_len = 0 /\ t2.packet = << >>
        BY <1>2
      <4>3. \A v \in Workers : Holds(v, c)' => v = w
        BY <1>7, <1>11 DEF Holds
      <4>4. k = 0 /\ p = << >>
        BY <1>7, <2>1, <3>1, <4>2, <4>3 DEF InHand
      <4> QED BY <4>1, <4>4
    <3>2. CASE e # c
      <4>1. t2.c = c
        BY <1>2
      <4>2. \A v \in Workers : Holds(v, e)' <=> Holds(v, e)
        BY <1>3, <1>7, <3>2, <4>1 DEF Holds
      <4>3. \A v \in Workers : Holds(v, e) => worker'[v] = worker[v]
        BY <1>3, <1>7 DEF Holds
      <4> QED BY <2>1, <4>2, <4>3 DEF InHand
    <3> QED BY <3>1, <3>2
  <2> QED BY <1>1, <1>3, <2>1 DEF Connection
<1> QED BY <1>6, <1>12, <1>13, <1>14 DEF WInv

\* What the invariant says of a client's own connection.
LEMMA ClientTyped ==
    ASSUME WInv, NEW c \in Clients
    PROVE  /\ client[c] \in ClientState /\ up[c] \in PairSeqs /\ down[c] \in PairSeqs
           /\ buffer[c] \in PairSeqs /\ served[c] \in Seq(Nat)
           /\ up = [up EXCEPT ![c] = up[c]] /\ down = [down EXCEPT ![c] = down[c]]
           /\ buffer = [buffer EXCEPT ![c] = buffer[c]]
           /\ served = [served EXCEPT ![c] = served[c]]
           /\ timeouts \in 0 .. MaxTimeouts
BY DEF WInv, WTypes

LEMMA StartRequestStep ==
    ASSUME WInv, NEW c \in Clients, StartRequest(c)
    PROVE  WInv'
<1>1. /\ client[c] \in ClientState /\ up[c] \in PairSeqs /\ down[c] \in PairSeqs
      /\ up = [up EXCEPT ![c] = up[c]] /\ down = [down EXCEPT ![c] = down[c]]
      /\ timeouts \in 0 .. MaxTimeouts
  BY ClientTyped
<1>2. PICK cl, n, cl2 :
        /\ cl = client[c] /\ n = cl.n + 1
        /\ cl2 = IF n \in DOMAIN Script[c]
                 THEN [cl EXCEPT !.at = "send", !.n = n,
                                 !.left = Packet(n, Script[c][n].body)]
                 ELSE [cl EXCEPT !.at = "closed"]
  OBVIOUS
<1>3. /\ cl.at = "next" /\ client' = [client EXCEPT ![c] = cl2]
      /\ up' = up /\ down' = down /\ timeouts' = timeouts /\ UNCHANGED serverVars
  BY <1>2 DEF StartRequest
<1>4. ASSUME NEW k, NEW p,
             Sound(c, open, client[c], up[c], down[c], buffer[c], Len(served[c]), k, p)
      PROVE  /\ cl2 \in ClientState
             /\ Sound(c, open, cl2, up[c], down[c], buffer[c], Len(served[c]), k, p)
  <2>1. cl \in ClientState
        /\ Sound(c, open, cl, up[c], down[c], buffer[c], Len(served[c]), k, p)
    BY <1>1, <1>2, <1>4
  <2>2. CASE n \in DOMAIN Script[c]
    <3>1. PICK l : l = Packet(n, Script[c][n].body)
      OBVIOUS
    <3>2. cl2 = Begun(cl, n, l)
      BY <1>2, <2>2, <3>1 DEF Begun
    <3>3. n = cl.n + 1
      BY <1>2
    <3>4. cl.at = "next"
      BY <1>3
    <3> QED BY <2>1, <2>2, <3>1, <3>2, <3>3, <3>4, SoundStarted
  <2>3. CASE n \notin DOMAIN Script[c]
    <3>1. cl2 = [cl EXCEPT !.at = "closed"]
      BY <1>2, <2>3
    <3> QED BY <2>1, <3>1, SoundClosed
  <2> QED BY <2>2, <2>3
<1>5. /\ up' = [up EXCEPT ![c] = up[c]] /\ down' = [down EXCEPT ![c] = down[c]]
      /\ timeouts' \in 0 .. MaxTimeouts
  BY <1>1, <1>3
<1>6. client' = [client EXCEPT ![c] = cl2] /\ UNCHANGED serverVars
  BY <1>3
<1> QED BY <1>1, <1>4, <1>5, <1>6, ClientStep

LEMMA SendPieceStep ==
    ASSUME WInv, NEW c \in Clients, SendPiece(c)
    PROVE  WInv'
<1>1. /\ client[c] \in ClientState /\ down[c] \in PairSeqs
      /\ down = [down EXCEPT ![c] = down[c]] /\ timeouts \in 0 .. MaxTimeouts
  BY ClientTyped
<1>2. PICK j \in 1 .. Len(client[c].left) :
        LET left == SubSeq(client[c].left, j + 1, Len(client[c].left))
        IN  /\ up' = [up EXCEPT ![c] = @ \o SubSeq(client[c].left, 1, j)]
            /\ client' = [client EXCEPT ![c] =
                  IF left # << >> THEN [@ EXCEPT !.left = left]
                  ELSE IF Script[c][client[c].n].ahead
                  THEN [@ EXCEPT !.at = "next", !.left = left]
                  ELSE [@ EXCEPT !.at = "recv", !.left = left, !.want = HeaderLen]]
  BY DEF SendPiece
<1>3. PICK cl, l2, u2, cl2 :
        /\ cl = client[c] /\ l2 = Rest(cl.left, j) /\ u2 = Join(up[c], SubSeq(cl.left, 1, j))
        /\ cl2 = IF l2 # << >> THEN [cl EXCEPT !.left = l2]
                 ELSE IF Script[c][cl.n].ahead
                 THEN [cl EXCEPT !.at = "next", !.left = l2]
                 ELSE [cl EXCEPT !.at = "recv", !.left = l2, !.want = HeaderLen]
  OBVIOUS
<1>4. /\ cl.at = "send" /\ down' = down /\ timeouts' = timeouts /\ UNCHANGED serverVars
  BY <1>3 DEF SendPiece
<1>5. up' = [up EXCEPT ![c] = u2] /\ client' = [client EXCEPT ![c] = cl2]
  BY <1>2, <1>3 DEF Rest, Join
<1>6. ASSUME NEW k, NEW p,
             Sound(c, open, client[c], up[c], down[c], buffer[c], Len(served[c]), k, p)
      PROVE  /\ cl2 \in ClientState /\ u2 \in PairSeqs
             /\ Sound(c, open, cl2, u2, down[c], buffer[c], Len(served[c]), k, p)
  <2>1. cl \in ClientState
        /\ Sound(c, open, cl, up[c], down[c], buffer[c], Len(served[c]), k, p)
    BY <1>1, <1>3, <1>6
  <2>2. cl2 \in PieceSent(cl, l2)
    BY <1>3 DEF PieceSent
  <2>3. /\ j \in 1 .. Len(cl.left) /\ l2 = Rest(cl.left, j)
        /\ u2 = Join(up[c], SubSeq(cl.left, 1, j))
    BY <1>2, <1>3
  <2>4. cl.at = "send"
    BY <1>4
  <2> QED BY <2>1, <2>2, <2>3, <2>4, SoundSent
<1>7. down' = [down EXCEPT ![c] = down[c]] /\ timeouts' \in 0 .. MaxTimeouts
  BY <1>1, <1>4
<1>8. UNCHANGED serverVars
  BY <1>4
<1> QED BY <1>1, <1>5, <1>6, <1>7, <1>8, ClientStep

LEMMA TimeOutStep ==
    ASSUME WInv, NEW c \in Clients, TimeOut(c)
    PROVE  WInv'
<1>1. /\ client[c] \in ClientState /\ up[c] \in PairSeqs /\ down[c] \in PairSeqs
      /\ up = [up EXCEPT ![c] = up[c]] /\ down = [down EXCEPT ![c] = down[c]]
      /\ timeouts \in 0 .. MaxTimeouts
  BY ClientTyped
<1>2. PICK cl, cl2 :
        /\ cl = client[c]
        /\ cl2 = IF Script[c][cl.n].optional
                 THEN [cl EXCEPT !.at = "next", !.got = << >>, !.want = 0, !.skipped = TRUE]
                 ELSE [cl EXCEPT !.at = "closed"]
  OBVIOUS
<1>3. /\ cl.at = "recv" /\ client' = [client EXCEPT ![c] = cl2]
      /\ up' = up /\ down' = down /\ UNCHANGED serverVars
  BY <1>2 DEF TimeOut
<1>4. timeouts' \in 0 .. MaxTimeouts
  BY <1>1, WireAssumption DEF TimeOut
<1>5. ASSUME NEW k, NEW p,
             Sound(c, open, client[c], up[c], down[c], buffer[c], Len(served[c]), k, p)
      PROVE  /\ cl2 \in ClientState
             /\ Sound(c, open, cl2, up[c], down[c], buffer[c], Len(served[c]), k, p)
  <2>1. cl \in ClientState
        /\ Sound(c, open, cl, up[c], down[c], buffer[c], Len(served[c]), k, p)
    BY <1>1, <1>2, <1>5
  <2>2. CASE Script[c][cl.n].optional
    <3>1. cl2 = GivenUp(cl)
      BY <1>2, <2>2 DEF GivenUp
    <3>2. cl.at = "recv"
      BY <1>3
    <3> QED BY <2>1, <3>1, <3>2, SoundGivenUp
  <2>3. CASE ~ Script[c][cl.n].optional
    <3>1. cl2 = [cl EXCEPT !.at = "closed"]
      BY <1>2, <2>3
    <3> QED BY <2>1, <3>1, SoundClosed
  <2> QED BY <2>2, <2>3
<1>6. up' = [up EXCEPT ![c] = up[c]] /\ down' = [down EXCEPT ![c] = down[c]]
  BY <1>1, <1>3
<1>7. client' = [client EXCEPT ![c] = cl2] /\ UNCHANGED serverVars
  BY <1>3
<1> QED BY <1>1, <1>4, <1>5, <1>6, <1>7, ClientStep

LEMMA DisconnectedStep ==
    ASSUME WInv, NEW c \in Clients, Disconnected(c)
    PROVE  WInv'
<1>1. /\ client[c] \in ClientState /\ up[c] \in PairSeqs /\ down[c] \in PairSeqs
      /\ up = [up EXCEPT ![c] = up[c]] /\ down = [down EXCEPT ![c] = down[c]]
      /\ timeouts \in 0 .. MaxTimeouts
  BY ClientTyped
<1>2. PICK cl, cl2 : cl = client[c] /\ cl2 = [cl EXCEPT !.at = "closed"]
  OBVIOUS
<1>3. /\ client' = [client EXCEPT ![c] = cl2]
      /\ up' = up /\ down' = down /\ timeouts' = timeouts /\ UNCHANGED serverVars
  BY <1>2 DEF Disconnected
<1>4. ASSUME NEW k, NEW p,
             Sound(c, open, client[c], up[c], down[c], buffer[c], Len(served[c]), k, p)
      PROVE  /\ cl2 \in ClientState
             /\ Sound(c, open, cl2, up[c], down[c], buffer[c], Len(served[c]), k, p)
  <2>1. cl \in ClientState /\ cl2 = [cl EXCEPT !.at = "closed"]
        /\ Sound(c, open, cl, up[c], down[c], buffer[c], Len(served[c]), k, p)
    BY <1>1, <1>2, <1>4
  <2> QED BY <2>1, SoundClosed
<1>5. /\ up' = [up EXCEPT ![c] = up[c]] /\ down' = [down EXCEPT ![c] = down[c]]
      /\ timeouts' \in 0 .. MaxTimeouts
  BY <1>1, <1>3
<1>6. client' = [client EXCEPT ![c] = cl2] /\ UNCHANGED serverVars
  BY <1>3
<1> QED BY <1>1, <1>4, <1>5, <1>6, ClientStep

\* The handler, with the piece it receives.
LEMMA RecvPieceDoes ==
    ASSUME WInv, NEW c \in Clients, RecvPiece(c)
    PROVE  \E cl2, g2, d2, j :
              /\ j \in Nat /\ j =< Len(down[c]) /\ j =< client[c].want - Len(client[c].got)
              /\ g2 = Join(client[c].got, SubSeq(down[c], 1, j)) /\ d2 = Rest(down[c], j)
              /\ client' = [client EXCEPT ![c] = cl2] /\ down' = [down EXCEPT ![c] = d2]
              /\ cl2 \in TakenFrom(c, client[c], g2) \/ cl2 \in TakenAll(c, client[c], g2)
<1>1. PICK cl, g, want, d : cl = client[c] /\ g = cl.got /\ want = cl.want /\ d = down[c]
  OBVIOUS
<1>2. cl \in ClientState /\ d \in PairSeqs /\ client \in [Clients -> ClientState]
  BY <1>1, ClientTyped DEF WInv, WTypes
<1>3. Len(g) \in Nat /\ want \in Nat /\ Len(g) =< want /\ Len(d) \in Nat
  <2>1. PICK k, p : InHand(c, k, p)
    BY SomeHand
  <2>2. Sound(c, open, cl, up[c], down[c], buffer[c], Len(served[c]), k, p)
    BY <1>1, <2>1 DEF WInv, Connection
  <2>3. ClientOK(c, cl, Len(served[c]))
    BY <1>2, <2>2, SoundParts
  <2>4. Len(cl.got) =< cl.want
    BY <2>3 DEF ClientOK
  <2>5. g \in Seq(Pairs) /\ want \in Nat /\ d \in Seq(Pairs)
    BY <1>1, <1>2, ClientParts DEF PairSeqs
  <2> QED BY <1>1, <2>4, <2>5, LenProperties
<1>4. PICK j : j = IF want - Len(g) < Len(d) THEN want - Len(g) ELSE Len(d)
  OBVIOUS
<1>5. j \in Nat /\ j =< Len(d) /\ j =< want - Len(g)
  BY <1>3, <1>4
<1>6. PICK g2, d2 : g2 = Join(g, SubSeq(d, 1, j)) /\ d2 = Rest(d, j)
  OBVIOUS
<1>7. Received(c, g2) /\ down' = [down EXCEPT ![c] = d2]
  BY <1>1, <1>4, <1>6 DEF RecvPiece, Join, Rest
<1>8. \E cl2 : /\ client' = [client EXCEPT ![c] = cl2]
               /\ cl2 \in TakenFrom(c, cl, g2) \/ cl2 \in TakenAll(c, cl, g2)
  <2>1. CASE client' = [client EXCEPT ![c].got = g2]
    <3>1. PICK cl2 : cl2 = [cl EXCEPT !.got = g2]
      OBVIOUS
    <3>2. cl2 = Has(cl, g2, cl.want)
      BY <1>2, <3>1 DEF Has, ClientState
    <3>3. client' = [client EXCEPT ![c] = cl2]
      BY <1>1, <1>2, <2>1, <3>1
    <3> QED BY <3>2, <3>3 DEF TakenFrom
  <2>2. ASSUME Len(g2) = HeaderLen, NEW len \in Lengths(c, g2) \ {0},
               client' = [client EXCEPT ![c].got = g2, ![c].want = HeaderLen + len]
        PROVE  \E cl2 : client' = [client EXCEPT ![c] = cl2] /\ cl2 \in TakenFrom(c, cl, g2)
    <3>1. PICK cl2, want2 : want2 = HeaderLen + len /\ cl2 = Has(cl, g2, want2)
      OBVIOUS
    <3>2. client' = [client EXCEPT ![c] = cl2]
      <4>1. client' = [client EXCEPT ![c].got = g2, ![c].want = want2]
        BY <2>2, <3>1
      <4> QED BY <1>1, <1>2, <3>1, <4>1 DEF Has
    <3>3. cl2 \in TakenFrom(c, cl, g2)
      BY <2>2, <3>1 DEF TakenFrom
    <3> QED BY <3>2, <3>3
  <2>3. ASSUME Len(g2) = client[c].want, Len(g2) > HeaderLen \/ 0 \in Lengths(c, g2),
               client' = [client EXCEPT ![c] = Take(c, g2[1][1])]
        PROVE  \E cl2 : client' = [client EXCEPT ![c] = cl2] /\ cl2 \in TakenAll(c, cl, g2)
    <3>1. PICK cl2, all : 
             /\ cl2 = Take(c, g2[1][1])
             /\ all = ({r \in 1 .. cl.n : Script[c][r].reply > 0}
                          \subseteq Range(Append(cl.heard, g2[1][1])))
      OBVIOUS
    <3>2. cl2 = Taken(cl, IF cl.skipped \/ all THEN 0 ELSE HeaderLen,
                      IF cl.skipped \/ all THEN "next" ELSE "recv",
                      IF cl.skipped THEN cl.heard ELSE Append(cl.heard, g2[1][1]))
      BY <1>1, <3>1, Zenon DEF Take, Taken
    <3>3. cl2 \in TakenAll(c, cl, g2)
      <4>1. Len(g2) = cl.want
        BY <1>1, <2>3
      <4>2. PICK want2, at2 : /\ want2 = IF cl.skipped \/ all THEN 0 ELSE HeaderLen
                              /\ at2 = IF cl.skipped \/ all THEN "next" ELSE "recv"
        OBVIOUS
      <4>3. (at2 = "next" /\ want2 = 0) \/ (at2 = "recv" /\ want2 = HeaderLen)
        <5>1. CASE cl.skipped \/ all
          BY <4>2, <5>1
        <5>2. CASE ~ (cl.skipped \/ all)
          BY <4>2, <5>2
        <5> QED BY <5>1, <5>2
      <4>4. cl2 = Taken(cl, want2, at2,
                        IF cl.skipped THEN cl.heard ELSE Append(cl.heard, g2[1][1]))
        BY <3>2, <4>2
      <4> QED BY <2>3, <4>1, <4>3, <4>4 DEF TakenAll
    <3> QED BY <2>3, <3>1, <3>3
  <2> QED BY <1>7, <2>1, <2>2, <2>3 DEF Received
<1>9. PICK cl2 : /\ client' = [client EXCEPT ![c] = cl2]
                 /\ cl2 \in TakenFrom(c, cl, g2) \/ cl2 \in TakenAll(c, cl, g2)
  BY <1>8
<1>10. /\ j \in Nat /\ j =< Len(down[c]) /\ j =< client[c].want - Len(client[c].got)
       /\ g2 = Join(client[c].got, SubSeq(down[c], 1, j)) /\ d2 = Rest(down[c], j)
       /\ client' = [client EXCEPT ![c] = cl2] /\ down' = [down EXCEPT ![c] = d2]
       /\ cl2 \in TakenFrom(c, client[c], g2) \/ cl2 \in TakenAll(c, client[c], g2)
  BY <1>1, <1>5, <1>6, <1>7, <1>9
<1> QED BY <1>10, Zenon

\* What it does to the connection, and to the replies taken.
LEMMA RecvPieceSound ==
    ASSUME NEW c \in Clients, NEW O, NEW cl \in ClientState, NEW u, NEW d, NEW b, NEW m,
           NEW k, NEW p, Sound(c, O, cl, u, d, b, m, k, p), cl.at = "recv",
           NEW j \in Nat, j =< Len(d), j =< cl.want - Len(cl.got),
           NEW g2, g2 = Join(cl.got, SubSeq(d, 1, j)), NEW d2, d2 = Rest(d, j),
           NEW cl2, cl2 \in TakenFrom(c, cl, g2) \/ cl2 \in TakenAll(c, cl, g2)
    PROVE  /\ cl2 \in ClientState /\ d2 \in PairSeqs /\ Sound(c, O, cl2, u, d2, b, m, k, p)
           /\ cl2.n = cl.n
           /\ HeardMore(c, cl, cl2, m)
<1>1. CASE cl2 \in TakenFrom(c, cl, g2)
  BY <1>1, SoundReceived
<1>2. CASE cl2 \in TakenAll(c, cl, g2)
  BY <1>2, SoundTaken
<1> QED BY <1>1, <1>2

LEMMA RecvPieceStep ==
    ASSUME WInv, NEW c \in Clients, RecvPiece(c)
    PROVE  WInv'
<1>1. /\ client[c] \in ClientState /\ up[c] \in PairSeqs
      /\ up = [up EXCEPT ![c] = up[c]] /\ timeouts \in 0 .. MaxTimeouts
  BY ClientTyped
<1>2. PICK cl2, g2, d2, j :
        /\ j \in Nat /\ j =< Len(down[c]) /\ j =< client[c].want - Len(client[c].got)
        /\ g2 = Join(client[c].got, SubSeq(down[c], 1, j)) /\ d2 = Rest(down[c], j)
        /\ client' = [client EXCEPT ![c] = cl2] /\ down' = [down EXCEPT ![c] = d2]
        /\ cl2 \in TakenFrom(c, client[c], g2) \/ cl2 \in TakenAll(c, client[c], g2)
  BY RecvPieceDoes
<1>3. /\ client[c].at = "recv" /\ up' = up /\ timeouts' = timeouts /\ UNCHANGED serverVars
  BY DEF RecvPiece
<1>4. ASSUME NEW k, NEW p,
             Sound(c, open, client[c], up[c], down[c], buffer[c], Len(served[c]), k, p)
      PROVE  /\ cl2 \in ClientState /\ d2 \in PairSeqs
             /\ Sound(c, open, cl2, up[c], d2, buffer[c], Len(served[c]), k, p)
  <2>1. PICK cl, d : cl = client[c] /\ d = down[c]
    OBVIOUS
  <2>2. /\ cl \in ClientState /\ cl.at = "recv"
        /\ Sound(c, open, cl, up[c], d, buffer[c], Len(served[c]), k, p)
    BY <1>1, <1>3, <1>4, <2>1
  <2>3. /\ j \in Nat /\ j =< Len(d) /\ j =< cl.want - Len(cl.got)
        /\ g2 = Join(cl.got, SubSeq(d, 1, j)) /\ d2 = Rest(d, j)
        /\ cl2 \in TakenFrom(c, cl, g2) \/ cl2 \in TakenAll(c, cl, g2)
    BY <1>2, <2>1
  <2> QED BY <2>2, <2>3, RecvPieceSound
<1>5. /\ up' = [up EXCEPT ![c] = up[c]] /\ timeouts' \in 0 .. MaxTimeouts
      /\ client' = [client EXCEPT ![c] = cl2] /\ down' = [down EXCEPT ![c] = d2]
  BY <1>1, <1>2, <1>3
<1>6. UNCHANGED serverVars
  BY <1>3
<1> QED BY <1>1, <1>4, <1>5, <1>6, ClientStep

\* What the invariant says of a task's connection.
LEMMA TaskTyped ==
    ASSUME WInv, NEW w \in Workers, worker[w].at \in {"read", "frame", "send"}
    PROVE  /\ worker[w] # NoTask /\ worker[w] \in TaskState
           /\ worker[w].c \in Clients /\ worker[w].c \in open
           /\ worker[w].processed_len \in Nat /\ worker[w].packet \in PairSeqs
           /\ TaskOrderly(w)
           /\ served[worker[w].c] = [i \in 1 .. Len(served[worker[w].c]) |-> i]
           /\ Sound(worker[w].c, open, client[worker[w].c], up[worker[w].c],
                    down[worker[w].c], buffer[worker[w].c], Len(served[worker[w].c]),
                    worker[w].processed_len, worker[w].packet)
<1>1. WTypes /\ OneTask /\ TaskOrderly(w)
      /\ (\A e \in Clients : Connection(e))
  BY DEF WInv
<1>2. worker[w] # NoTask
  BY DEF NoTask
<1>3. /\ worker[w] \in TaskState /\ worker[w].c \in Clients
      /\ worker[w].processed_len \in Nat /\ worker[w].packet \in PairSeqs
  BY <1>1, <1>2, WorkerParts
<1>4. worker[w].c \in open
  BY <1>1, <1>2 DEF OneTask
<1>5. InHand(worker[w].c, worker[w].processed_len, worker[w].packet)
  BY <1>1, <1>2, HandOf
<1> QED BY <1>1, <1>2, <1>3, <1>4, <1>5 DEF Connection

LEMMA ReadStep ==
    ASSUME WInv, NEW w \in Workers, Read(w)
    PROVE  WInv'
<1>1. worker[w].at = "read"
  BY DEF Read
<1>2. PICK c, t, cl, u, d, b, s :
        /\ t = worker[w] /\ c = t.c /\ cl = client[c] /\ u = up[c] /\ d = down[c]
        /\ b = buffer[c] /\ s = served[c]
  OBVIOUS
<1>3. /\ t # NoTask /\ t \in TaskState /\ c \in Clients /\ t.processed_len = 0
      /\ t.packet = << >> /\ s = [i \in 1 .. Len(s) |-> i]
      /\ Sound(c, open, cl, u, d, b, Len(s), 0, << >>)
  BY <1>1, <1>2, TaskTyped DEF TaskOrderly
<1>4. /\ cl \in ClientState /\ d \in PairSeqs /\ b \in PairSeqs /\ s \in Seq(Nat)
      /\ down = [down EXCEPT ![c] = d] /\ served = [served EXCEPT ![c] = s]
      /\ buffer = [buffer EXCEPT ![c] = b]
  BY <1>2, <1>3, ClientTyped
<1>5. /\ up' = [up EXCEPT ![c] = << >>] /\ client' = client /\ down' = down
      /\ timeouts' = timeouts /\ armed' = armed /\ tasks' = tasks /\ alive' = alive
      /\ served' = served
  BY <1>2 DEF Read
<1>6. << >> \in PairSeqs
  BY DEF PairSeqs
<1>7. CASE client[c].at = "closed"
  <2>1. /\ open' = open \ {c} /\ worker' = [worker EXCEPT ![w] = NoTask] /\ buffer' = buffer
    BY <1>2, <1>7 DEF Read
  <2>2. Sound(c, open', cl, << >>, d, b, Len(s), 0, << >>)
    BY <1>3, <1>4, <2>1, SoundLeft
  <2>3. Sound(c, open', client[c], << >>, down[c], b, Len(served[c]), 0, << >>)
    BY <1>2, <2>2
  <2>4. worker[w] # NoTask /\ c = worker[w].c /\ buffer' = [buffer EXCEPT ![c] = b]
    BY <1>2, <1>3, <1>4, <2>1
  <2>5. /\ armed' = armed /\ open' = open \ {c} /\ worker' = [worker EXCEPT ![w] = NoTask]
        /\ up' = [up EXCEPT ![c] = << >>] /\ client' = client /\ down' = down
        /\ timeouts' = timeouts /\ tasks' = tasks /\ alive' = alive /\ served' = served
        /\ b \in PairSeqs /\ << >> \in PairSeqs
    BY <1>4, <1>5, <1>6, <2>1
  <2> QED BY <2>3, <2>4, <2>5, LeaveStep
<1>8. CASE client[c].at # "closed"
  <2>1. PICK b2, t2 : b2 = Join(b, u) /\ t2 = [t EXCEPT !.at = "frame"]
    OBVIOUS
  <2>2. /\ open' = open /\ buffer' = [buffer EXCEPT ![c] = b2]
        /\ worker' = [worker EXCEPT ![w] = t2]
    BY <1>2, <1>8, <2>1 DEF Read, Join
  <2>3. b2 \in PairSeqs /\ Sound(c, open, cl, << >>, d, b2, Len(s), 0, << >>)
    BY <1>3, <1>4, <2>1, SoundRead
  <2>4. /\ t2 \in TaskState /\ t2.c = c /\ t2.at = "frame" /\ t2.packet = << >>
        /\ t2.processed_len = 0
    BY <1>2, <1>3, <2>1 DEF TaskState
  <2>5. Sound(c, open, client[c], << >>, d, b2, Len(s), t2.processed_len, t2.packet)
    BY <1>2, <2>3, <2>4
  <2>6. worker[w] # NoTask /\ c = worker[w].c /\ alive' \in BOOLEAN
    BY <1>2, <1>3, <1>5 DEF WInv, WTypes
  <2>7. down' = [down EXCEPT ![c] = d] /\ served' = [served EXCEPT ![c] = s]
    BY <1>4, <1>5
  <2>8. s = [i \in 1 .. Len(s) |-> i]
    BY <1>3
  <2>9. (t2.at = "frame" => t2.packet = << >>) /\ t2.at # "read"
    BY <2>4
  <2> QED BY <1>4, <1>5, <1>6, <2>2, <2>3, <2>4, <2>5, <2>6, <2>7, <2>8, <2>9, TaskStep
<1> QED BY <1>7, <1>8

LEMMA SendReplyStep ==
    ASSUME WInv, NEW w \in Workers, SendReply(w)
    PROVE  WInv'
<1>1. worker[w].at = "send"
  BY DEF SendReply
<1>2. PICK c, t, cl, u, d, b, s, k, p :
        /\ t = worker[w] /\ c = t.c /\ cl = client[c] /\ u = up[c] /\ d = down[c]
        /\ b = buffer[c] /\ s = served[c] /\ k = t.processed_len /\ p = t.packet
  OBVIOUS
<1>3. /\ t # NoTask /\ t \in TaskState /\ c \in Clients
      /\ s = [i \in 1 .. Len(s) |-> i]
      /\ Sound(c, open, cl, u, d, b, Len(s), k, p)
  BY <1>1, <1>2, TaskTyped
<1>4. /\ cl \in ClientState /\ u \in PairSeqs /\ b \in PairSeqs /\ s \in Seq(Nat)
      /\ up = [up EXCEPT ![c] = u] /\ served = [served EXCEPT ![c] = s]
      /\ buffer = [buffer EXCEPT ![c] = b]
  BY <1>2, <1>3, ClientTyped
<1>5. PICK j \in 1 .. Len(p) :
        /\ Len(d) + j =< Capacity
        /\ down' = [down EXCEPT ![c] = @ \o SubSeq(p, 1, j)]
        /\ worker' = [worker EXCEPT ![w].packet = SubSeq(p, j + 1, Len(p)),
                                    ![w].at = IF j = Len(p) THEN "frame" ELSE "send"]
  BY <1>2 DEF SendReply
<1>6. /\ client' = client /\ up' = up /\ buffer' = buffer /\ open' = open
      /\ timeouts' = timeouts /\ armed' = armed /\ tasks' = tasks /\ alive' = alive
      /\ served' = served
  BY DEF SendReply
<1>7. PICK d2, p2, at2, t2 :
        /\ d2 = Join(d, SubSeq(p, 1, j)) /\ p2 = Rest(p, j)
        /\ at2 = (IF j = Len(p) THEN "frame" ELSE "send")
        /\ t2 = [t EXCEPT !.packet = p2, !.at = at2]
  OBVIOUS
<1>8. down' = [down EXCEPT ![c] = d2]
  BY <1>2, <1>5, <1>7 DEF Join
<1>9. worker' = [worker EXCEPT ![w] = t2]
  <2>1. worker' = [worker EXCEPT ![w].packet = p2, ![w].at = at2]
    BY <1>5, <1>7 DEF Rest
  <2>2. worker[w] = t /\ worker \in [Workers -> TaskState \cup {NoTask}]
    BY <1>2 DEF WInv, WTypes
  <2> QED BY <1>7, <2>1, <2>2
<1>10. /\ d2 \in PairSeqs /\ p2 \in PairSeqs /\ Sound(c, open, cl, u, d2, b, Len(s), k, p2)
       /\ j = Len(p) => p2 = << >>
  <2>1. d2 = Join(d, SubSeq(p, 1, j)) /\ p2 = Rest(p, j) /\ Len(d) + j =< Capacity
    BY <1>5, <1>7
  <2>2. cl \in ClientState /\ c \in Clients /\ Sound(c, open, cl, u, d, b, Len(s), k, p)
    BY <1>3, <1>4
  <2> QED BY <2>1, <2>2, SoundReplied
<1>11. /\ t2 \in TaskState /\ t2.c = c /\ t2.at = at2 /\ t2.packet = p2
       /\ t2.processed_len = k
  <2>1. at2 \in {"read", "frame", "send"}
    BY <1>7
  <2> QED BY <1>2, <1>3, <1>7, <1>10, <2>1 DEF TaskState
<1>12. Sound(c, open, client[c], u, d2, b, Len(s), t2.processed_len, t2.packet)
  BY <1>2, <1>10, <1>11
<1>13. worker[w] # NoTask /\ c = worker[w].c /\ alive' \in BOOLEAN
  BY <1>2, <1>3, <1>6 DEF WInv, WTypes
<1>14. /\ up' = [up EXCEPT ![c] = u] /\ served' = [served EXCEPT ![c] = s]
       /\ buffer' = [buffer EXCEPT ![c] = b]
  BY <1>4, <1>6
<1>15. (t2.at = "frame" => t2.packet = << >>) /\ t2.at # "read"
  BY <1>7, <1>10, <1>11
<1>16. /\ client' = client /\ open' = open
       /\ timeouts' = timeouts /\ armed' = armed /\ tasks' = tasks
       /\ s = [i \in 1 .. Len(s) |-> i]
  BY <1>3, <1>6
<1> QED BY <1>4, <1>8, <1>9, <1>10, <1>11, <1>12, <1>13, <1>14, <1>15, <1>16, TaskStep

LEMMA SendToNobodyStep ==
    ASSUME WInv, NEW w \in Workers, SendToNobody(w)
    PROVE  WInv'
<1>1. worker[w].at = "send"
  BY DEF SendToNobody
<1>2. PICK c, t, cl, u, d, b, s, k, p :
        /\ t = worker[w] /\ c = t.c /\ cl = client[c] /\ u = up[c] /\ d = down[c]
        /\ b = buffer[c] /\ s = served[c] /\ k = t.processed_len /\ p = t.packet
  OBVIOUS
<1>3. /\ t # NoTask /\ t \in TaskState /\ c \in Clients
      /\ s = [i \in 1 .. Len(s) |-> i]
      /\ Sound(c, open, cl, u, d, b, Len(s), k, p)
  BY <1>1, <1>2, TaskTyped
<1>4. /\ cl \in ClientState /\ u \in PairSeqs /\ d \in PairSeqs /\ b \in PairSeqs
      /\ s \in Seq(Nat) /\ down = [down EXCEPT ![c] = d]
      /\ up = [up EXCEPT ![c] = u] /\ served = [served EXCEPT ![c] = s]
      /\ buffer = [buffer EXCEPT ![c] = b]
  BY <1>2, <1>3, ClientTyped
<1>5. /\ client' = client /\ up' = up /\ down' = down /\ buffer' = buffer /\ open' = open
      /\ timeouts' = timeouts /\ armed' = armed /\ tasks' = tasks
      /\ served' = served /\ cl.at = "closed"
  BY <1>2 DEF SendToNobody
<1>6. worker \in [Workers -> TaskState \cup {NoTask}] /\ alive \in BOOLEAN
  BY DEF WInv, WTypes
<1>7. PICK t2 : /\ worker' = [worker EXCEPT ![w] = t2] /\ alive' \in BOOLEAN
                /\ t2 \in TaskState /\ t2.c = c /\ t2.processed_len = k
                /\ \/ t2.at = "frame" /\ t2.packet = << >>
                   \/ t2.at = "send" /\ t2.packet = p
  <2>1. CASE /\ worker' = [worker EXCEPT ![w].packet = << >>, ![w].at = "frame"]
             /\ alive' = alive
    <3>1. PICK t2 : t2 = [t EXCEPT !.packet = << >>, !.at = "frame"]
      OBVIOUS
    <3>2. << >> \in PairSeqs
      BY DEF PairSeqs
    <3>3. /\ t2 \in TaskState /\ t2.c = c /\ t2.processed_len = k /\ t2.at = "frame"
          /\ t2.packet = << >>
      BY <1>2, <1>3, <3>1, <3>2 DEF TaskState
    <3>4. worker' = [worker EXCEPT ![w] = t2]
      BY <1>2, <1>6, <2>1, <3>1
    <3> QED BY <1>6, <2>1, <3>3, <3>4
  <2>2. CASE alive' = FALSE /\ worker' = worker
    <3>1. worker' = [worker EXCEPT ![w] = t]
      BY <1>2, <1>6, <2>2
    <3>2. t.at = "send" /\ t.packet = p /\ t.c = c /\ t.processed_len = k
      BY <1>1, <1>2
    <3> QED BY <1>3, <2>2, <3>1, <3>2
  <2> QED BY <2>1, <2>2 DEF SendToNobody
<1>8. Sound(c, open, cl, u, d, b, Len(s), k, << >>)
  BY <1>3, <1>4, <1>5, SoundDropped
<1>9. Sound(c, open, client[c], u, d, b, Len(s), t2.processed_len, t2.packet)
  BY <1>2, <1>3, <1>7, <1>8
<1>10. worker[w] # NoTask /\ c = worker[w].c
  BY <1>2, <1>3
<1>11. /\ up' = [up EXCEPT ![c] = u] /\ served' = [served EXCEPT ![c] = s]
       /\ buffer' = [buffer EXCEPT ![c] = b] /\ down' = [down EXCEPT ![c] = d]
  BY <1>4, <1>5
<1>12. (t2.at = "frame" => t2.packet = << >>) /\ t2.at # "read"
  BY <1>7
<1>13. /\ client' = client /\ open' = open
       /\ timeouts' = timeouts /\ armed' = armed /\ tasks' = tasks
       /\ s = [i \in 1 .. Len(s) |-> i]
  BY <1>3, <1>5
<1>14. /\ t2 \in TaskState /\ t2.c = c /\ worker' = [worker EXCEPT ![w] = t2]
       /\ alive' \in BOOLEAN
  BY <1>7
<1>15. u \in PairSeqs /\ d \in PairSeqs /\ b \in PairSeqs /\ s \in Seq(Nat)
  BY <1>4
<1> QED BY <1>9, <1>10, <1>11, <1>12, <1>13, <1>14, <1>15, TaskStep

LEMMA EndTaskStep ==
    ASSUME WInv, NEW w \in Workers, EndTask(w)
    PROVE  WInv'
<1>1. worker[w].at = "frame"
  BY DEF EndTask
<1>2. PICK c, t, cl, u, d, b, s, k, b2 :
        /\ t = worker[w] /\ c = t.c /\ cl = client[c] /\ u = up[c] /\ d = down[c]
        /\ b = buffer[c] /\ s = served[c] /\ k = t.processed_len
        /\ b2 = EraseProcessed(b, k)
  OBVIOUS
<1>3. /\ t # NoTask /\ c \in Clients /\ t.packet = << >>
      /\ Sound(c, open, cl, u, d, b, Len(s), k, << >>)
  BY <1>1, <1>2, TaskTyped DEF TaskOrderly
<1>4. cl \in ClientState /\ u \in PairSeqs /\ up = [up EXCEPT ![c] = u]
  BY <1>2, <1>3, ClientTyped
<1>5. /\ client' = client /\ up' = up /\ down' = down /\ timeouts' = timeouts
      /\ tasks' = tasks /\ open' = open /\ alive' = alive /\ served' = served
      /\ worker' = [worker EXCEPT ![w] = NoTask] /\ armed' = armed \cup {c}
      /\ buffer' = [buffer EXCEPT ![c] = b2]
  BY <1>2 DEF EndTask
<1>6. b2 \in PairSeqs /\ Sound(c, open, cl, u, d, b2, Len(s), 0, << >>)
  BY <1>2, <1>3, <1>4, SoundErased
<1>7. Sound(c, open', client[c], u, down[c], b2, Len(served[c]), 0, << >>)
  BY <1>2, <1>5, <1>6
<1>8. worker[w] # NoTask /\ c = worker[w].c /\ up' = [up EXCEPT ![c] = u]
  BY <1>2, <1>3, <1>4, <1>5
<1> QED BY <1>4, <1>5, <1>6, <1>7, <1>8, LeaveStep

\* Requests are counted: the next one makes the sequence one longer.
LEMMA CountOn ==
    ASSUME NEW s \in Seq(Nat), s = [i \in 1 .. Len(s) |-> i], NEW n, n = Len(s) + 1,
           NEW s2, s2 = Append(s, n)
    PROVE  s2 \in Seq(Nat) /\ Len(s2) = n /\ s2 = [i \in 1 .. Len(s2) |-> i]
<1>1. Len(s) \in Nat /\ n \in Nat
  BY LenProperties
<1>2. /\ s2 \in Seq(Nat) /\ Len(s2) = n /\ s2[n] = n
      /\ \A i \in 1 .. Len(s) : s2[i] = s[i]
  BY <1>1, AppendProperties
<1>3. \A i \in 1 .. Len(s) : s[i] = i
  OBVIOUS
<1>4. \A i \in 1 .. n : s2[i] = i
  BY <1>1, <1>2, <1>3
<1>5. s2 = [i \in 1 .. n |-> s2[i]]
  BY <1>2
<1> QED BY <1>2, <1>4, <1>5

LEMMA DispatchStep ==
    ASSUME WInv, NEW w \in Workers, Dispatch(w)
    PROVE  /\ WInv'
           /\ \E c \in Clients :
                 /\ Len(served[c]) < client[c].n
                 /\ served' = [served EXCEPT ![c] = Append(@, Len(@) + 1)]
<1>1. worker[w].at = "frame"
  BY DEF Dispatch
<1>2. PICK c, t, cl, u, d, b, s, k, x, n, reply, k2, s2, m :
        /\ t = worker[w] /\ c = t.c /\ cl = client[c] /\ u = up[c] /\ d = down[c]
        /\ b = buffer[c] /\ s = served[c] /\ k = t.processed_len
        /\ x = Rest(b, k) /\ n = RequestAt(x)
        /\ reply = (IF n = 0 THEN 0 ELSE Script[c][n].reply)
        /\ k2 = k + HeaderLen + HeaderLength(c, x) /\ s2 = Append(s, n) /\ m = Len(s)
  OBVIOUS
<1>3. /\ t # NoTask /\ t \in TaskState /\ c \in Clients /\ t.packet = << >> /\ c \in open
      /\ s = [i \in 1 .. Len(s) |-> i]
      /\ Sound(c, open, cl, u, d, b, m, k, << >>)
  BY <1>1, <1>2, TaskTyped DEF TaskOrderly
<1>4. /\ cl \in ClientState /\ u \in PairSeqs /\ d \in PairSeqs /\ b \in PairSeqs
      /\ s \in Seq(Nat) /\ down = [down EXCEPT ![c] = d]
      /\ up = [up EXCEPT ![c] = u]
      /\ buffer = [buffer EXCEPT ![c] = b]
  BY <1>2, <1>3, ClientTyped
<1>5. /\ client' = client /\ up' = up /\ down' = down /\ buffer' = buffer /\ open' = open
      /\ timeouts' = timeouts /\ armed' = armed /\ tasks' = tasks /\ alive' = alive
  BY DEF Dispatch
<1>6. Unprocessed(w) = x
  BY <1>2 DEF Unprocessed, Rest
<1>7. /\ WholePacket(c, x) /\ served' = [served EXCEPT ![c] = Append(@, n)]
      /\ \/ /\ reply = 0
            /\ worker' = [worker EXCEPT
                             ![w].processed_len = @ + HeaderLen + HeaderLength(c, x)]
         \/ /\ reply > 0
            /\ worker' = [worker EXCEPT
                             ![w].processed_len = @ + HeaderLen + HeaderLength(c, x),
                             ![w].at = "send", ![w].packet = Packet(n, reply)]
  BY <1>2, <1>6 DEF Dispatch
<1>8. worker \in [Workers -> TaskState \cup {NoTask}] /\ alive \in BOOLEAN
  BY DEF WInv, WTypes
<1>9. PICK p2, at2, t2 :
        /\ \/ reply = 0 /\ p2 = << >> /\ at2 = "frame"
           \/ reply > 0 /\ p2 = Packet(n, reply) /\ at2 = "send"
        /\ t2 = [t EXCEPT !.processed_len = k2, !.at = at2, !.packet = p2]
        /\ worker' = [worker EXCEPT ![w] = t2]
  <2>1. CASE /\ reply = 0
             /\ worker' = [worker EXCEPT
                              ![w].processed_len = @ + HeaderLen + HeaderLength(c, x)]
    <3>1. PICK t2 : t2 = [t EXCEPT !.processed_len = k2]
      OBVIOUS
    <3>2. worker' = [worker EXCEPT ![w] = t2]
      BY <1>2, <1>8, <2>1, <3>1
    <3>3. t2 = [t EXCEPT !.processed_len = k2, !.at = "frame", !.packet = << >>]
      BY <1>1, <1>2, <1>3, <3>1 DEF TaskState
    <3> QED BY <2>1, <3>2, <3>3
  <2>2. CASE /\ reply > 0
             /\ worker' = [worker EXCEPT
                              ![w].processed_len = @ + HeaderLen + HeaderLength(c, x),
                              ![w].at = "send", ![w].packet = Packet(n, reply)]
    <3>1. PICK p2, t2 : /\ p2 = Packet(n, reply)
                        /\ t2 = [t EXCEPT !.processed_len = k2, !.at = "send", !.packet = p2]
      OBVIOUS
    <3>2. worker' = [worker EXCEPT ![w] = t2]
      BY <1>2, <1>8, <2>2, <3>1
    <3> QED BY <2>2, <3>1, <3>2
  <2> QED BY <1>7, <2>1, <2>2
<1>10. /\ n = m + 1 /\ n =< cl.n /\ k2 \in Nat /\ p2 \in PairSeqs
       /\ Sound(c, open, cl, u, d, b, n, k2, p2)
  <2>1. /\ x = Rest(b, k) /\ n = RequestAt(x) /\ k2 = k + HeaderLen + HeaderLength(c, x)
        /\ reply = (IF n = 0 THEN 0 ELSE Script[c][n].reply)
    BY <1>2
  <2>2. (reply = 0 /\ p2 = << >>) \/ (reply > 0 /\ p2 = Packet(n, reply))
    BY <1>9
  <2>3. /\ cl \in ClientState /\ c \in Clients /\ c \in open
        /\ Sound(c, open, cl, u, d, b, m, k, << >>) /\ WholePacket(c, x)
    BY <1>3, <1>4, <1>7
  <2> QED BY <2>1, <2>2, <2>3, SoundDispatched
<1>11. s2 \in Seq(Nat) /\ Len(s2) = n /\ s2 = [i \in 1 .. Len(s2) |-> i]
  <2>1. s \in Seq(Nat) /\ s = [i \in 1 .. Len(s) |-> i] /\ n = Len(s) + 1 /\ s2 = Append(s, n)
    BY <1>2, <1>3, <1>4, <1>10
  <2> QED BY <2>1, CountOn
<1>12. /\ t2 \in TaskState /\ t2.c = c /\ t2.at = at2 /\ t2.packet = p2
       /\ t2.processed_len = k2
  <2>1. at2 \in {"read", "frame", "send"}
    BY <1>9
  <2>2. t2 = [t EXCEPT !.processed_len = k2, !.at = at2, !.packet = p2]
    BY <1>9
  <2> QED BY <1>2, <1>3, <1>10, <2>1, <2>2 DEF TaskState
<1>13. Sound(c, open, client[c], u, d, b, Len(s2), t2.processed_len, t2.packet)
  BY <1>2, <1>10, <1>11, <1>12
<1>14. worker[w] # NoTask /\ c = worker[w].c /\ alive' \in BOOLEAN
  BY <1>2, <1>3, <1>5, <1>8
<1>15. /\ up' = [up EXCEPT ![c] = u] /\ buffer' = [buffer EXCEPT ![c] = b]
       /\ down' = [down EXCEPT ![c] = d]
  BY <1>4, <1>5
<1>16. served' = [served EXCEPT ![c] = s2]
  BY <1>2, <1>7
<1>17. (t2.at = "frame" => t2.packet = << >>) /\ t2.at # "read"
  <2>1. at2 = "frame" => p2 = << >>
    BY <1>9
  <2>2. at2 # "read"
    BY <1>9
  <2> QED BY <1>12, <2>1, <2>2
<1>18. /\ client' = client /\ open' = open
       /\ timeouts' = timeouts /\ armed' = armed /\ tasks' = tasks
       /\ t2 \in TaskState /\ t2.c = c /\ worker' = [worker EXCEPT ![w] = t2]
  BY <1>5, <1>9, <1>12
<1>19. u \in PairSeqs /\ d \in PairSeqs /\ b \in PairSeqs
  BY <1>4
<1>20. WInv'
  BY <1>11, <1>13, <1>14, <1>15, <1>16, <1>17, <1>18, <1>19, TaskStep
<1>21. Len(served[c]) < client[c].n
  <2>1. m \in Nat /\ cl.n \in Nat
    BY <1>2, <1>4, LenProperties, ClientParts
  <2> QED BY <1>2, <1>10, <2>1
<1>22. served' = [served EXCEPT ![c] = Append(@, Len(@) + 1)]
  BY <1>2, <1>7, <1>10
<1> QED BY <1>3, <1>20, <1>21, <1>22

LEMMA WNextInv == WInv /\ [WNext]_wireVars => WInv'
<1> SUFFICES ASSUME WInv, [WNext]_wireVars PROVE WInv'
  OBVIOUS
<1>1. ASSUME NEW c \in Clients, Client(c) \/ TimeOut(c) \/ Event(c) PROVE WInv'
  BY <1>1, StartRequestStep, SendPieceStep, RecvPieceStep, DisconnectedStep, TimeOutStep,
     EventStep DEF Client
<1>2. ASSUME NEW w \in Workers, Task(w) PROVE WInv'
  BY <1>2, TakeTaskStep, ReadStep, DispatchStep, SendReplyStep, SendToNobodyStep,
     EndTaskStep DEF Task
<1>3. ASSUME UNCHANGED wireVars PROVE WInv'
  BY <1>3 DEF wireVars, serverVars, WInv, WTypes, OneTask, Holds, TaskOrderly, Connection,
     InHand
<1> QED BY <1>1, <1>2, <1>3 DEF WNext

\* The bytes of each connection are in order, wherever they are: the inductive invariant
\* of MyEchoBusiness and of the clients.
THEOREM WInvAlways == WSpec => []WInv
BY InitInv, WNextInv, PTL DEF WSpec

-----------------------------------------------------------------------------
(***************************************************************************)
(* What follows.                                                           *)
(***************************************************************************)

LEMMA OneAtMost ==
    ASSUME NEW S, \A f, g \in S : f = g
    PROVE  Cardinality(S) = IF S = {} THEN 0 ELSE 1
<1>1. CASE S = {}
  BY <1>1, FS_EmptySet
<1>2. CASE S # {}
  <2>1. PICK f : S = {f}
    BY <1>2
  <2> QED BY <1>2, <2>1, FS_Singleton
<1> QED BY <1>1, <1>2

LEMMA WInvTypes == WInv => WTypeOK
<1> SUFFICES ASSUME WInv PROVE WTypeOK
  OBVIOUS
<1>1. WTypes /\ OneTask
  BY DEF WInv
<1>2. ASSUME NEW c \in Clients
      PROVE  /\ client[c].at \in {"next", "send", "recv", "closed"}
             /\ client[c].n \in 0 .. Len(Script[c])
             /\ Len(client[c].got) =< client[c].want
             /\ Len(down[c]) =< Capacity
  <2>1. PICK k, p : InHand(c, k, p)
    BY SomeHand
  <2>2. client[c] \in ClientState
    BY ClientTyped
  <2>3. Sound(c, open, client[c], up[c], down[c], buffer[c], Len(served[c]), k, p)
    BY <2>1 DEF WInv, Connection
  <2>4. /\ ClientOK(c, client[c], Len(served[c])) /\ Len(down[c]) =< Capacity
        /\ client[c].n \in 0 .. Len(Script[c])
    BY <2>2, <2>3, SoundParts
  <2>5. Len(client[c].got) =< client[c].want
    BY <2>4 DEF ClientOK
  <2>6. client[c].at \in {"next", "send", "recv", "closed"}
    BY <2>2, ClientParts
  <2> QED BY <2>4, <2>5, <2>6
<1>3. ASSUME NEW c \in Clients
      PROVE  Cardinality({i \in DOMAIN tasks : tasks[i] = c})
                + Cardinality({w \in Workers : worker[w] # NoTask /\ worker[w].c = c})
                + (IF c \in armed THEN 1 ELSE 0) =< 1
  <2>1. PICK Q, T : /\ Q = {i \in DOMAIN tasks : tasks[i] = c}
                    /\ T = {w \in Workers : worker[w] # NoTask /\ worker[w].c = c}
    OBVIOUS
  <2>2. Cardinality(Q) = IF Q = {} THEN 0 ELSE 1
    <3>1. \A f, g \in Q : f = g
      BY <1>1, <2>1 DEF OneTask
    <3> QED BY <3>1, OneAtMost
  <2>3. Cardinality(T) = IF T = {} THEN 0 ELSE 1
    <3>1. \A f, g \in T : f = g
      BY <1>1, <2>1 DEF OneTask, Holds
    <3> QED BY <3>1, OneAtMost
  <2>4. (Q # {} => T = {} /\ c \notin armed) /\ (T # {} => c \notin armed)
    BY <1>1, <2>1 DEF OneTask
  <2>5. CASE Q # {}
    BY <2>1, <2>2, <2>3, <2>4, <2>5
  <2>6. CASE Q = {}
    BY <2>1, <2>2, <2>3, <2>4, <2>6
  <2> QED BY <2>5, <2>6
<1>4. ASSUME NEW w \in Workers, worker[w] # NoTask
      PROVE  worker[w].processed_len =< Len(buffer[worker[w].c])
  <2>1. PICK c, k, b : c = worker[w].c /\ k = worker[w].processed_len /\ b = buffer[c]
    OBVIOUS
  <2>2. worker[w].at \in {"read", "frame", "send"}
    BY <1>1, <1>4, WorkerParts
  <2>3. /\ c \in Clients /\ Sound(c, open, client[c], up[c], down[c], b, Len(served[c]), k,
                                  worker[w].packet)
    BY <2>1, <2>2, TaskTyped
  <2>4. client[c] \in ClientState /\ b \in Seq(Pairs)
    BY <2>1, <2>3, ClientTyped DEF PairSeqs
  <2>5. k \in 0 .. Len(b)
    BY <2>3, <2>4, SoundParts
  <2>6. Len(b) \in Nat
    BY <2>4, LenProperties
  <2>7. k =< Len(b)
    BY <2>5, <2>6
  <2> QED BY <2>1, <2>7
<1>5. /\ timeouts \in 0 .. MaxTimeouts
      /\ open \subseteq Clients /\ armed \subseteq Clients /\ alive \in BOOLEAN
  BY <1>1 DEF WTypes
<1> QED BY <1>2, <1>3, <1>4, <1>5, Zenon DEF WTypeOK

\* No task of MyEchoBusiness consumes more than the session's buffer holds, recv_all
\* never reads beyond what recv_pkt wants, no more is on its way to a client than the
\* socket takes, and no connection has two tasks: EPOLLONESHOT reports it once.
THEOREM WTypeOKAlways == WSpec => []WTypeOK
BY WInvAlways, WInvTypes, PTL

-----------------------------------------------------------------------------
(***************************************************************************)
(* Wire implements RequestReply.                                           *)
(***************************************************************************)

AskedBy == [c \in Clients |-> client[c].n]

HeardBy == [c \in Clients |-> client[c].heard]

LEMMA InitImplements == WInit => Promise!RRInit
BY DEF WInit, Promise!RRInit

LEMMA AskImplements ==
    ASSUME NEW c \in Clients, AskedBy' = [AskedBy EXCEPT ![c] = @ + 1], HeardBy' = HeardBy,
           served' = served
    PROVE  Promise!RRNext
<1>1. Promise!Ask(c)
  BY DEF Promise!Ask, AskedBy, HeardBy
<1> QED BY <1>1 DEF Promise!RRNext

LEMMA ServeImplements ==
    ASSUME NEW c \in Clients, Len(served[c]) < AskedBy[c],
           served' = [served EXCEPT ![c] = Append(@, Len(@) + 1)],
           AskedBy' = AskedBy, HeardBy' = HeardBy
    PROVE  Promise!RRNext
<1>1. Promise!Serve(c)
  BY DEF Promise!Serve, AskedBy, HeardBy
<1> QED BY <1>1 DEF Promise!RRNext

LEMMA SettledMeans ==
    ASSUME NEW c \in Clients, NEW n
    PROVE  Promise!Settled(c, n) <=>
              n \in NoReply(c) \/ \E i \in DOMAIN client[c].heard : client[c].heard[i] = n
BY DEF Promise!Settled, NoReply

LEMMA HearImplements ==
    ASSUME WInv, NEW c \in Clients, NEW n \in 1 .. Len(served[c]),
           HeardUpTo(c, client[c].heard, n),
           HeardBy' = [HeardBy EXCEPT ![c] = Append(@, n)], AskedBy' = AskedBy,
           served' = served
    PROVE  Promise!RRNext
<1>1. PICK m : m = Len(served[c])
  OBVIOUS
<1>2. served[c] \in Seq(Nat) /\ client[c] \in ClientState
  BY ClientTyped
<1>3. m \in Nat /\ DOMAIN served[c] = 1 .. m
  BY <1>1, <1>2, LenProperties
<1>4. /\ m \in 0 .. client[c].n /\ client[c].n \in 0 .. Len(Script[c])
  <2>1. PICK k, p : InHand(c, k, p)
    BY SomeHand
  <2>2. Sound(c, open, client[c], up[c], down[c], buffer[c], m, k, p)
    BY <1>1, <2>1 DEF WInv, Connection
  <2> QED BY <1>2, <2>2, SoundParts
<1>5. n \in 1 .. m /\ n \in 1 .. Len(Script[c]) /\ Len(Script[c]) \in Nat
  <2>1. client[c].n \in Nat /\ Len(Script[c]) \in Nat
    BY <1>2, ClientParts, ScriptTyped
  <2> QED BY <1>1, <1>3, <1>4, <2>1
<1>6. \A i \in 1 .. m : served[c][i] = i
  <2>1. served[c] = [i \in 1 .. m |-> i]
    BY <1>1 DEF WInv, Connection
  <2> QED BY <2>1
<1>7. /\ n \notin NoReply(c)
      /\ \A j \in 1 .. Len(Script[c]) :
            (\E i \in DOMAIN client[c].heard : client[c].heard[i] = j)
                <=> j < n /\ j \notin NoReply(c)
  BY DEF HeardUpTo
<1>8. ~ Promise!Settled(c, served[c][n])
  <2>1. served[c][n] = n
    BY <1>5, <1>6
  <2>2. ~ (\E i \in DOMAIN client[c].heard : client[c].heard[i] = n)
    BY <1>5, <1>7
  <2>3. ~ Promise!Settled(c, n)
    BY <1>7, <2>2, SettledMeans
  <2> QED BY <2>1, <2>3
<1>9. ASSUME NEW j \in 1 .. n - 1 PROVE Promise!Settled(c, served[c][j])
  <2>1. j \in 1 .. m /\ j \in 1 .. Len(Script[c]) /\ j < n
    BY <1>3, <1>5
  <2>2. served[c][j] = j
    BY <1>6, <2>1
  <2>3. Promise!Settled(c, j)
    BY <1>7, <2>1, SettledMeans
  <2> QED BY <2>2, <2>3
<1>10. n \in DOMAIN served[c] /\ n = served[c][n]
  BY <1>3, <1>5, <1>6
<1>11. HeardBy' = [HeardBy EXCEPT ![c] = Append(@, served[c][n])]
  BY <1>10
<1>12. Promise!Hear(c)
  <2>1. \E i \in DOMAIN served[c] :
          /\ ~ Promise!Settled(c, served[c][i])
          /\ \A j \in 1 .. i - 1 : Promise!Settled(c, served[c][j])
          /\ HeardBy' = [HeardBy EXCEPT ![c] = Append(@, served[c][i])]
    BY <1>8, <1>9, <1>10, <1>11
  <2> QED BY <2>1 DEF Promise!Hear, AskedBy, HeardBy
<1> QED BY <1>12 DEF Promise!RRNext

\* A client's step changes what it has asked and heard, and no other's.
LEMMA ClientBars ==
    ASSUME WInv, NEW c \in Clients, NEW cl2, client' = [client EXCEPT ![c] = cl2]
    PROVE  /\ AskedBy' = [AskedBy EXCEPT ![c] = cl2.n]
           /\ HeardBy' = [HeardBy EXCEPT ![c] = cl2.heard]
<1>1. DOMAIN client = Clients
  BY DEF WInv, WTypes
<1>2. \A e \in Clients : client'[e] = IF e = c THEN cl2 ELSE client[e]
  BY <1>1
<1>3. AskedBy' = [AskedBy EXCEPT ![c] = cl2.n]
  <2>1. AskedBy' = [e \in Clients |-> client'[e].n]
    BY DEF AskedBy
  <2>2. \A e \in Clients : client'[e].n = IF e = c THEN cl2.n ELSE client[e].n
    BY <1>2
  <2> QED BY <2>1, <2>2 DEF AskedBy
<1>4. HeardBy' = [HeardBy EXCEPT ![c] = cl2.heard]
  <2>1. HeardBy' = [e \in Clients |-> client'[e].heard]
    BY DEF HeardBy
  <2>2. \A e \in Clients : client'[e].heard = IF e = c THEN cl2.heard ELSE client[e].heard
    BY <1>2
  <2> QED BY <2>1, <2>2 DEF HeardBy
<1> QED BY <1>3, <1>4

LEMMA StartImplements ==
    ASSUME WInv, NEW c \in Clients, StartRequest(c)
    PROVE  Promise!RRNext \/ UNCHANGED <<AskedBy, served, HeardBy>>
<1>1. PICK cl, n, cl2 :
        /\ cl = client[c] /\ n = cl.n + 1
        /\ cl2 = IF n \in DOMAIN Script[c] THEN Begun(cl, n, Packet(n, Script[c][n].body))
                 ELSE [cl EXCEPT !.at = "closed"]
  OBVIOUS
<1>2. cl \in ClientState
  BY <1>1, ClientTyped
<1>3. client' = [client EXCEPT ![c] = cl2] /\ served' = served
  BY <1>1 DEF StartRequest, serverVars, Begun
<1>4. /\ AskedBy' = [AskedBy EXCEPT ![c] = cl2.n]
      /\ HeardBy' = [HeardBy EXCEPT ![c] = cl2.heard]
  BY <1>3, ClientBars
<1>5. cl2.heard = cl.heard /\ HeardBy[c] = cl.heard /\ AskedBy[c] = cl.n
  <2>1. PICK l : l = Packet(n, Script[c][n].body)
    OBVIOUS
  <2>2. cl2 = Begun(cl, n, l) \/ cl2 = [cl EXCEPT !.at = "closed"]
    BY <1>1, <2>1
  <2>3. cl2.heard = cl.heard
    BY <1>2, <2>2 DEF Begun, ClientState
  <2> QED BY <1>1, <2>3 DEF HeardBy, AskedBy
<1>6. HeardBy' = HeardBy
  BY <1>4, <1>5 DEF HeardBy
<1>7. CASE n \in DOMAIN Script[c]
  <2>1. PICK l : l = Packet(n, Script[c][n].body)
    OBVIOUS
  <2>2. cl2.n = n
    BY <1>1, <1>2, <1>7, <2>1 DEF Begun, ClientState
  <2>3. AskedBy' = [AskedBy EXCEPT ![c] = @ + 1]
    BY <1>1, <1>4, <1>5, <2>2
  <2> QED BY <1>3, <1>6, <2>3, AskImplements
<1>8. CASE n \notin DOMAIN Script[c]
  <2>1. cl2.n = cl.n
    BY <1>1, <1>2, <1>8 DEF ClientState
  <2>2. AskedBy' = AskedBy
    BY <1>4, <1>5, <2>1 DEF AskedBy
  <2> QED BY <1>3, <1>6, <2>2
<1> QED BY <1>7, <1>8

LEMMA RecvImplements ==
    ASSUME WInv, NEW c \in Clients, RecvPiece(c)
    PROVE  Promise!RRNext \/ UNCHANGED <<AskedBy, served, HeardBy>>
<1>1. client[c] \in ClientState
  BY ClientTyped
<1>2. PICK cl2, g2, d2, j :
        /\ j \in Nat /\ j =< Len(down[c]) /\ j =< client[c].want - Len(client[c].got)
        /\ g2 = Join(client[c].got, SubSeq(down[c], 1, j)) /\ d2 = Rest(down[c], j)
        /\ client' = [client EXCEPT ![c] = cl2] /\ down' = [down EXCEPT ![c] = d2]
        /\ cl2 \in TakenFrom(c, client[c], g2) \/ cl2 \in TakenAll(c, client[c], g2)
  BY RecvPieceDoes
<1>3. client[c].at = "recv" /\ served' = served
  BY DEF RecvPiece, serverVars
<1>4. PICK cl, d, m : cl = client[c] /\ d = down[c] /\ m = Len(served[c])
  OBVIOUS
<1>5. PICK k, p : InHand(c, k, p)
  BY SomeHand
<1>6. cl2.n = cl.n /\ HeardMore(c, cl, cl2, m)
  <2>1. /\ cl \in ClientState /\ cl.at = "recv"
        /\ Sound(c, open, cl, up[c], d, buffer[c], m, k, p)
    BY <1>1, <1>3, <1>4, <1>5 DEF WInv, Connection
  <2>2. /\ j \in Nat /\ j =< Len(d) /\ j =< cl.want - Len(cl.got)
        /\ g2 = Join(cl.got, SubSeq(d, 1, j)) /\ d2 = Rest(d, j)
        /\ cl2 \in TakenFrom(c, cl, g2) \/ cl2 \in TakenAll(c, cl, g2)
    BY <1>2, <1>4
  <2>3. PICK u, b : u = up[c] /\ b = buffer[c]
    OBVIOUS
  <2>4. Sound(c, open, cl, u, d, b, m, k, p)
    BY <2>1, <2>3
  <2>5. /\ cl2 \in ClientState /\ d2 \in PairSeqs /\ Sound(c, open, cl2, u, d2, b, m, k, p)
        /\ cl2.n = cl.n /\ HeardMore(c, cl, cl2, m)
    <3>1. cl \in ClientState /\ cl.at = "recv"
      BY <2>1
    <3> QED BY <2>2, <2>4, <3>1, RecvPieceSound
  <2> QED BY <2>5
<1>7. /\ AskedBy' = [AskedBy EXCEPT ![c] = cl2.n]
      /\ HeardBy' = [HeardBy EXCEPT ![c] = cl2.heard]
  BY <1>2, ClientBars
<1>8. AskedBy' = AskedBy
  BY <1>4, <1>6, <1>7 DEF AskedBy
<1>9. CASE cl2.heard = cl.heard
  <2>1. HeardBy' = HeardBy
    BY <1>4, <1>7, <1>9 DEF HeardBy
  <2> QED BY <1>3, <1>8, <2>1
<1>10. ASSUME NEW n \in 1 .. m, HeardUpTo(c, cl.heard, n), cl2.heard = Append(cl.heard, n)
       PROVE  Promise!RRNext
  <2>1. HeardBy' = [HeardBy EXCEPT ![c] = Append(@, n)]
    BY <1>4, <1>7, <1>10 DEF HeardBy
  <2>2. n \in 1 .. Len(served[c]) /\ HeardUpTo(c, client[c].heard, n) /\ served' = served
    BY <1>3, <1>4, <1>10
  <2> QED BY <1>8, <2>1, <2>2, HearImplements
<1> QED BY <1>6, <1>9, <1>10 DEF HeardMore

\* The other steps of a client, and of the server, change neither.
LEMMA SilentClient ==
    ASSUME WInv, NEW c \in Clients, SendPiece(c) \/ TimeOut(c) \/ Disconnected(c)
    PROVE  UNCHANGED <<AskedBy, served, HeardBy>>
<1>1. client \in [Clients -> ClientState] /\ client[c] \in ClientState
  BY ClientTyped DEF WInv, WTypes
<1>2. PICK cl : cl = client[c]
  OBVIOUS
<1>3. \E cl2 : /\ client' = [client EXCEPT ![c] = cl2]
               /\ cl2.n = cl.n /\ cl2.heard = cl.heard
  <2>1. CASE SendPiece(c)
    <3>1. PICK l2, cl2 : /\ client' = [client EXCEPT ![c] = cl2]
                         /\ \/ cl2 = [cl EXCEPT !.left = l2]
                            \/ cl2 = [cl EXCEPT !.at = "next", !.left = l2]
                            \/ cl2 = [cl EXCEPT !.at = "recv", !.left = l2,
                                                !.want = HeaderLen]
      BY <1>2, <2>1 DEF SendPiece
    <3> QED BY <1>1, <1>2, <3>1 DEF ClientState
  <2>2. CASE TimeOut(c)
    <3>1. PICK cl2 : /\ client' = [client EXCEPT ![c] = cl2]
                     /\ \/ cl2 = GivenUp(cl)
                        \/ cl2 = [cl EXCEPT !.at = "closed"]
      BY <1>2, <2>2 DEF TimeOut, GivenUp
    <3> QED BY <1>1, <1>2, <3>1 DEF ClientState, GivenUp
  <2>3. CASE Disconnected(c)
    <3>1. PICK cl2 : cl2 = [cl EXCEPT !.at = "closed"]
      OBVIOUS
    <3>2. client' = [client EXCEPT ![c] = cl2]
      BY <1>2, <2>3, <3>1 DEF Disconnected
    <3>3. cl2.n = cl.n /\ cl2.heard = cl.heard
      BY <1>1, <1>2, <3>1 DEF ClientState
    <3> QED BY <3>2, <3>3
  <2> QED BY <2>1, <2>2, <2>3
<1>4. PICK cl2 : /\ client' = [client EXCEPT ![c] = cl2]
                 /\ cl2.n = cl.n /\ cl2.heard = cl.heard
  BY <1>3
<1>5. /\ AskedBy' = [AskedBy EXCEPT ![c] = cl2.n]
      /\ HeardBy' = [HeardBy EXCEPT ![c] = cl2.heard]
  BY <1>4, ClientBars
<1>6. AskedBy' = AskedBy /\ HeardBy' = HeardBy
  BY <1>2, <1>4, <1>5 DEF AskedBy, HeardBy
<1>7. served' = served
  BY DEF SendPiece, TimeOut, Disconnected, serverVars
<1> QED BY <1>6, <1>7

LEMMA StepImplements ==
    WInv /\ [WNext]_wireVars => [Promise!RRNext]_(Promise!rrVars)
<1> SUFFICES ASSUME WInv, [WNext]_wireVars
             PROVE  Promise!RRNext \/ UNCHANGED <<AskedBy, served, HeardBy>>
  BY DEF Promise!rrVars, AskedBy, HeardBy
<1>1. ASSUME NEW c \in Clients, Client(c) \/ TimeOut(c)
      PROVE  Promise!RRNext \/ UNCHANGED <<AskedBy, served, HeardBy>>
  BY <1>1, StartImplements, RecvImplements, SilentClient DEF Client
<1>2. ASSUME client' = client, served' = served
      PROVE  UNCHANGED <<AskedBy, served, HeardBy>>
  BY <1>2 DEF AskedBy, HeardBy
<1>3. ASSUME NEW c \in Clients, Event(c) PROVE UNCHANGED <<AskedBy, served, HeardBy>>
  BY <1>2, <1>3 DEF Event
<1>4. ASSUME NEW w \in Workers, Dispatch(w) PROVE Promise!RRNext
  <2>1. PICK c \in Clients : /\ Len(served[c]) < client[c].n
                             /\ served' = [served EXCEPT ![c] = Append(@, Len(@) + 1)]
    BY <1>4, DispatchStep
  <2>2. AskedBy' = AskedBy /\ HeardBy' = HeardBy
    BY <1>4 DEF Dispatch, AskedBy, HeardBy
  <2>3. Len(served[c]) < AskedBy[c]
    BY <2>1 DEF AskedBy
  <2> QED BY <2>1, <2>2, <2>3, ServeImplements
<1>5. ASSUME NEW w \in Workers,
             TakeTask(w) \/ Read(w) \/ SendReply(w) \/ SendToNobody(w) \/ EndTask(w)
      PROVE  UNCHANGED <<AskedBy, served, HeardBy>>
  <2>1. client' = client /\ served' = served
    BY <1>5 DEF TakeTask, Read, SendReply, SendToNobody, EndTask
  <2> QED BY <1>2, <2>1
<1>6. ASSUME UNCHANGED wireVars PROVE UNCHANGED <<AskedBy, served, HeardBy>>
  BY <1>2, <1>6 DEF wireVars, serverVars
<1> QED BY <1>1, <1>3, <1>4, <1>5, <1>6 DEF WNext, Task

\* Whatever pieces the bytes come in, MyEchoBusiness dispatches each request once and in
\* order, and a client takes each reply for the right request, until it has given up
\* waiting for one; for any script, any number of clients and threads, and any size of
\* the header and of the socket's buffer.
THEOREM WireKeepsPromise == WSpec => AnswersInOrder
<1>1. WInit => Promise!RRInit
  BY InitImplements
<1>2. WInv /\ [WNext]_wireVars => [Promise!RRNext]_(Promise!rrVars)
  BY StepImplements
<1> QED BY <1>1, <1>2, WInvAlways, PTL DEF WSpec, AnswersInOrder, Promise!RRSpec

=============================================================================
