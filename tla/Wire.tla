-------------------------------- MODULE Wire --------------------------------
(***************************************************************************)
(* Requests and replies as bytes: the framing and sending of               *)
(* MyEchoBusiness on the pool's threads, and the client of client.cpp,     *)
(* which sends a request and waits for its reply before the next.          *)
(*                                                                         *)
(* A byte is <<n, k>>, the k-th of the packet of request n or of its       *)
(* reply.  The first HeaderLen bytes of a packet are its header, which     *)
(* tells the length of the body; read at the wrong place it tells nothing. *)
(* Bytes travel in pieces of any size.  Idle timers and the reuse of       *)
(* descriptors are in Connections.                                         *)
(***************************************************************************)
EXTENDS Naturals, FiniteSets, SequencesExt

CONSTANTS
    Clients,      \* connections
    Workers,      \* threads of the pool
    Script,       \* what each client asks, in turn: the lengths of the bodies of the
                  \* request and of its reply (0: the handler returns an empty string),
                  \* whether the client goes on when the reply does not come, and
                  \* whether it sends the next request without waiting for it
    HeaderLen,    \* sizeof(PacketHeader)
    Capacity,     \* bytes on their way to a client before send says EAGAIN
    MaxTimeouts   \* bound on the time-outs of the clients

Request == [body : Nat, reply : Nat, optional : BOOLEAN, ahead : BOOLEAN]

ASSUME WireAssumption ==
    /\ Script \in [Clients -> Seq(Request)]
    /\ HeaderLen \in Nat \ {0} /\ Capacity \in Nat \ {0} /\ MaxTimeouts \in Nat

VARIABLES
    client,    \* per client: where it is and what it has sent and received
    up, down,  \* per connection, the bytes on their way to the server and back
    timeouts,  \* time-outs so far
    armed,     \* the epoll entries that may report an event
    tasks,     \* ThreadPool::tasks_
    worker,    \* where each thread is
    buffer,    \* Session::buffer
    open,      \* connections the server has not closed
    alive,     \* the server's process has not been ended by SIGPIPE
    served     \* history: the requests dispatched, in order

serverVars == <<armed, tasks, worker, buffer, open, alive, served>>

wireVars == <<client, up, down, timeouts, serverVars>>

\* The bytes of packet n with a body of that length.
Packet(n, body) == [k \in 1 .. HeaderLen + body |-> <<n, k>>]

NoTask == [at |-> "idle"]

WInit ==
    /\ client = [c \in Clients |-> [at |-> "next", n |-> 0, left |-> << >>, got |-> << >>,
                                    want |-> 0, skipped |-> FALSE, heard |-> << >>]]
    /\ up = [c \in Clients |-> << >>] /\ down = [c \in Clients |-> << >>]
    /\ timeouts = 0
    /\ armed = Clients
    /\ tasks = << >>
    /\ worker = [w \in Workers |-> NoTask]
    /\ buffer = [c \in Clients |-> << >>]
    /\ open = Clients
    /\ alive = TRUE
    /\ served = [c \in Clients |-> << >>]

-----------------------------------------------------------------------------
(***************************************************************************)
(* A client (benchmark_worker, for which nothing is sent ahead).           *)
(***************************************************************************)

\* The next request, or the end of the script and close.
StartRequest(c) ==
    /\ client[c].at = "next"
    /\ LET n == client[c].n + 1
       IN  client' = [client EXCEPT ![c] =
              IF n \in DOMAIN Script[c]
              THEN [@ EXCEPT !.at = "send", !.n = n, !.left = Packet(n, Script[c][n].body)]
              ELSE [@ EXCEPT !.at = "closed"]]
    /\ UNCHANGED <<up, down, timeouts, serverVars>>

\* One send of send_all; a request is small and the socket takes some of it at once.
SendPiece(c) ==
    /\ client[c].at = "send"
    /\ \E k \in 1 .. Len(client[c].left) :
          LET left == SubSeq(client[c].left, k + 1, Len(client[c].left))
          IN  /\ up' = [up EXCEPT ![c] = @ \o SubSeq(client[c].left, 1, k)]
              /\ client' = [client EXCEPT ![c] =
                    IF left # << >> THEN [@ EXCEPT !.left = left]
                    ELSE IF Script[c][client[c].n].ahead
                    THEN [@ EXCEPT !.at = "next", !.left = left]
                    ELSE [@ EXCEPT !.at = "recv", !.left = left, !.want = HeaderLen]]
    /\ UNCHANGED <<down, timeouts, serverVars>>

\* The lengths the header at the front of got may tell: of the body of the reply, or
\* anything when it is not a header.
Lengths(c, got) ==
    IF got[1][2] = 1 THEN {Script[c][got[1][1]].reply}
    ELSE {Script[c][n].reply : n \in DOMAIN Script[c]}

\* A reply has come.  Unless it has given up on one before, the client notes which; one
\* that has sent ahead reads on until it has them all.
Take(c, n) ==
    LET heard == Append(client[c].heard, n)
        all == {m \in 1 .. client[c].n : Script[c][m].reply > 0} \subseteq Range(heard)
    IN  [client[c] EXCEPT
           !.got = << >>,
           !.want = IF client[c].skipped \/ all THEN 0 ELSE HeaderLen,
           !.at = IF client[c].skipped \/ all THEN "next" ELSE "recv",
           !.heard = IF client[c].skipped THEN @ ELSE heard]

\* recv_pkt has what it wants: a whole header, which tells how much more, or a reply.
Received(c, got) ==
    \/ /\ Len(got) < client[c].want
       /\ client' = [client EXCEPT ![c].got = got]
    \/ /\ Len(got) = HeaderLen /\ client[c].want = HeaderLen
       /\ \E len \in Lengths(c, got) \ {0} :
             client' = [client EXCEPT ![c].got = got, ![c].want = HeaderLen + len]
    \/ /\ Len(got) = client[c].want
       /\ Len(got) > HeaderLen \/ 0 \in Lengths(c, got)
       /\ client' = [client EXCEPT ![c] = Take(c, got[1][1])]

\* One recv of recv_all: at most what is still wanted.  (recv_pkt also gives up on a length
\* above 1 MB, which no reply of the server has and which it could only meet by reading
\* at the wrong place in the stream.)
RecvPiece(c) ==
    /\ client[c].at = "recv" /\ down[c] # << >>
    /\ LET missing == client[c].want - Len(client[c].got)
           k == IF missing < Len(down[c]) THEN missing ELSE Len(down[c])
       IN  /\ Received(c, client[c].got \o SubSeq(down[c], 1, k))
           /\ down' = [down EXCEPT ![c] = SubSeq(@, k + 1, Len(@))]
    /\ UNCHANGED <<up, timeouts, serverVars>>

\* recv fails after three seconds: what recv_pkt had so far is dropped.  Without the
\* list of stocks the client goes on, without another reply it closes.
TimeOut(c) ==
    /\ client[c].at = "recv" /\ down[c] = << >> /\ timeouts < MaxTimeouts
    /\ timeouts' = timeouts + 1
    /\ client' = [client EXCEPT ![c] =
          IF Script[c][client[c].n].optional
          THEN [@ EXCEPT !.at = "next", !.got = << >>, !.want = 0, !.skipped = TRUE]
          ELSE [@ EXCEPT !.at = "closed"]]
    /\ UNCHANGED <<up, down, serverVars>>

\* The server's process has ended: recv and send fail.
Disconnected(c) ==
    /\ ~ alive /\ client[c].at # "closed"
    /\ client' = [client EXCEPT ![c].at = "closed"]
    /\ UNCHANGED <<up, down, timeouts, serverVars>>

Client(c) == StartRequest(c) \/ SendPiece(c) \/ RecvPiece(c) \/ Disconnected(c)

-----------------------------------------------------------------------------
(***************************************************************************)
(* The server.                                                             *)
(***************************************************************************)

Event(c) ==
    /\ alive
    /\ c \in armed /\ c \in open /\ (up[c] # << >> \/ client[c].at = "closed")
    /\ armed' = armed \ {c}
    /\ tasks' = Append(tasks, c)
    /\ UNCHANGED <<client, up, down, timeouts, worker, buffer, open, alive, served>>

TakeTask(w) ==
    /\ alive
    /\ worker[w] = NoTask /\ tasks # << >>
    /\ worker' = [worker EXCEPT ![w] = [at |-> "read", c |-> Head(tasks),
                                        processed_len |-> 0, packet |-> << >>]]
    /\ tasks' = Tail(tasks)
    /\ UNCHANGED <<client, up, down, timeouts, armed, buffer, open, alive, served>>

\* The recv loop.  At the end of the stream what was read is dropped and the connection
\* closed.
Read(w) ==
    /\ alive /\ worker[w].at = "read"
    /\ LET c == worker[w].c
       IN  /\ up' = [up EXCEPT ![c] = << >>]
           /\ \/ /\ client[c].at = "closed"
                 /\ open' = open \ {c}
                 /\ worker' = [worker EXCEPT ![w] = NoTask]
                 /\ UNCHANGED buffer
              \/ /\ client[c].at # "closed"
                 /\ buffer' = [buffer EXCEPT ![c] = @ \o up[c]]
                 /\ worker' = [worker EXCEPT ![w].at = "frame"]
                 /\ UNCHANGED open
    /\ UNCHANGED <<client, down, timeouts, armed, tasks, alive, served>>

\* What of the session's buffer this task has not consumed.
Unprocessed(w) ==
    LET b == buffer[worker[w].c] IN SubSeq(b, worker[w].processed_len + 1, Len(b))

\* header.length: of the body of the request whose packet begins here.
HeaderLength(c, b) == IF b[1][2] = 1 THEN Script[c][b[1][1]].body ELSE 0

\* The number of that request; 0 when no packet begins here.
RequestAt(b) == IF b[1][2] = 1 THEN b[1][1] ELSE 0

\* A plausible slip: a whole header is taken for a whole packet.
WholeHeader(c, b) == Len(b) >= HeaderLen

\* A plausible slip: something must follow the packet.
MoreThanPacket(c, b) == Len(b) >= HeaderLen /\ Len(b) > HeaderLen + HeaderLength(c, b)

\* The header and the half-packet check.
WholePacket(c, b) == Len(b) >= HeaderLen /\ Len(b) >= HeaderLen + HeaderLength(c, b)

\* One packet: dispatch, and its reply, if there is one, to be sent.
Dispatch(w) ==
    /\ alive /\ worker[w].at = "frame"
    /\ LET c == worker[w].c
           b == Unprocessed(w)
           n == RequestAt(b)
           reply == IF n = 0 THEN 0 ELSE Script[c][n].reply
       IN  /\ WholePacket(c, b)
           /\ served' = [served EXCEPT ![c] = Append(@, n)]
           /\ \/ /\ reply = 0
                 /\ worker' = [worker EXCEPT
                       ![w].processed_len = @ + HeaderLen + HeaderLength(c, b)]
              \/ /\ reply > 0
                 /\ worker' = [worker EXCEPT
                       ![w].processed_len = @ + HeaderLen + HeaderLength(c, b),
                       ![w].at = "send", ![w].packet = Packet(n, reply)]
    /\ UNCHANGED <<client, up, down, timeouts, armed, tasks, buffer, open, alive>>

\* One send; with no room it fails with EAGAIN and is tried again.
SendReply(w) ==
    /\ alive /\ worker[w].at = "send"
    /\ LET c == worker[w].c
           p == worker[w].packet
       IN  /\ client[c].at # "closed"
           /\ \E k \in 1 .. Len(p) :
                 /\ Len(down[c]) + k =< Capacity
                 /\ down' = [down EXCEPT ![c] = @ \o SubSeq(p, 1, k)]
                 /\ worker' = [worker EXCEPT
                       ![w].packet = SubSeq(p, k + 1, Len(p)),
                       ![w].at = IF k = Len(p) THEN "frame" ELSE "send"]
    /\ UNCHANGED <<client, up, timeouts, armed, tasks, buffer, open, alive, served>>

\* The client has gone: the socket takes the bytes all the same or fails with an error
\* that ends the loop; or the error is EPIPE, and SIGPIPE, which nothing catches, ends
\* the process.
SendToNobody(w) ==
    /\ alive /\ worker[w].at = "send" /\ client[worker[w].c].at = "closed"
    /\ \/ /\ worker' = [worker EXCEPT ![w].packet = << >>, ![w].at = "frame"]
          /\ UNCHANGED alive
       \/ /\ alive' = FALSE
          /\ UNCHANGED worker
    /\ UNCHANGED <<client, up, down, timeouts, armed, tasks, buffer, open, served>>

\* A plausible slip: the whole buffer is cleared, the half packet at its end included.
ClearAll(b, processed_len) == << >>

\* buffer.erase(0, processed_len).
EraseProcessed(b, processed_len) == SubSeq(b, processed_len + 1, Len(b))

\* No whole packet is left; the entry is armed again.
EndTask(w) ==
    /\ alive /\ worker[w].at = "frame"
    /\ LET c == worker[w].c
       IN  /\ ~ WholePacket(c, Unprocessed(w))
           /\ buffer' = [buffer EXCEPT ![c] = EraseProcessed(@, worker[w].processed_len)]
           /\ armed' = armed \cup {c}
    /\ worker' = [worker EXCEPT ![w] = NoTask]
    /\ UNCHANGED <<client, up, down, timeouts, tasks, open, alive, served>>

Task(w) ==
    TakeTask(w) \/ Read(w) \/ Dispatch(w) \/ SendReply(w) \/ SendToNobody(w) \/ EndTask(w)

-----------------------------------------------------------------------------
WNext ==
    \/ \E c \in Clients : Client(c) \/ TimeOut(c) \/ Event(c)
    \/ \E w \in Workers : Task(w)

WSpec == WInit /\ [][WNext]_wireVars

\* The pool's threads and the event loop go on; so does a client, which reads what it
\* is sent.  No time-out is owed.
WFairSpec ==
    /\ WSpec
    /\ \A c \in Clients : WF_wireVars(Client(c)) /\ WF_wireVars(Event(c))
    /\ \A w \in Workers : WF_wireVars(Task(w))

-----------------------------------------------------------------------------
(***************************************************************************)
(* Properties.                                                             *)
(***************************************************************************)

\* Types; no task consumes more than its session's buffer holds, no reply is read
\* beyond its end, and no connection has two tasks.
WTypeOK ==
    /\ \A c \in Clients :
          /\ client[c].at \in {"next", "send", "recv", "closed"}
          /\ client[c].n \in 0 .. Len(Script[c])
          /\ Len(client[c].got) =< client[c].want
          /\ Len(down[c]) =< Capacity
          /\ Cardinality({i \in DOMAIN tasks : tasks[i] = c})
                + Cardinality({w \in Workers : worker[w] # NoTask /\ worker[w].c = c})
                + (IF c \in armed THEN 1 ELSE 0) =< 1
    /\ \A w \in Workers :
          worker[w] # NoTask => worker[w].processed_len =< Len(buffer[worker[w].c])
    /\ timeouts \in 0 .. MaxTimeouts
    /\ open \subseteq Clients /\ armed \subseteq Clients /\ alive \in BOOLEAN

Promise ==
    INSTANCE RequestReply WITH
        Silent <- [c \in Clients |->
                      {n \in DOMAIN Script[c] : Script[c][n].reply = 0}],
        asked <- [c \in Clients |-> client[c].n],
        heard <- [c \in Clients |-> client[c].heard]

\* Whatever pieces requests and replies are cut into, several packets in one read and
\* halves of packets included, MyEchoBusiness dispatches each request once and in order,
\* and the client takes each reply for the right request, until it has given up waiting
\* for one.
AnswersInOrder == Promise!RRSpec

\* A client that waits for a reply gets it, also when another one is slow to read its
\* own and holds a thread in the loop around send; unless it gives up, or the server
\* is ended by a reply to a client that did.
EveryRequestAnswered ==
    \A c \in Clients : \A n \in DOMAIN Script[c] :
        client[c].at = "recv" /\ client[c].n = n /\ Script[c][n].reply > 0
            /\ ~ client[c].skipped
        ~> \/ n \in Range(client[c].heard)
           \/ client[c].skipped \/ client[c].at = "closed"

=============================================================================
