---------------------------- MODULE RequestReply ----------------------------
(***************************************************************************)
(* What the server promises each client, whatever pieces the bytes come    *)
(* in: it handles each request once and in the order in which they were    *)
(* sent, and the client takes each reply once and in the same order, never *)
(* before the request was handled.  A client's requests are numbered.      *)
(***************************************************************************)
EXTENDS Naturals, Sequences

CONSTANTS
    Clients,
    Silent    \* per client, the requests to which there is no reply

VARIABLES
    asked,    \* requests begun so far
    served,   \* the numbers of the requests handled, in order
    heard     \* the numbers of the requests whose replies were taken, in order

rrVars == <<asked, served, heard>>

RRInit ==
    /\ asked = [c \in Clients |-> 0]
    /\ served = [c \in Clients |-> << >>]
    /\ heard = [c \in Clients |-> << >>]

Ask(c) ==
    /\ asked' = [asked EXCEPT ![c] = @ + 1]
    /\ UNCHANGED <<served, heard>>

Serve(c) ==
    /\ Len(served[c]) < asked[c]
    /\ served' = [served EXCEPT ![c] = Append(@, Len(@) + 1)]
    /\ UNCHANGED <<asked, heard>>

\* The reply to request n need not be waited for: there is none, or it was taken.
Settled(c, n) == n \in Silent[c] \/ \E k \in DOMAIN heard[c] : heard[c][k] = n

\* The reply to the first request handled for which one is still to come.
Hear(c) ==
    /\ \E i \in DOMAIN served[c] :
          /\ ~ Settled(c, served[c][i])
          /\ \A j \in 1 .. i - 1 : Settled(c, served[c][j])
          /\ heard' = [heard EXCEPT ![c] = Append(@, served[c][i])]
    /\ UNCHANGED <<asked, served>>

RRNext == \E c \in Clients : Ask(c) \/ Serve(c) \/ Hear(c)

RRSpec == RRInit /\ [][RRNext]_rrVars

=============================================================================
