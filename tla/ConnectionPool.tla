--------------------------- MODULE ConnectionPool ---------------------------
(***************************************************************************)
(* DBPool and RedisPool: a queue of connections under a mutex and a        *)
(* condition variable.  getConnection waits while the queue is empty; the  *)
(* deleter of the unique_ptr it returns gives the connection back and      *)
(* wakes one thread that waits.  What runs under the mutex is one step.    *)
(***************************************************************************)
EXTENDS Naturals, Sequences

CONSTANTS
    Threads,    \* the callers
    Conns,      \* the connections
    MaxSize,    \* how many init tries to open
    NoConn      \* a thread that has none

ASSUME PoolAssumption == NoConn \notin Conns /\ MaxSize \in Nat

VARIABLES
    connQueue_,   \* the connections not in use
    conn,         \* what each thread's conn_ptr points to
    waiting,      \* the threads in cv_.wait
    notified      \* those of them that a notify_one has woken

poolVars == <<connQueue_, conn, waiting, notified>>

\* The queues init may leave: a connection that fails is not pushed.
Opened ==
    {q \in UNION {[1 .. n -> Conns] : n \in 0 .. MaxSize} :
        \A i, j \in DOMAIN q : q[i] = q[j] => i = j}

PoolInit ==
    /\ connQueue_ \in Opened
    /\ conn = [t \in Threads |-> NoConn]
    /\ waiting = {} /\ notified = {}

\* The predicate holds: the front of the queue is taken.
Acquire(t) ==
    /\ connQueue_ # << >>
    /\ conn' = [conn EXCEPT ![t] = Head(connQueue_)]
    /\ connQueue_' = Tail(connQueue_)
    /\ waiting' = waiting \ {t} /\ notified' = notified \ {t}

\* It does not: the thread waits, or waits again.
Sleep(t) ==
    /\ connQueue_ = << >>
    /\ waiting' = waiting \cup {t} /\ notified' = notified \ {t}
    /\ UNCHANGED <<connQueue_, conn>>

\* getConnection is called.
GetConnection(t) ==
    /\ conn[t] = NoConn /\ t \notin waiting
    /\ Acquire(t) \/ Sleep(t)

\* cv_.wait looks again: woken, or for no reason, as a condition variable may.
Wake(t) ==
    /\ t \in waiting
    /\ Acquire(t) \/ Sleep(t)

\* A plausible slip: the connection goes back and nobody is told.
NotifyNobody == notified' = notified

\* cv_.notify_one: some thread that waits, if there is one.
NotifyOne ==
    \/ /\ waiting \ notified # {}
       /\ \E w \in waiting \ notified : notified' = notified \cup {w}
    \/ /\ waiting \ notified = {}
       /\ notified' = notified

\* A plausible slip: the handle still points to the connection it has given back.
ReturnKeeps(t) ==
    /\ conn[t] # NoConn
    /\ connQueue_' = Append(connQueue_, conn[t])
    /\ NotifyOne
    /\ UNCHANGED <<conn, waiting>>

\* The deleter, when conn_ptr goes out of scope.
Return(t) ==
    /\ conn[t] # NoConn
    /\ connQueue_' = Append(connQueue_, conn[t])
    /\ conn' = [conn EXCEPT ![t] = NoConn]
    /\ NotifyOne
    /\ UNCHANGED waiting

PoolStep(t) == GetConnection(t) \/ Wake(t) \/ Return(t)

PoolSpec ==
    /\ PoolInit
    /\ [][\E t \in Threads : PoolStep(t)]_poolVars

-----------------------------------------------------------------------------
(***************************************************************************)
(* Properties.                                                             *)
(***************************************************************************)

\* A connection is in the queue once or in one thread's hands, never both: two threads
\* never speak on one connection (mysql and hiredis contexts are not thread safe), and a
\* thread that waits has none.
NoConnectionShared ==
    /\ \A i, j \in DOMAIN connQueue_ : connQueue_[i] = connQueue_[j] => i = j
    /\ \A t, u \in Threads : conn[t] = conn[u] => conn[t] = NoConn \/ t = u
    /\ \A t \in Threads : \A i \in DOMAIN connQueue_ : conn[t] # connQueue_[i]
    /\ \A t \in waiting : conn[t] = NoConn
    /\ notified \subseteq waiting

=============================================================================
