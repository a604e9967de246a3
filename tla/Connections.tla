---------------------------- MODULE Connections ----------------------------
(***************************************************************************)
(* The life of a connection: the event loop (TcpServer::start), the tasks  *)
(* it gives to the pool (ThreadPool), the read of MyEchoBusiness, the      *)
(* sessions by descriptor (SessionManager) and the idle timers             *)
(* (TimerManager).  The kernel's descriptors, its epoll set and the peers  *)
(* are modelled from how they are used.                                    *)
(*                                                                         *)
(* A session is named by the connection it was made for.  One step is one  *)
(* operation on what the loop and the workers share; the timer's mutex is  *)
(* held by the loop for a whole turn of handleTimeouts.  Descriptors are   *)
(* taken to be below MAX_FD: beyond it createSession and removeSession do  *)
(* nothing, getSession finds nothing and hasSession reads past the array.  *)
(***************************************************************************)
EXTENDS Integers, Sequences, FiniteSets

CONSTANTS
    Peers,          \* connections that clients make, each once
    Fds,            \* descriptor numbers
    Workers,        \* threads of the pool
    None,           \* no connection, session or timer
    Timeout,        \* 60 seconds
    MaxClock,       \* bound on the clock
    MaxSends        \* bound on the messages of a client

ASSUME ConnectionsAssumption ==
    /\ Timeout \in Nat \ {0} /\ MaxClock \in Nat /\ MaxSends \in Nat
    /\ None \notin Peers \cup Nat

VARIABLES
    peer,         \* per client: not yet there, in the backlog, open or at its end
    unread,       \* clients whose bytes are in the receive buffer
    sends,        \* messages sent so far
    stalled,      \* clients that do not read while the buffers to them are full
    conn,         \* the connection open at a descriptor
    watch,        \* its epoll entry: none, armed, or disarmed by EPOLLONESHOT
    session,      \* sessions_: the session at a descriptor
    freed,        \* sessions deleted
    secretTable,  \* the expiry that counts for a descriptor
    minHeap,      \* the timers set, each <<descriptor, expiry>>
    tasks,        \* ThreadPool::tasks_: descriptors with something to read
    worker,       \* where each pool thread is
    loop,         \* where the event loop is
    clock,
    overlapped    \* history: a number was handed out while a worker was still cleaning
                  \* up after its previous connection

kernel == <<peer, unread, sends, stalled, conn, watch>>

timers == <<secretTable, minHeap>>

connVars == <<kernel, session, freed, timers, tasks, worker, loop, clock, overlapped>>

Waiting == [at |-> "wait"]

NoTask == [at |-> "idle"]

CInit ==
    /\ peer = [k \in Peers |-> "absent"]
    /\ unread = {}
    /\ sends = [k \in Peers |-> 0]
    /\ stalled = {}
    /\ conn = [f \in Fds |-> None]
    /\ watch = [f \in Fds |-> "none"]
    /\ session = [f \in Fds |-> None]
    /\ freed = {}
    /\ secretTable = [f \in Fds |-> None]
    /\ minHeap = {}
    /\ tasks = << >>
    /\ worker = [w \in Workers |-> NoTask]
    /\ loop = Waiting
    /\ clock = 0
    /\ overlapped = FALSE

\* The worker is in the doCleanup that follows a cleanConnection of the descriptor.
CleaningAgain(w, f) ==
    /\ \/ worker[w].at \in {"cleanup", "unwatch", "untimer"}
       \/ worker[w].at \in {"remove", "close"} /\ worker[w].then = "done"
    /\ worker[w].fd = f

-----------------------------------------------------------------------------
(***************************************************************************)
(* Clients and the clock.                                                  *)
(***************************************************************************)

Connect(k) ==
    /\ peer[k] = "absent"
    /\ peer' = [peer EXCEPT ![k] = "backlog"]
    /\ UNCHANGED <<unread, sends, stalled, conn, watch, session, freed, timers, tasks, worker,
                   loop, clock, overlapped>>

\* A request; its sender may not get to read the reply, so that send finds the buffers
\* full.
Send(k) ==
    /\ peer[k] \in {"backlog", "open"} /\ sends[k] < MaxSends
    /\ unread' = unread \cup {k}
    /\ sends' = [sends EXCEPT ![k] = @ + 1]
    /\ stalled' \in {stalled, stalled \cup {k}}
    /\ UNCHANGED <<peer, conn, watch, session, freed, timers, tasks, worker, loop, clock, overlapped>>

\* The client reads what it has been sent.
ReadReplies(k) ==
    /\ k \in stalled
    /\ stalled' = stalled \ {k}
    /\ UNCHANGED <<peer, unread, sends, conn, watch, session, freed, timers, tasks, worker,
                   loop, clock, overlapped>>

\* The client closes its end; send to it then fails.
Finish(k) ==
    /\ peer[k] = "open"
    /\ peer' = [peer EXCEPT ![k] = "finished"]
    /\ stalled' = stalled \ {k}
    /\ UNCHANGED <<unread, sends, conn, watch, session, freed, timers, tasks, worker,
                   loop, clock, overlapped>>

Tick ==
    /\ clock < MaxClock
    /\ clock' = clock + 1
    /\ UNCHANGED <<kernel, session, freed, timers, tasks, worker, loop, overlapped>>

-----------------------------------------------------------------------------
(***************************************************************************)
(* The event loop.                                                         *)
(***************************************************************************)

\* accept hands out a free number.
Accept(k, f) ==
    /\ loop = Waiting
    /\ peer[k] = "backlog" /\ conn[f] = None
    /\ overlapped' = (overlapped \/ \E w \in Workers : CleaningAgain(w, f))
    /\ peer' = [peer EXCEPT ![k] = "open"]
    /\ conn' = [conn EXCEPT ![f] = k]
    /\ loop' = [at |-> "session", fd |-> f, k |-> k]
    /\ UNCHANGED <<unread, sends, stalled, watch, session, freed, timers, tasks, worker, clock>>

\* createSession makes a session, and deletes the one it finds in the slot.
CreateSession ==
    /\ loop.at = "session"
    /\ session' = [session EXCEPT ![loop.fd] = loop.k]
    /\ freed' = freed \cup ({session[loop.fd]} \ {None})
    /\ loop' = [loop EXCEPT !.at = "watch"]
    /\ UNCHANGED <<kernel, timers, tasks, worker, clock, overlapped>>

\* addEvent; on a descriptor that was closed meanwhile epoll_ctl fails.
AddEvent ==
    /\ loop.at = "watch"
    /\ watch' = [watch EXCEPT ![loop.fd] = IF conn[loop.fd] = None THEN @ ELSE "armed"]
    /\ loop' = [loop EXCEPT !.at = "timer"]
    /\ UNCHANGED <<peer, unread, sends, stalled, conn, session, freed, timers, tasks, worker, clock, overlapped>>

\* A plausible slip: the timeout counts double.
AddTimerDoubled(f) ==
    /\ secretTable' = [secretTable EXCEPT ![f] = clock + 2 * Timeout]
    /\ minHeap' = minHeap \cup {<<f, clock + 2 * Timeout>>}

\* addTimer: an earlier timer of the descriptor stays in the heap, out of date.
AddTimer(f) ==
    /\ secretTable' = [secretTable EXCEPT ![f] = clock + Timeout]
    /\ minHeap' = minHeap \cup {<<f, clock + Timeout>>}

StartTimer ==
    /\ loop.at = "timer"
    /\ AddTimer(loop.fd)
    /\ loop' = Waiting
    /\ UNCHANGED <<kernel, session, freed, tasks, worker, clock, overlapped>>

Readable(f) ==
    /\ conn[f] # None
    /\ conn[f] \in unread \/ peer[conn[f]] = "finished"

\* A plausible slip: the events are not one-shot.
EventStaysArmed(f) ==
    /\ loop = Waiting
    /\ watch[f] = "armed" /\ Readable(f)
    /\ Len(tasks) < MaxSends + 2
    /\ AddTimer(f)
    /\ tasks' = Append(tasks, f)
    /\ UNCHANGED <<kernel, session, freed, worker, loop, clock, overlapped>>

\* epoll_wait reports the descriptor and disarms it; the timer starts anew and a
\* task is queued.
Event(f) ==
    /\ loop = Waiting
    /\ watch[f] = "armed" /\ Readable(f)
    /\ watch' = [watch EXCEPT ![f] = "disarmed"]
    /\ AddTimer(f)
    /\ tasks' = Append(tasks, f)
    /\ UNCHANGED <<peer, unread, sends, stalled, conn, session, freed, worker, loop, clock, overlapped>>

\* hasSession, as written.
hasSession(f) == session[f] = None

\* One turn of handleTimeouts with the timer t at the top of the heap.  An out of
\* date timer is dropped.  The callback does nothing to a descriptor for which
\* hasSession is false; otherwise doCleanup takes the entry out of the epoll set and
\* calls cancelTimer, which asks for the mutex this thread holds.
HandleTimeout(t) ==
    /\ loop = Waiting
    /\ t[2] =< clock
    /\ \A o \in minHeap : t[2] =< o[2]
    /\ LET f == t[1]
       IN  \/ /\ t[2] # secretTable[f]
              /\ minHeap' = minHeap \ {t}
              /\ UNCHANGED <<watch, secretTable, loop>>
           \/ /\ t[2] = secretTable[f] /\ ~ hasSession(f)
              /\ minHeap' = minHeap \ {t}
              /\ secretTable' = [secretTable EXCEPT ![f] = None]
              /\ UNCHANGED <<watch, loop>>
           \/ /\ t[2] = secretTable[f] /\ hasSession(f)
              /\ watch' = [watch EXCEPT ![f] = "none"]
              /\ loop' = [at |-> "stuck", fd |-> f]
              /\ UNCHANGED timers
    /\ UNCHANGED <<peer, unread, sends, stalled, conn, session, freed, tasks, worker, clock, overlapped>>

EventLoop ==
    \/ \E k \in Peers, f \in Fds : Accept(k, f)
    \/ CreateSession \/ AddEvent \/ StartTimer
    \/ \E f \in Fds : Event(f)
    \/ \E t \in minHeap : HandleTimeout(t)

-----------------------------------------------------------------------------
(***************************************************************************)
(* A task on a pool thread.                                                *)
(***************************************************************************)

TakeTask(w) ==
    /\ worker[w] = NoTask /\ tasks # << >>
    /\ worker' = [worker EXCEPT ![w] = [at |-> "start", fd |-> Head(tasks)]]
    /\ tasks' = Tail(tasks)
    /\ UNCHANGED <<kernel, session, freed, timers, loop, clock, overlapped>>

\* getSession; without one MyEchoBusiness returns false.
GetSession(w) ==
    /\ worker[w].at = "start"
    /\ LET f == worker[w].fd
       IN  worker' = [worker EXCEPT ![w] =
              IF session[f] = None THEN [at |-> "cleanup", fd |-> f]
              ELSE [at |-> "read", fd |-> f, s |-> session[f]]]
    /\ UNCHANGED <<kernel, session, freed, timers, tasks, loop, clock, overlapped>>

\* recv fails at a closed descriptor and returns 0 at the end of the stream.
StreamEnded(f) == conn[f] = None \/ (conn[f] # None /\ peer[conn[f]] = "finished")

\* Where the task goes after the recv loop: to cleanConnection, straight to its end
\* when nothing was read, or to the packets.
AfterRead(w, ended) ==
    LET f == worker[w].fd
    IN  IF ended THEN [at |-> "remove", fd |-> f, then |-> "cleanup"]
        ELSE IF conn[f] \in unread THEN [worker[w] EXCEPT !.at = "serve"]
        ELSE [at |-> "rearm", fd |-> f]

\* A plausible slip: the EAGAIN that follows the data is taken for an error.
ReadEagainIsError(w) ==
    /\ worker[w].at = "read"
    /\ LET f == worker[w].fd
       IN  /\ unread' = unread \ {conn[f]}
           /\ worker' = [worker EXCEPT ![w] =
                             AfterRead(w, StreamEnded(f) \/ conn[f] \in unread)]
    /\ UNCHANGED <<peer, sends, stalled, conn, watch, session, freed, timers, tasks, loop, clock, overlapped>>

\* A plausible slip: the entry is armed again before the packets are handled.
ReadArmsAtOnce(w) ==
    /\ worker[w].at = "read"
    /\ LET f == worker[w].fd
       IN  /\ unread' = unread \ {conn[f]}
           /\ worker' = [worker EXCEPT ![w] = AfterRead(w, StreamEnded(f))]
           /\ watch' = [watch EXCEPT ![f] = IF @ = "none" THEN @ ELSE "armed"]
    /\ UNCHANGED <<peer, sends, stalled, conn, session, freed, timers, tasks, loop, clock, overlapped>>

\* The recv loop: up to EAGAIN, or to the end of the stream or an error, which
\* drop what was read.
Read(w) ==
    /\ worker[w].at = "read"
    /\ LET f == worker[w].fd
       IN  /\ unread' = unread \ {conn[f]}
           /\ worker' = [worker EXCEPT ![w] = AfterRead(w, StreamEnded(f))]
    /\ UNCHANGED <<peer, sends, stalled, conn, watch, session, freed, timers, tasks, loop, clock, overlapped>>

\* The packets are handled through the session pointer and their replies sent; the send
\* loop goes round at EAGAIN for as long as the client does not read.
Serve(w) ==
    /\ worker[w].at = "serve"
    /\ conn[worker[w].fd] \notin stalled
    /\ worker' = [worker EXCEPT ![w] = [at |-> "rearm", fd |-> @.fd]]
    /\ UNCHANGED <<kernel, session, freed, timers, tasks, loop, clock, overlapped>>

\* A plausible slip: the entry stays disarmed.
RearmForgotten(w) ==
    /\ worker[w].at = "rearm"
    /\ worker' = [worker EXCEPT ![w] = NoTask]
    /\ UNCHANGED <<kernel, session, freed, timers, tasks, loop, clock, overlapped>>

\* EPOLL_CTL_MOD of a descriptor that is not in the set fails.
Rearm(w) ==
    /\ worker[w].at = "rearm"
    /\ watch' = [watch EXCEPT ![worker[w].fd] = IF @ = "none" THEN @ ELSE "armed"]
    /\ worker' = [worker EXCEPT ![w] = NoTask]
    /\ UNCHANGED <<peer, unread, sends, stalled, conn, session, freed, timers, tasks, loop, clock, overlapped>>

\* A plausible slip: the pointer is deleted and stays in the slot.
RemoveSessionLoads(w) ==
    /\ worker[w].at = "remove"
    /\ freed' = freed \cup ({session[worker[w].fd]} \ {None})
    /\ worker' = [worker EXCEPT ![w].at = "close"]
    /\ UNCHANGED <<kernel, session, timers, tasks, loop, clock, overlapped>>

\* cleanConnection: removeSession ...
RemoveSession(w) ==
    /\ worker[w].at = "remove"
    /\ session' = [session EXCEPT ![worker[w].fd] = None]
    /\ freed' = freed \cup ({session[worker[w].fd]} \ {None})
    /\ worker' = [worker EXCEPT ![w].at = "close"]
    /\ UNCHANGED <<kernel, timers, tasks, loop, clock, overlapped>>

\* ... and close, which also ends the epoll entry.
Close(w) ==
    /\ worker[w].at = "close"
    /\ LET f == worker[w].fd
       IN  /\ conn' = [conn EXCEPT ![f] = None]
           /\ watch' = [watch EXCEPT ![f] = "none"]
           /\ peer' = [k \in Peers |-> IF k = conn[f] THEN "closed" ELSE peer[k]]
           /\ worker' = [worker EXCEPT ![w] =
                 IF @.then = "cleanup" THEN [at |-> "cleanup", fd |-> f] ELSE NoTask]
    /\ UNCHANGED <<unread, sends, stalled, session, freed, timers, tasks, loop, clock, overlapped>>

\* doCleanup: nothing more to do, or the entry, the timer and the descriptor, each
\* by number.
Cleanup(w) ==
    /\ worker[w].at = "cleanup"
    /\ worker' = [worker EXCEPT ![w] =
          IF hasSession(@.fd) THEN [at |-> "unwatch", fd |-> @.fd] ELSE NoTask]
    /\ UNCHANGED <<kernel, session, freed, timers, tasks, loop, clock, overlapped>>

Unwatch(w) ==
    /\ worker[w].at = "unwatch"
    /\ watch' = [watch EXCEPT ![worker[w].fd] = "none"]
    /\ worker' = [worker EXCEPT ![w].at = "untimer"]
    /\ UNCHANGED <<peer, unread, sends, stalled, conn, session, freed, timers, tasks, loop, clock, overlapped>>

\* A plausible slip: the timer of the closed connection stays.
CancelTimerForgotten(w) ==
    /\ worker[w].at = "untimer"
    /\ loop.at # "stuck"
    /\ worker' = [worker EXCEPT ![w] = [at |-> "remove", fd |-> @.fd, then |-> "done"]]
    /\ UNCHANGED <<kernel, session, freed, timers, tasks, loop, clock, overlapped>>

\* cancelTimer waits for the mutex.
CancelTimer(w) ==
    /\ worker[w].at = "untimer"
    /\ loop.at # "stuck"
    /\ secretTable' = [secretTable EXCEPT ![worker[w].fd] = None]
    /\ worker' = [worker EXCEPT ![w] = [at |-> "remove", fd |-> @.fd, then |-> "done"]]
    /\ UNCHANGED <<kernel, session, freed, minHeap, tasks, loop, clock, overlapped>>

Task(w) ==
    \/ TakeTask(w) \/ GetSession(w) \/ Read(w) \/ Serve(w) \/ Rearm(w)
    \/ RemoveSession(w) \/ Close(w) \/ Cleanup(w) \/ Unwatch(w) \/ CancelTimer(w)

-----------------------------------------------------------------------------
CNext ==
    \/ \E k \in Peers : Connect(k) \/ Send(k) \/ ReadReplies(k) \/ Finish(k)
    \/ Tick
    \/ EventLoop
    \/ \E w \in Workers : Task(w)

CSpec == CInit /\ [][CNext]_connVars

\* The loop, the pool and time go on; clients owe nothing, not even to read.
CFairSpec ==
    /\ CSpec
    /\ WF_connVars(EventLoop)
    /\ WF_connVars(Tick)
    /\ \A w \in Workers : WF_connVars(Task(w))

-----------------------------------------------------------------------------
(***************************************************************************)
(* Properties.                                                             *)
(***************************************************************************)

WorkerState ==
         {NoTask}
    \cup [at : {"start", "cleanup", "unwatch", "untimer", "rearm"}, fd : Fds]
    \cup [at : {"read", "serve"}, fd : Fds, s : Peers]
    \cup [at : {"remove", "close"}, fd : Fds, then : {"cleanup", "done"}]

\* Types; the connections open at descriptors are those the server has accepted and
\* not closed, each at one descriptor.
CTypeOK ==
    /\ peer \in [Peers -> {"absent", "backlog", "open", "finished", "closed"}]
    /\ unread \subseteq Peers
    /\ sends \in [Peers -> 0 .. MaxSends]
    /\ stalled \subseteq Peers
    /\ conn \in [Fds -> Peers \cup {None}]
    /\ watch \in [Fds -> {"none", "armed", "disarmed"}]
    /\ session \in [Fds -> Peers \cup {None}]
    /\ freed \subseteq Peers
    /\ secretTable \in [Fds -> {None} \cup (0 .. MaxClock + Timeout)]
    /\ minHeap \subseteq Fds \X (0 .. MaxClock + Timeout)
    /\ tasks \in Seq(Fds)
    /\ worker \in [Workers -> WorkerState]
    /\ \/ loop = Waiting
       \/ loop \in [at : {"stuck"}, fd : Fds]
       \/ loop \in [at : {"session", "watch", "timer"}, fd : Fds, k : Peers]
    /\ clock \in 0 .. MaxClock
    /\ overlapped \in BOOLEAN
    /\ \A k \in Peers :
          Cardinality({f \in Fds : conn[f] = k}) =
             (IF peer[k] \in {"open", "finished"} THEN 1 ELSE 0)

\* Where a property says so, it is about behaviours in which a worker is done with a
\* descriptor before its number is handed out again.  Nothing in the code sees to that;
\* what no longer holds otherwise, OwnSession shows.

\* Two tasks are never under way for one descriptor: EPOLLONESHOT keeps the entry
\* disarmed from the event (TcpServer::start) until the task of that event arms it
\* again or has closed the descriptor.
OneTaskPerConnection ==
    ~ overlapped =>
        \A f \in Fds :
            /\ Cardinality({i \in DOMAIN tasks : tasks[i] = f})
                  + Cardinality({w \in Workers : worker[w] # NoTask /\ worker[w].fd = f})
               =< 1
            /\ watch[f] = "armed" =>
                  /\ f \notin {tasks[i] : i \in DOMAIN tasks}
                  /\ \A w \in Workers : worker[w] # NoTask => worker[w].fd # f

\* The raw pointer MyEchoBusiness took from getSession is not deleted by another
\* thread, in removeSession or createSession, before the task is done with it.
NoDanglingSession ==
    ~ overlapped =>
        \A w \in Workers : worker[w].at \in {"read", "serve"} => worker[w].s \notin freed

\* An event is only ever awaited on a connection whose own session is in the slot of
\* its descriptor: a request finds its session, and not that of another connection.
OwnSession ==
    \A f \in Fds : watch[f] = "armed" => conn[f] # None /\ session[f] = conn[f]

\* The same while no clean-up has overlapped the next use of its number.
SessionPerConnection == ~ overlapped => OwnSession

\* The timer of the descriptor has run out.
Expired(f) == secretTable[f] # None /\ secretTable[f] =< clock

\* The server closes a connection only when the client has closed its end or the
\* connection's timer has run out: cleanConnection closes by number, whatever
\* connection the number stands for by then.
ClosesOnlyEnded ==
    [][\A f \in Fds :
          ~ overlapped /\ conn[f] # None /\ conn'[f] = None =>
              peer[conn[f]] = "finished" \/ Expired(f)
      ]_connVars

\* Every thread of the pool is in the send loop of main.cpp for a client that does not read.
PoolPinned ==
    \A w \in Workers : worker[w].at = "serve" /\ conn[worker[w].fd] \in stalled

\* A connection whose client has closed its end is closed by the server, as long as a
\* thread is free of clients that do not read and the event loop is not stuck: the event
\* is reported, or is reported once the entry is armed again, and its task ends.
PeerCloseHandled ==
    \A k \in Peers :
        peer[k] = "finished" ~>
            peer[k] = "closed" \/ overlapped \/ PoolPinned \/ loop.at = "stuck"

\* handleTimeouts calls back and goes on, as its comment has it (TimerManager.hpp:42).  It
\* does not when the timer of a descriptor without a session is due: doCleanup then asks,
\* in cancelTimer, for the mutex held around the callback.
EventLoopLives == loop.at # "stuck"

\* It takes a timer that runs out while a thread is on its way from removeSession to
\* cancelTimer with the same descriptor; what is left of a clean-up that is over never
\* stops the loop.
StuckOnlyInCleanup ==
    ~ overlapped /\ loop.at = "stuck" =>
        \E w \in Workers :
            /\ worker[w].at \in {"close", "cleanup", "unwatch", "untimer"}
            /\ worker[w].fd = loop.fd

\* A session in a slot is not yet deleted, so none is deleted twice, however clean-ups
\* overlap: createSession and removeSession take it out of the slot before they
\* delete it.
SlotNotFreed == \A f \in Fds : session[f] \notin freed

\* A connection whose timer runs out is closed, unless its client is heard of again.
IdleIsCleaned ==
    \A f \in Fds, k \in Peers :
        conn[f] = k /\ Expired(f) ~>
            \/ conn[f] # k
            \/ secretTable[f] # None /\ secretTable[f] > clock

=============================================================================
