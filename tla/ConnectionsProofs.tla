------------------------- MODULE ConnectionsProofs --------------------------
(***************************************************************************)
(* Proofs about Connections, for any number of connections, descriptors,   *)
(* pool threads and messages and any timeout.                              *)
(***************************************************************************)
EXTENDS Connections, SequenceTheorems, FiniteSetTheorems, TLAPS

Loops ==
         {Waiting}
    \cup [at : {"stuck"}, fd : Fds]
    \cup [at : {"session", "watch", "timer"}, fd : Fds, k : Peers]

CTypes ==
    /\ peer \in [Peers -> {"absent", "backlog", "open", "finished", "closed"}]
    /\ unread \subseteq Peers
    /\ sends \in [Peers -> 0 .. MaxSends]
    /\ stalled \subseteq Peers
    /\ conn \in [Fds -> Peers \cup {None}]
    /\ watch \in [Fds -> {"none", "armed", "disarmed"}]
    /\ session \in [Fds -> Peers \cup {None}]
    /\ freed \subseteq Peers
    /\ secretTable \in [Fds -> {None} \cup (0 .. MaxClock + Timeout)]
    /\ minHeap \subseteq Fds \X (0 .. MaxClock + Timeout)
    /\ tasks \in Seq(Fds)
    /\ worker \in [Workers -> WorkerState]
    /\ loop \in Loops
    /\ clock \in 0 .. MaxClock
    /\ overlapped \in BOOLEAN

\* A connection is at one descriptor from accept to close.
ConnectedOnce ==
    /\ \A k \in Peers : peer[k] \in {"open", "finished"} <=> \E f \in Fds : conn[f] = k
    /\ \A f, g \in Fds : conn[f] = conn[g] /\ conn[f] # None => f = g

\* A session is made once, for a connection that has been accepted, and is in one slot.
Accepted == {k \in Peers : peer[k] \notin {"absent", "backlog"}}

SessionsOnce ==
    /\ \A f \in Fds : session[f] \notin freed
    /\ \A f, g \in Fds : session[f] = session[g] /\ session[f] # None => f = g
    /\ \A k \in freed : k \in Accepted
    /\ \A f \in Fds : session[f] # None => session[f] \in Accepted
    /\ loop.at = "session" =>
          /\ loop.k \in Accepted /\ loop.k \notin freed
          /\ \A f \in Fds : session[f] # loop.k

\* The loop waits for its own mutex with a timer that counts for a slot without a session.
Stopped == loop.at = "stuck" => secretTable[loop.fd] # None /\ session[loop.fd] = None

\* What holds whatever overlaps.
TablesInv == CTypes /\ ConnectedOnce /\ SessionsOnce /\ Stopped

-----------------------------------------------------------------------------
(***************************************************************************)
(* What holds while no clean-up has overlapped the next use of its number. *)
(***************************************************************************)

Tasked(f) == \E i \in DOMAIN tasks : tasks[i] = f

At(w, f) == worker[w] # NoTask /\ worker[w].fd = f

Free(f) == ~ Tasked(f) /\ \A w \in Workers : ~ At(w, f)

Own(f) == conn[f] # None /\ session[f] = conn[f]

\* What a task can rely on at each of its steps.
TaskOK(w, f) ==
    LET x == worker[w]
    IN  /\ x.at \in {"start", "rearm"} => Own(f)
        /\ x.at \in {"read", "serve"} => Own(f) /\ x.s = session[f]
        /\ x.at = "remove" /\ x.then = "cleanup" => Own(f) /\ peer[conn[f]] = "finished"
        /\ x.at = "close" /\ x.then = "cleanup" =>
              session[f] = None /\ conn[f] # None /\ peer[conn[f]] = "finished"
        /\ x.at \in {"cleanup", "unwatch", "untimer"} => conn[f] = None /\ session[f] = None
        /\ x.at \in {"remove", "close"} /\ x.then = "done" =>
              conn[f] = None /\ session[f] = None /\ secretTable[f] = None

\* What the event loop can rely on between accept and addTimer.
Setup(f) == loop.at \in {"session", "watch", "timer"} /\ loop.fd = f

LoopOK(f) ==
    Setup(f) => /\ Free(f) /\ conn[f] # None /\ conn[f] = loop.k
                /\ loop.at # "session" => Own(f)

\* A timer counts for a descriptor with a session, or a thread is on its way to cancel it.
TimerOK(f) ==
    secretTable[f] # None =>
        \/ session[f] # None
        \/ \E w \in Workers : At(w, f) /\ worker[w].at \in {"close", "cleanup", "unwatch", "untimer"}

\* One task per descriptor, in the queue or on a thread, and what it and the loop rely on.
FdOK(f) ==
    /\ \A w, x \in Workers : At(w, f) /\ At(x, f) => w = x
    /\ Tasked(f) => Own(f) /\ \A w \in Workers : ~ At(w, f)
    /\ watch[f] = "armed" => Own(f) /\ Free(f)
    /\ \A w \in Workers : At(w, f) => TaskOK(w, f)
    /\ LoopOK(f)
    /\ TimerOK(f)

QueuedOnce == \A i, j \in DOMAIN tasks : tasks[i] = tasks[j] => i = j

Orderly ==
    /\ QueuedOnce
    /\ \A f \in Fds : FdOK(f)

CInv == TablesInv /\ (~ overlapped => Orderly)

-----------------------------------------------------------------------------
(***************************************************************************)
(* Types.                                                                  *)
(***************************************************************************)

LEMMA WorkerParts ==
    ASSUME NEW x \in WorkerState
    PROVE  /\ x.at = "idle" <=> x = NoTask
           /\ x # NoTask => x.fd \in Fds
           /\ x.at \in {"read", "serve"} => x \in [at : {"read", "serve"}, fd : Fds, s : Peers]
           /\ x.at \in {"remove", "close"} =>
                 x \in [at : {"remove", "close"}, fd : Fds, then : {"cleanup", "done"}]
           /\ x.at \in {"idle", "start", "cleanup", "unwatch", "untimer", "rearm", "read",
                        "serve", "remove", "close"}
BY DEF WorkerState, NoTask

LEMMA LoopParts ==
    ASSUME NEW x \in Loops
    PROVE  /\ x.at = "wait" <=> x = Waiting
           /\ x.at \in {"session", "watch", "timer"} =>
                 /\ x.fd \in Fds /\ x.k \in Peers
                 /\ x \in [at : {"session", "watch", "timer"}, fd : Fds, k : Peers]
           /\ x.at = "stuck" => x.fd \in Fds
           /\ x.at \in {"wait", "stuck", "session", "watch", "timer"}
BY DEF Loops, Waiting

\* Where a task goes from each of its steps.
LEMMA TaskSteps ==
    ASSUME CTypes, NEW w \in Workers
    PROVE  /\ TakeTask(w) =>
                 \E y \in WorkerState :
                    /\ worker' = [worker EXCEPT ![w] = y] /\ y # NoTask
                    /\ y.at = "start" /\ y.fd = Head(tasks)
           /\ GetSession(w) =>
                 \E y \in WorkerState :
                    /\ worker' = [worker EXCEPT ![w] = y] /\ y # NoTask
                    /\ y.fd = worker[w].fd
                    /\ session[y.fd] = None => y.at = "cleanup"
                    /\ session[y.fd] # None => y.at = "read" /\ y.s = session[y.fd]
           /\ Read(w) =>
                 \E y \in WorkerState :
                    /\ worker' = [worker EXCEPT ![w] = y] /\ y # NoTask
                    /\ y.fd = worker[w].fd
                    /\ \/ StreamEnded(y.fd) /\ y.at = "remove" /\ y.then = "cleanup"
                       \/ y.at = "serve" /\ y.s = worker[w].s
                       \/ y.at = "rearm"
           /\ Serve(w) =>
                 \E y \in WorkerState :
                    /\ worker' = [worker EXCEPT ![w] = y] /\ y # NoTask
                    /\ y.fd = worker[w].fd /\ y.at = "rearm"
           /\ RemoveSession(w) =>
                 \E y \in WorkerState :
                    /\ worker' = [worker EXCEPT ![w] = y] /\ y # NoTask
                    /\ y.fd = worker[w].fd /\ y.at = "close" /\ y.then = worker[w].then
           /\ Close(w) =>
                 \E y \in WorkerState :
                    /\ worker' = [worker EXCEPT ![w] = y]
                    /\ worker[w].then = "cleanup" =>
                          y # NoTask /\ y.fd = worker[w].fd /\ y.at = "cleanup"
                    /\ worker[w].then = "done" => y = NoTask
           /\ Cleanup(w) =>
                 \E y \in WorkerState :
                    /\ worker' = [worker EXCEPT ![w] = y]
                    /\ \/ y = NoTask
                       \/ y # NoTask /\ y.fd = worker[w].fd /\ y.at = "unwatch"
                    /\ session[worker[w].fd] = None => y # NoTask
           /\ Unwatch(w) =>
                 \E y \in WorkerState :
                    /\ worker' = [worker EXCEPT ![w] = y] /\ y # NoTask
                    /\ y.fd = worker[w].fd /\ y.at = "untimer"
           /\ CancelTimer(w) =>
                 \E y \in WorkerState :
                    /\ worker' = [worker EXCEPT ![w] = y] /\ y # NoTask
                    /\ y.fd = worker[w].fd /\ y.at = "remove" /\ y.then = "done"
<1>1. PICK x : x = worker[w] /\ x \in WorkerState
  BY DEF CTypes
<1>2. /\ x.at = "idle" <=> x = NoTask
      /\ x # NoTask => x.fd \in Fds
      /\ x.at \in {"read", "serve"} => x \in [at : {"read", "serve"}, fd : Fds, s : Peers]
      /\ x.at \in {"remove", "close"} =>
            x \in [at : {"remove", "close"}, fd : Fds, then : {"cleanup", "done"}]
  BY <1>1, WorkerParts
<1>3. worker \in [Workers -> WorkerState] /\ session \in [Fds -> Peers \cup {None}]
      /\ tasks \in Seq(Fds)
  BY DEF CTypes
<1>4. ASSUME NEW a \in {"start", "cleanup", "unwatch", "untimer", "rearm"}, NEW f \in Fds,
             NEW y, y = [at |-> a, fd |-> f]
      PROVE  y \in WorkerState /\ y # NoTask /\ y.at = a /\ y.fd = f
  BY <1>4 DEF WorkerState, NoTask
<1>5. ASSUME NEW a \in {"read", "serve"}, NEW f \in Fds, NEW s \in Peers,
             NEW y, y = [at |-> a, fd |-> f, s |-> s]
      PROVE  y \in WorkerState /\ y # NoTask /\ y.at = a /\ y.fd = f /\ y.s = s
  BY <1>5 DEF WorkerState, NoTask
<1>6. ASSUME NEW a \in {"remove", "close"}, NEW f \in Fds, NEW t \in {"cleanup", "done"},
             NEW y, y = [at |-> a, fd |-> f, then |-> t]
      PROVE  y \in WorkerState /\ y # NoTask /\ y.at = a /\ y.fd = f /\ y.then = t
  BY <1>6 DEF WorkerState, NoTask
<1>7. NoTask \in WorkerState
  BY DEF WorkerState
<1>8. ASSUME x.at # "idle" PROVE x.fd \in Fds
  BY <1>2, <1>8
<1>9. ASSUME TakeTask(w)
      PROVE  \E y \in WorkerState : /\ worker' = [worker EXCEPT ![w] = y] /\ y # NoTask
                                    /\ y.at = "start" /\ y.fd = Head(tasks)
  <2>1. PICK f : f = Head(tasks) /\ f \in Fds
    BY <1>3, <1>9, HeadTailProperties DEF TakeTask
  <2>2. PICK y : y = [at |-> "start", fd |-> f]
    OBVIOUS
  <2>3. y \in WorkerState /\ y # NoTask /\ y.at = "start" /\ y.fd = f
    BY <1>4, <2>1, <2>2
  <2>4. worker' = [worker EXCEPT ![w] = y]
    BY <1>9, <2>1, <2>2 DEF TakeTask
  <2> QED BY <2>1, <2>3, <2>4
<1>10. ASSUME GetSession(w)
       PROVE  \E y \in WorkerState :
                 /\ worker' = [worker EXCEPT ![w] = y] /\ y # NoTask
                 /\ y.fd = worker[w].fd
                 /\ session[y.fd] = None => y.at = "cleanup"
                 /\ session[y.fd] # None => y.at = "read" /\ y.s = session[y.fd]
  <2>1. PICK f : f = x.fd /\ f \in Fds
    BY <1>1, <1>8, <1>10 DEF GetSession
  <2>2. CASE session[f] = None
    <3>1. PICK y : y = [at |-> "cleanup", fd |-> f]
      OBVIOUS
    <3>2. y \in WorkerState /\ y # NoTask /\ y.at = "cleanup" /\ y.fd = f
      BY <1>4, <2>1, <3>1
    <3>3. worker' = [worker EXCEPT ![w] = y]
      BY <1>1, <1>10, <2>1, <2>2, <3>1 DEF GetSession
    <3> QED BY <1>1, <2>1, <2>2, <3>2, <3>3
  <2>3. CASE session[f] # None
    <3>1. PICK k : k = session[f] /\ k \in Peers
      BY <1>3, <2>1, <2>3
    <3>2. PICK y : y = [at |-> "read", fd |-> f, s |-> k]
      OBVIOUS
    <3>3. y \in WorkerState /\ y # NoTask /\ y.at = "read" /\ y.fd = f /\ y.s = k
      BY <1>5, <2>1, <3>1, <3>2
    <3>4. worker' = [worker EXCEPT ![w] = y]
      BY <1>1, <1>10, <2>1, <2>3, <3>1, <3>2 DEF GetSession
    <3> QED BY <1>1, <2>1, <2>3, <3>1, <3>3, <3>4
  <2> QED BY <2>2, <2>3
<1>11. ASSUME Read(w)
       PROVE  \E y \in WorkerState :
                 /\ worker' = [worker EXCEPT ![w] = y] /\ y # NoTask
                 /\ y.fd = worker[w].fd
                 /\ \/ StreamEnded(y.fd) /\ y.at = "remove" /\ y.then = "cleanup"
                    \/ y.at = "serve" /\ y.s = worker[w].s
                    \/ y.at = "rearm"
  <2>1. x \in [at : {"read", "serve"}, fd : Fds, s : Peers]
    BY <1>1, <1>2, <1>11 DEF Read
  <2>2. PICK f, k : f = x.fd /\ k = x.s /\ f \in Fds /\ k \in Peers
    BY <2>1
  <2>3. PICK y : y = AfterRead(w, StreamEnded(f))
    OBVIOUS
  <2>4. worker' = [worker EXCEPT ![w] = y]
    BY <1>1, <1>11, <2>2, <2>3 DEF Read
  <2>5. \/ StreamEnded(f) /\ y = [at |-> "remove", fd |-> f, then |-> "cleanup"]
        \/ y = [x EXCEPT !.at = "serve"]
        \/ y = [at |-> "rearm", fd |-> f]
    BY <1>1, <2>2, <2>3 DEF AfterRead
  <2>6. [x EXCEPT !.at = "serve"] = [at |-> "serve", fd |-> f, s |-> k]
    BY <2>1, <2>2
  <2>7. CASE StreamEnded(f) /\ y = [at |-> "remove", fd |-> f, then |-> "cleanup"]
    <3>1. y \in WorkerState /\ y # NoTask /\ y.at = "remove" /\ y.fd = f /\ y.then = "cleanup"
      BY <1>6, <2>2, <2>7
    <3> QED BY <1>1, <2>2, <2>4, <2>7, <3>1
  <2>8. CASE y = [x EXCEPT !.at = "serve"]
    <3>1. y \in WorkerState /\ y # NoTask /\ y.at = "serve" /\ y.fd = f /\ y.s = k
      BY <1>5, <2>2, <2>6, <2>8
    <3> QED BY <1>1, <2>2, <2>4, <3>1
  <2>9. CASE y = [at |-> "rearm", fd |-> f]
    <3>1. y \in WorkerState /\ y # NoTask /\ y.at = "rearm" /\ y.fd = f
      BY <1>4, <2>2, <2>9
    <3> QED BY <1>1, <2>2, <2>4, <3>1
  <2> QED BY <2>5, <2>7, <2>8, <2>9
<1>12. ASSUME Serve(w)
       PROVE  \E y \in WorkerState : /\ worker' = [worker EXCEPT ![w] = y] /\ y # NoTask
                                     /\ y.fd = worker[w].fd /\ y.at = "rearm"
  <2>1. PICK f : f = x.fd /\ f \in Fds
    BY <1>1, <1>8, <1>12 DEF Serve
  <2>2. PICK y : y = [at |-> "rearm", fd |-> f]
    OBVIOUS
  <2>3. y \in WorkerState /\ y # NoTask /\ y.at = "rearm" /\ y.fd = f
    BY <1>4, <2>1, <2>2
  <2>4. worker' = [worker EXCEPT ![w] = y]
    BY <1>1, <1>12, <2>1, <2>2 DEF Serve
  <2> QED BY <1>1, <2>1, <2>3, <2>4
<1>13. ASSUME RemoveSession(w)
       PROVE  \E y \in WorkerState :
                 /\ worker' = [worker EXCEPT ![w] = y] /\ y # NoTask
                 /\ y.fd = worker[w].fd /\ y.at = "close" /\ y.then = worker[w].then
  <2>1. x \in [at : {"remove", "close"}, fd : Fds, then : {"cleanup", "done"}]
    BY <1>1, <1>2, <1>13 DEF RemoveSession
  <2>2. PICK f, t : f = x.fd /\ t = x.then /\ f \in Fds /\ t \in {"cleanup", "done"}
    BY <2>1
  <2>3. PICK y : y = [x EXCEPT !.at = "close"]
    OBVIOUS
  <2>4. y = [at |-> "close", fd |-> f, then |-> t]
    BY <2>1, <2>2, <2>3
  <2>5. y \in WorkerState /\ y # NoTask /\ y.at = "close" /\ y.fd = f /\ y.then = t
    BY <1>6, <2>2, <2>4
  <2>6. worker' = [worker EXCEPT ![w] = y]
    BY <1>1, <1>13, <2>3 DEF RemoveSession
  <2> QED BY <1>1, <2>2, <2>5, <2>6
<1>14. ASSUME Close(w)
       PROVE  \E y \in WorkerState :
                 /\ worker' = [worker EXCEPT ![w] = y]
                 /\ worker[w].then = "cleanup" =>
                       y # NoTask /\ y.fd = worker[w].fd /\ y.at = "cleanup"
                 /\ worker[w].then = "done" => y = NoTask
  <2>1. x \in [at : {"remove", "close"}, fd : Fds, then : {"cleanup", "done"}]
    BY <1>1, <1>2, <1>14 DEF Close
  <2>2. PICK f, t : f = x.fd /\ t = x.then /\ f \in Fds /\ t \in {"cleanup", "done"}
    BY <2>1
  <2>3. PICK y : y = IF t = "cleanup" THEN [at |-> "cleanup", fd |-> f] ELSE NoTask
    OBVIOUS
  <2>4. worker' = [worker EXCEPT ![w] = y]
    BY <1>1, <1>14, <2>2, <2>3 DEF Close
  <2>5. CASE t = "cleanup"
    <3>1. y \in WorkerState /\ y # NoTask /\ y.at = "cleanup" /\ y.fd = f
      BY <1>4, <2>2, <2>3, <2>5
    <3> QED BY <1>1, <2>2, <2>4, <2>5, <3>1
  <2>6. CASE t = "done"
    <3>1. y = NoTask
      BY <2>3, <2>6
    <3> QED BY <1>1, <1>7, <2>2, <2>4, <2>6, <3>1
  <2> QED BY <2>2, <2>5, <2>6
<1>15. ASSUME Cleanup(w)
       PROVE  \E y \in WorkerState :
                 /\ worker' = [worker EXCEPT ![w] = y]
                 /\ \/ y = NoTask
                    \/ y # NoTask /\ y.fd = worker[w].fd /\ y.at = "unwatch"
                 /\ session[worker[w].fd] = None => y # NoTask
  <2>1. PICK f : f = x.fd /\ f \in Fds
    BY <1>1, <1>8, <1>15 DEF Cleanup
  <2>2. PICK y : y = IF hasSession(f) THEN [at |-> "unwatch", fd |-> f] ELSE NoTask
    OBVIOUS
  <2>3. worker' = [worker EXCEPT ![w] = y]
    BY <1>1, <1>15, <2>1, <2>2 DEF Cleanup
  <2>4. CASE hasSession(f)
    <3>1. y \in WorkerState /\ y # NoTask /\ y.at = "unwatch" /\ y.fd = f
      BY <1>4, <2>1, <2>2, <2>4
    <3> QED BY <1>1, <2>1, <2>3, <3>1
  <2>5. CASE ~ hasSession(f)
    <3>1. y = NoTask
      BY <2>2, <2>5
    <3> QED BY <1>1, <1>7, <2>1, <2>3, <2>5, <3>1 DEF hasSession
  <2> QED BY <2>4, <2>5
<1>16. ASSUME Unwatch(w)
       PROVE  \E y \in WorkerState : /\ worker' = [worker EXCEPT ![w] = y] /\ y # NoTask
                                     /\ y.fd = worker[w].fd /\ y.at = "untimer"
  <2>1. x.at = "unwatch"
    BY <1>1, <1>16 DEF Unwatch
  <2>2. PICK f : f = x.fd /\ f \in Fds
    BY <1>8, <2>1
  <2>3. PICK y : y = [x EXCEPT !.at = "untimer"]
    OBVIOUS
  <2>4. y = [at |-> "untimer", fd |-> f]
    <3>1. x \in [at : {"start", "cleanup", "unwatch", "untimer", "rearm"}, fd : Fds]
      BY <1>1, <2>1 DEF WorkerState, NoTask
    <3> QED BY <2>2, <2>3, <3>1
  <2>5. y \in WorkerState /\ y # NoTask /\ y.at = "untimer" /\ y.fd = f
    BY <1>4, <2>2, <2>4
  <2>6. worker' = [worker EXCEPT ![w] = y]
    BY <1>1, <1>16, <2>3 DEF Unwatch
  <2> QED BY <1>1, <2>2, <2>5, <2>6
<1>17. ASSUME CancelTimer(w)
       PROVE  \E y \in WorkerState :
                 /\ worker' = [worker EXCEPT ![w] = y] /\ y # NoTask
                 /\ y.fd = worker[w].fd /\ y.at = "remove" /\ y.then = "done"
  <2>1. PICK f : f = x.fd /\ f \in Fds
    BY <1>1, <1>8, <1>17 DEF CancelTimer
  <2>2. PICK y : y = [at |-> "remove", fd |-> f, then |-> "done"]
    OBVIOUS
  <2>3. y \in WorkerState /\ y # NoTask /\ y.at = "remove" /\ y.fd = f /\ y.then = "done"
    BY <1>6, <2>1, <2>2
  <2>4. worker' = [worker EXCEPT ![w] = y]
    BY <1>1, <1>17, <2>1, <2>2 DEF CancelTimer
  <2> QED BY <1>1, <2>1, <2>3, <2>4
<1> QED BY <1>9, <1>10, <1>11, <1>12, <1>13, <1>14, <1>15, <1>16, <1>17

\* Where the event loop goes.
LEMMA LoopSteps ==
    ASSUME CTypes
    PROVE  /\ \A k \in Peers, f \in Fds :
                 Accept(k, f) => /\ loop' \in Loops /\ loop' # Waiting
                                 /\ loop'.at = "session" /\ loop'.fd = f /\ loop'.k = k
           /\ CreateSession => /\ loop' \in Loops /\ loop.fd \in Fds /\ loop.k \in Peers
                               /\ loop'.at = "watch" /\ loop'.fd = loop.fd /\ loop'.k = loop.k
           /\ AddEvent => /\ loop' \in Loops /\ loop.fd \in Fds
                          /\ loop'.at = "timer" /\ loop'.fd = loop.fd /\ loop'.k = loop.k
           /\ StartTimer => loop' \in Loops /\ loop.fd \in Fds /\ loop'.at = "wait"
<1>1. PICK x : x = loop /\ x \in Loops
  BY DEF CTypes
<1>2. x.at \in {"session", "watch", "timer"} =>
         /\ x.fd \in Fds /\ x.k \in Peers
         /\ x \in [at : {"session", "watch", "timer"}, fd : Fds, k : Peers]
  BY <1>1, LoopParts
<1>3. ASSUME NEW a \in {"session", "watch", "timer"}, NEW f \in Fds, NEW k \in Peers,
             NEW y, y = [at |-> a, fd |-> f, k |-> k]
      PROVE  y \in Loops /\ y # Waiting /\ y.at = a /\ y.fd = f /\ y.k = k
  BY <1>3 DEF Loops, Waiting
<1>4. Waiting \in Loops /\ Waiting.at = "wait"
  BY DEF Loops, Waiting
<1>5. ASSUME NEW k \in Peers, NEW f \in Fds, Accept(k, f)
      PROVE  /\ loop' \in Loops /\ loop' # Waiting
             /\ loop'.at = "session" /\ loop'.fd = f /\ loop'.k = k
  <2>1. loop' = [at |-> "session", fd |-> f, k |-> k]
    BY <1>5 DEF Accept
  <2> QED BY <1>3, <2>1
<1>6. ASSUME CreateSession
      PROVE  /\ loop' \in Loops /\ loop.fd \in Fds /\ loop.k \in Peers
             /\ loop'.at = "watch" /\ loop'.fd = loop.fd /\ loop'.k = loop.k
  <2>1. x.at = "session"
    BY <1>1, <1>6 DEF CreateSession
  <2>2. /\ x.fd \in Fds /\ x.k \in Peers
        /\ x \in [at : {"session", "watch", "timer"}, fd : Fds, k : Peers]
    BY <1>2, <2>1
  <2>3. [x EXCEPT !.at = "watch"] = [at |-> "watch", fd |-> x.fd, k |-> x.k]
    BY <2>2
  <2>4. loop' = [at |-> "watch", fd |-> x.fd, k |-> x.k]
    BY <1>1, <1>6, <2>3 DEF CreateSession
  <2> QED BY <1>1, <1>3, <2>2, <2>4
<1>7. ASSUME AddEvent
      PROVE  /\ loop' \in Loops /\ loop.fd \in Fds /\ loop.k \in Peers
             /\ loop'.at = "timer" /\ loop'.fd = loop.fd /\ loop'.k = loop.k
  <2>1. x.at = "watch"
    BY <1>1, <1>7 DEF AddEvent
  <2>2. /\ x.fd \in Fds /\ x.k \in Peers
        /\ x \in [at : {"session", "watch", "timer"}, fd : Fds, k : Peers]
    BY <1>2, <2>1
  <2>3. [x EXCEPT !.at = "timer"] = [at |-> "timer", fd |-> x.fd, k |-> x.k]
    BY <2>2
  <2>4. loop' = [at |-> "timer", fd |-> x.fd, k |-> x.k]
    BY <1>1, <1>7, <2>3 DEF AddEvent
  <2> QED BY <1>1, <1>3, <2>2, <2>4
<1>8. ASSUME StartTimer
      PROVE  loop' \in Loops /\ loop.fd \in Fds /\ loop'.at = "wait"
  <2>1. x.at = "timer"
    BY <1>1, <1>8 DEF StartTimer
  <2>2. x.fd \in Fds
    BY <1>2, <2>1
  <2> QED BY <1>1, <1>4, <1>8, <2>2 DEF StartTimer
<1> QED BY <1>5, <1>6, <1>7, <1>8

LEMMA TimerTyped ==
    ASSUME CTypes, NEW f \in Fds, AddTimer(f)
    PROVE  /\ secretTable' \in [Fds -> {None} \cup (0 .. MaxClock + Timeout)]
           /\ minHeap' \subseteq Fds \X (0 .. MaxClock + Timeout)
<1>1. clock + Timeout \in 0 .. MaxClock + Timeout
  BY ConnectionsAssumption DEF CTypes
<1> QED BY <1>1 DEF AddTimer, CTypes

LEMMA ClientsTyped ==
    ASSUME CTypes, (\E k \in Peers : Connect(k) \/ Send(k) \/ ReadReplies(k) \/ Finish(k)) \/ Tick
    PROVE  CTypes'
<1>1. ASSUME NEW k \in Peers, Connect(k) PROVE CTypes'
  BY <1>1 DEF CTypes, Connect, timers
<1>2. ASSUME NEW k \in Peers, Send(k) PROVE CTypes'
  <2>1. sends' \in [Peers -> 0 .. MaxSends]
    <3>1. sends[k] + 1 \in 0 .. MaxSends
      BY <1>2, ConnectionsAssumption DEF CTypes, Send
    <3> QED BY <1>2, <3>1 DEF CTypes, Send
  <2> QED BY <1>2, <2>1 DEF CTypes, Send, timers
<1>3. ASSUME NEW k \in Peers, ReadReplies(k) \/ Finish(k) PROVE CTypes'
  BY <1>3 DEF CTypes, ReadReplies, Finish, timers
<1>4. CASE Tick
  <2>1. clock' \in 0 .. MaxClock
    BY <1>4, ConnectionsAssumption DEF CTypes, Tick
  <2> QED BY <1>4, <2>1 DEF CTypes, Tick, kernel, timers
<1> QED BY <1>1, <1>2, <1>3, <1>4

LEMMA EventLoopTyped == ASSUME CTypes, EventLoop PROVE CTypes'
<1>1. ASSUME NEW k \in Peers, NEW f \in Fds, Accept(k, f) PROVE CTypes'
  <2>1. loop' \in Loops
    BY <1>1, LoopSteps
  <2>2. overlapped' \in BOOLEAN
    BY <1>1 DEF Accept
  <2> QED BY <1>1, <2>1, <2>2 DEF CTypes, Accept, timers
<1>2. CASE CreateSession
  <2>1. loop' \in Loops /\ loop.fd \in Fds
    BY <1>2, LoopSteps
  <2>0. loop.k \in Peers
    BY <1>2, LoopSteps
  <2>2. session' \in [Fds -> Peers \cup {None}] /\ freed' \subseteq Peers
    BY <1>2, <2>0, <2>1 DEF CTypes, CreateSession
  <2> QED BY <1>2, <2>1, <2>2 DEF CTypes, CreateSession, kernel, timers
<1>3. CASE AddEvent
  <2>1. loop' \in Loops /\ loop.fd \in Fds
    BY <1>3, LoopSteps
  <2> QED BY <1>3, <2>1 DEF CTypes, AddEvent, timers
<1>4. CASE StartTimer
  <2>1. loop' \in Loops /\ loop.fd \in Fds
    BY <1>4, LoopSteps
  <2>2. /\ secretTable' \in [Fds -> {None} \cup (0 .. MaxClock + Timeout)]
        /\ minHeap' \subseteq Fds \X (0 .. MaxClock + Timeout)
    BY <1>4, <2>1, TimerTyped DEF StartTimer
  <2> QED BY <1>4, <2>1, <2>2 DEF CTypes, StartTimer, kernel
<1>5. ASSUME NEW f \in Fds, Event(f) PROVE CTypes'
  <2>1. /\ secretTable' \in [Fds -> {None} \cup (0 .. MaxClock + Timeout)]
        /\ minHeap' \subseteq Fds \X (0 .. MaxClock + Timeout)
    BY <1>5, TimerTyped DEF Event
  <2>2. tasks' \in Seq(Fds)
    BY <1>5, AppendProperties DEF CTypes, Event
  <2> QED BY <1>5, <2>1, <2>2 DEF CTypes, Event
<1>6. ASSUME NEW t \in minHeap, HandleTimeout(t) PROVE CTypes'
  <2>1. t[1] \in Fds
    BY DEF CTypes
  <2>2. /\ secretTable' \in [Fds -> {None} \cup (0 .. MaxClock + Timeout)]
        /\ minHeap' \subseteq Fds \X (0 .. MaxClock + Timeout)
        /\ watch' \in [Fds -> {"none", "armed", "disarmed"}]
    BY <1>6, <2>1 DEF CTypes, HandleTimeout, timers
  <2>3. loop' \in Loops
    BY <1>6, <2>1 DEF CTypes, HandleTimeout, Loops
  <2> QED BY <1>6, <2>2, <2>3 DEF CTypes, HandleTimeout
<1> QED BY <1>1, <1>2, <1>3, <1>4, <1>5, <1>6 DEF EventLoop

LEMMA TaskTyped == ASSUME CTypes, NEW w \in Workers, Task(w) PROVE CTypes'
<1>1. /\ worker' \in [Workers -> WorkerState]
      /\ worker[w] # NoTask => worker[w].fd \in Fds
  <2>1. worker[w] \in WorkerState
    BY DEF CTypes
  <2>2. worker[w] # NoTask => worker[w].fd \in Fds
    BY <2>1, WorkerParts
  <2>3. \E y \in WorkerState : worker' = [worker EXCEPT ![w] = y]
    <3>1. CASE Rearm(w)
      BY <3>1 DEF Rearm, WorkerState
    <3> QED BY <3>1, TaskSteps DEF Task
  <2> QED BY <2>2, <2>3 DEF CTypes
<1>2. worker[w].at # "idle" => worker[w] # NoTask
  BY DEF NoTask
<1>3. CASE TakeTask(w)
  <2>1. tasks' \in Seq(Fds)
    BY <1>3, HeadTailProperties DEF CTypes, TakeTask
  <2> QED BY <1>1, <1>3, <2>1 DEF CTypes, TakeTask, kernel, timers
<1>4. CASE GetSession(w)
  BY <1>1, <1>4 DEF CTypes, GetSession, kernel, timers
<1>5. CASE Read(w)
  BY <1>1, <1>5 DEF CTypes, Read, timers
<1>6. CASE Serve(w)
  BY <1>1, <1>6 DEF CTypes, Serve, kernel, timers
<1>7. CASE Rearm(w)
  <2>1. worker[w].fd \in Fds
    BY <1>1, <1>2, <1>7 DEF Rearm
  <2>2. watch' \in [Fds -> {"none", "armed", "disarmed"}]
    BY <1>7, <2>1 DEF CTypes, Rearm
  <2> QED BY <1>1, <1>7, <2>2 DEF CTypes, Rearm, timers
<1>8. CASE RemoveSession(w)
  <2>1. worker[w].fd \in Fds
    BY <1>1, <1>2, <1>8 DEF RemoveSession
  <2>2. session' \in [Fds -> Peers \cup {None}] /\ freed' \subseteq Peers
    BY <1>8, <2>1 DEF CTypes, RemoveSession
  <2> QED BY <1>1, <1>8, <2>2 DEF CTypes, RemoveSession, kernel, timers
<1>9. CASE Close(w)
  <2>1. worker[w].fd \in Fds
    BY <1>1, <1>2, <1>9 DEF Close
  <2>2. /\ conn' \in [Fds -> Peers \cup {None}]
        /\ watch' \in [Fds -> {"none", "armed", "disarmed"}]
        /\ peer' \in [Peers -> {"absent", "backlog", "open", "finished", "closed"}]
    BY <1>9, <2>1 DEF CTypes, Close
  <2> QED BY <1>1, <1>9, <2>2 DEF CTypes, Close, timers
<1>10. CASE Cleanup(w)
  BY <1>1, <1>10 DEF CTypes, Cleanup, kernel, timers
<1>11. CASE Unwatch(w)
  <2>1. worker[w].fd \in Fds
    BY <1>1, <1>2, <1>11 DEF Unwatch
  <2>2. watch' \in [Fds -> {"none", "armed", "disarmed"}]
    BY <1>11, <2>1 DEF CTypes, Unwatch
  <2> QED BY <1>1, <1>11, <2>2 DEF CTypes, Unwatch, timers
<1>12. CASE CancelTimer(w)
  <2>1. worker[w].fd \in Fds
    BY <1>1, <1>2, <1>12 DEF CancelTimer
  <2>2. secretTable' \in [Fds -> {None} \cup (0 .. MaxClock + Timeout)]
    BY <1>12, <2>1 DEF CTypes, CancelTimer
  <2> QED BY <1>1, <1>12, <2>2 DEF CTypes, CancelTimer, kernel
<1> QED BY <1>3, <1>4, <1>5, <1>6, <1>7, <1>8, <1>9, <1>10, <1>11, <1>12 DEF Task

LEMMA StepCTypes == CTypes /\ [CNext]_connVars => CTypes'
<1> SUFFICES ASSUME CTypes, [CNext]_connVars PROVE CTypes'
  OBVIOUS
<1>1. CASE UNCHANGED connVars
  BY <1>1 DEF CTypes, connVars, kernel, timers
<1> QED BY <1>1, ClientsTyped, EventLoopTyped, TaskTyped DEF CNext

LEMMA InitCTypes == CInit => CTypes
<1> SUFFICES ASSUME CInit PROVE CTypes
  OBVIOUS
<1>1. tasks \in Seq(Fds)
  BY EmptySeq DEF CInit
<1>2. clock \in 0 .. MaxClock /\ sends \in [Peers -> 0 .. MaxSends]
  BY ConnectionsAssumption DEF CInit
<1>3. NoTask \in WorkerState /\ loop \in Loops
  BY DEF CInit, WorkerState, Loops
<1>4. worker \in [Workers -> WorkerState]
  BY <1>3 DEF CInit
<1> QED BY <1>1, <1>2, <1>3, <1>4 DEF CInit, CTypes

-----------------------------------------------------------------------------
(***************************************************************************)
(* Connections and sessions, however clean-ups overlap.                    *)
(***************************************************************************)

\* What the kernel's tables say is touched by clients, accept and close alone.
LEMMA KernelRests ==
    ASSUME [CNext]_connVars
    PROVE  \/ \E k \in Peers : Connect(k) \/ Finish(k)
           \/ \E k \in Peers, f \in Fds : Accept(k, f)
           \/ \E w \in Workers : Close(w)
           \/ UNCHANGED <<peer, conn>>
<1>1. CASE (\E k \in Peers : Connect(k) \/ Send(k) \/ ReadReplies(k) \/ Finish(k)) \/ Tick
  BY <1>1 DEF Send, ReadReplies, Tick, kernel
<1>2. CASE EventLoop
  BY <1>2 DEF EventLoop, CreateSession, AddEvent, StartTimer, Event, HandleTimeout, kernel
<1>3. ASSUME NEW w \in Workers, Task(w) PROVE Close(w) \/ UNCHANGED <<peer, conn>>
  BY <1>3 DEF Task, TakeTask, GetSession, Read, Serve, Rearm, RemoveSession, Cleanup, Unwatch,
              CancelTimer, kernel
<1>4. CASE UNCHANGED connVars
  BY <1>4 DEF connVars, kernel
<1> QED BY <1>1, <1>2, <1>3, <1>4 DEF CNext

\* The descriptor a task in close is for.
LEMMA CloseAt ==
    ASSUME CTypes, NEW w \in Workers, Close(w)
    PROVE  /\ worker[w].fd \in Fds
           /\ conn' = [conn EXCEPT ![worker[w].fd] = None]
           /\ peer' = [k \in Peers |-> IF k = conn[worker[w].fd] THEN "closed" ELSE peer[k]]
<1>1. worker[w] \in WorkerState /\ worker[w] # NoTask
  BY DEF CTypes, Close, NoTask
<1> QED BY <1>1, WorkerParts DEF Close

LEMMA StepConnectedOnce == CTypes /\ ConnectedOnce /\ [CNext]_connVars => ConnectedOnce'
<1> SUFFICES ASSUME CTypes, ConnectedOnce, [CNext]_connVars PROVE ConnectedOnce'
  OBVIOUS
<1>1. peer \in [Peers -> {"absent", "backlog", "open", "finished", "closed"}]
      /\ conn \in [Fds -> Peers \cup {None}] /\ None \notin Peers
  BY ConnectionsAssumption DEF CTypes
<1>2. ASSUME NEW k \in Peers, Connect(k) \/ Finish(k) PROVE ConnectedOnce'
  <2>1. conn' = conn /\ \A l \in Peers : peer'[l] \in {"open", "finished"}
                                         <=> peer[l] \in {"open", "finished"}
    BY <1>1, <1>2 DEF Connect, Finish
  <2> QED BY <2>1 DEF ConnectedOnce
<1>3. ASSUME NEW k \in Peers, NEW f \in Fds, Accept(k, f) PROVE ConnectedOnce'
  <2>1. /\ \A l \in Peers : peer'[l] = IF l = k THEN "open" ELSE peer[l]
        /\ \A g \in Fds : conn'[g] = IF g = f THEN k ELSE conn[g]
        /\ peer[k] = "backlog" /\ conn[f] = None
    BY <1>1, <1>3 DEF Accept
  <2>2. \A g \in Fds : conn[g] # k
    BY <2>1 DEF ConnectedOnce
  <2> QED BY <1>1, <2>1, <2>2 DEF ConnectedOnce
<1>4. ASSUME NEW w \in Workers, Close(w) PROVE ConnectedOnce'
  <2>1. PICK f \in Fds : /\ \A g \in Fds : conn'[g] = IF g = f THEN None ELSE conn[g]
                         /\ \A k \in Peers : peer'[k] = IF k = conn[f] THEN "closed" ELSE peer[k]
    BY <1>1, <1>4, CloseAt
  <2> QED BY <1>1, <2>1 DEF ConnectedOnce
<1>5. CASE UNCHANGED <<peer, conn>>
  BY <1>5 DEF ConnectedOnce
<1> QED BY <1>2, <1>3, <1>4, <1>5, KernelRests

LEMMA SingleOrNone ==
    ASSUME NEW S, NEW P \in BOOLEAN, P <=> S # {}, \A f, g \in S : f = g
    PROVE  Cardinality(S) = IF P THEN 1 ELSE 0
<1>1. CASE S = {}
  BY <1>1, FS_EmptySet
<1>2. CASE S # {}
  <2>1. PICK f : S = {f}
    BY <1>2
  <2> QED BY <1>2, <2>1, FS_Singleton
<1> QED BY <1>1, <1>2

LEMMA CTypesImply == CTypes /\ ConnectedOnce => CTypeOK
<1> SUFFICES ASSUME CTypes, ConnectedOnce PROVE CTypeOK
  OBVIOUS
<1>1. ASSUME NEW k \in Peers
      PROVE  Cardinality({f \in Fds : conn[f] = k}) =
                (IF peer[k] \in {"open", "finished"} THEN 1 ELSE 0)
  <2>1. None \notin Peers
    BY ConnectionsAssumption
  <2>2. (peer[k] \in {"open", "finished"}) <=> {f \in Fds : conn[f] = k} # {}
    BY DEF ConnectedOnce
  <2>3. \A f, g \in {h \in Fds : conn[h] = k} : f = g
    BY <2>1 DEF ConnectedOnce
  <2>4. (peer[k] \in {"open", "finished"}) \in BOOLEAN
    OBVIOUS
  <2> QED BY <2>2, <2>3, <2>4, SingleOrNone
<1> QED BY <1>1 DEF CTypes, CTypeOK, Loops

\* Types, and each connection the server has accepted and not closed is at exactly one
\* descriptor: accept takes a free number and close gives it back.
THEOREM ConnectionsTyped == CSpec => []CTypeOK
<1>1. CInit => CTypes /\ ConnectedOnce
  <2>1. CInit => ConnectedOnce
    BY ConnectionsAssumption DEF CInit, ConnectedOnce
  <2> QED BY <2>1, InitCTypes
<1>2. CTypes /\ ConnectedOnce /\ [CNext]_connVars => CTypes' /\ ConnectedOnce'
  BY StepCTypes, StepConnectedOnce
<1>3. CTypes /\ ConnectedOnce => CTypeOK
  BY CTypesImply
<1> QED BY <1>1, <1>2, <1>3, PTL DEF CSpec

\* The slots are written by createSession and removeSession alone.
LEMMA SlotsRest ==
    ASSUME [CNext]_connVars
    PROVE  \/ CreateSession
           \/ \E w \in Workers : RemoveSession(w)
           \/ UNCHANGED <<session, freed>>
<1>1. CASE (\E k \in Peers : Connect(k) \/ Send(k) \/ ReadReplies(k) \/ Finish(k)) \/ Tick
  BY <1>1 DEF Connect, Send, ReadReplies, Finish, Tick
<1>2. CASE EventLoop
  BY <1>2 DEF EventLoop, Accept, AddEvent, StartTimer, Event, HandleTimeout
<1>3. ASSUME NEW w \in Workers, Task(w) PROVE RemoveSession(w) \/ UNCHANGED <<session, freed>>
  BY <1>3 DEF Task, TakeTask, GetSession, Read, Serve, Rearm, Close, Cleanup, Unwatch, CancelTimer
<1>4. CASE UNCHANGED connVars
  BY <1>4 DEF connVars
<1> QED BY <1>1, <1>2, <1>3, <1>4 DEF CNext

\* Who has been accepted stays so, and only accept adds one.
LEMMA AcceptedStays ==
    ASSUME CTypes, [CNext]_connVars, NEW k \in Peers, k \in Accepted
    PROVE  k \in Accepted'
<1>1. peer \in [Peers -> {"absent", "backlog", "open", "finished", "closed"}]
  BY DEF CTypes
<1>2. ASSUME NEW l \in Peers, Connect(l) \/ Finish(l) PROVE k \in Accepted'
  BY <1>1, <1>2 DEF Connect, Finish, Accepted
<1>3. ASSUME NEW l \in Peers, NEW f \in Fds, Accept(l, f) PROVE k \in Accepted'
  BY <1>1, <1>3 DEF Accept, Accepted
<1>4. ASSUME NEW w \in Workers, Close(w) PROVE k \in Accepted'
  BY <1>1, <1>4, CloseAt DEF Accepted
<1>5. CASE UNCHANGED <<peer, conn>>
  BY <1>5 DEF Accepted
<1> QED BY <1>2, <1>3, <1>4, <1>5, KernelRests

\* The loop comes to createSession only from accept.
LEMMA LoopAtSession ==
    ASSUME CTypes, [CNext]_connVars, loop'.at = "session"
    PROVE  (\E k \in Peers, f \in Fds : Accept(k, f)) \/ loop' = loop
<1>1. CASE (\E k \in Peers : Connect(k) \/ Send(k) \/ ReadReplies(k) \/ Finish(k)) \/ Tick
  BY <1>1 DEF Connect, Send, ReadReplies, Finish, Tick
<1>2. CASE CreateSession \/ AddEvent \/ StartTimer
  BY <1>2, LoopSteps
<1>3. CASE \E f \in Fds : Event(f)
  BY <1>3 DEF Event
<1>4. CASE \E t \in minHeap : HandleTimeout(t)
  BY <1>4 DEF HandleTimeout
<1>5. CASE \E w \in Workers : Task(w)
  BY <1>5 DEF Task, TakeTask, GetSession, Read, Serve, Rearm, RemoveSession, Close, Cleanup,
              Unwatch, CancelTimer
<1>6. CASE UNCHANGED connVars
  BY <1>6 DEF connVars
<1> QED BY <1>1, <1>2, <1>3, <1>4, <1>5, <1>6 DEF CNext, EventLoop

LEMMA StepSessionsOnce ==
    CTypes /\ ConnectedOnce /\ SessionsOnce /\ [CNext]_connVars => SessionsOnce'
<1> SUFFICES ASSUME CTypes, ConnectedOnce, SessionsOnce, [CNext]_connVars PROVE SessionsOnce'
  OBVIOUS
<1>1. /\ conn \in [Fds -> Peers \cup {None}] /\ session \in [Fds -> Peers \cup {None}]
      /\ freed \subseteq Peers /\ None \notin Peers /\ loop \in Loops
  BY ConnectionsAssumption DEF CTypes
<1>2. CASE CreateSession
  <2>1. PICK f \in Fds, k \in Peers : f = loop.fd /\ k = loop.k
    BY <1>2, LoopSteps
  <2>2. loop'.at = "watch" /\ loop.at = "session" /\ peer' = peer
    BY <1>2, LoopSteps DEF CreateSession, kernel
  <2>3. /\ \A g \in Fds : session'[g] = IF g = f THEN k ELSE session[g]
        /\ freed' = freed \cup ({session[f]} \ {None})
    BY <1>1, <1>2, <2>1 DEF CreateSession
  <2>4. k \notin freed /\ \A g \in Fds : session[g] # k
    BY <2>1, <2>2 DEF SessionsOnce
  <2>5. k \in Accepted
    BY <2>1, <2>2 DEF SessionsOnce
  <2>6. \A g \in Fds : session'[g] \notin freed'
    BY <1>1, <2>3, <2>4 DEF SessionsOnce
  <2>7. \A g, h \in Fds : session'[g] = session'[h] /\ session'[g] # None => g = h
    BY <2>3, <2>4 DEF SessionsOnce
  <2>8. Accepted' = Accepted
    BY <2>2 DEF Accepted
  <2>9. /\ \A j \in freed' : j \in Accepted'
        /\ \A g \in Fds : session'[g] # None => session'[g] \in Accepted'
    BY <2>3, <2>5, <2>8 DEF SessionsOnce
  <2> QED BY <2>2, <2>6, <2>7, <2>9 DEF SessionsOnce, Accepted
<1>3. ASSUME NEW w \in Workers, RemoveSession(w) PROVE SessionsOnce'
  <2>1. PICK f \in Fds : f = worker[w].fd
    <3>1. worker[w] \in WorkerState /\ worker[w] # NoTask
      BY <1>3 DEF CTypes, RemoveSession, NoTask
    <3> QED BY <3>1, WorkerParts
  <2>2. peer' = peer /\ conn' = conn /\ loop' = loop
    BY <1>3 DEF RemoveSession, kernel
  <2>3. /\ \A g \in Fds : session'[g] = IF g = f THEN None ELSE session[g]
        /\ freed' = freed \cup ({session[f]} \ {None})
    BY <1>1, <1>3, <2>1 DEF RemoveSession
  <2>4. \A g \in Fds : session'[g] \notin freed'
    BY <1>1, <2>3 DEF SessionsOnce
  <2>5. \A g, h \in Fds : session'[g] = session'[h] /\ session'[g] # None => g = h
    BY <2>3 DEF SessionsOnce
  <2>6. /\ \A k \in freed' : k \in Accepted'
        /\ \A g \in Fds : session'[g] # None => session'[g] \in Accepted'
    BY <2>2, <2>3 DEF SessionsOnce, Accepted
  <2>7. loop.at = "session" =>
           /\ loop.k \in Accepted /\ loop.k \notin freed'
           /\ \A g \in Fds : session'[g] # loop.k
    <3> SUFFICES ASSUME loop.at = "session"
                 PROVE  /\ loop.k \in Accepted /\ loop.k \notin freed'
                        /\ \A g \in Fds : session'[g] # loop.k
      OBVIOUS
    <3>1. loop.k \in Peers
      BY <1>1, LoopParts
    <3> QED BY <1>1, <2>3, <3>1 DEF SessionsOnce
  <2> QED BY <2>2, <2>4, <2>5, <2>6, <2>7 DEF SessionsOnce, Accepted
<1>4. CASE UNCHANGED <<session, freed>>
  <2>1. /\ \A k \in freed' : k \in Accepted'
        /\ \A g \in Fds : session'[g] # None => session'[g] \in Accepted'
    <3>1. \A k \in freed : k \in Accepted'
      BY <1>1, AcceptedStays DEF SessionsOnce
    <3>2. ASSUME NEW g \in Fds, session[g] # None PROVE session[g] \in Accepted'
      BY <1>1, <1>4, <3>2, AcceptedStays DEF SessionsOnce
    <3>3. \A g \in Fds : session'[g] # None => session'[g] \in Accepted'
      BY <1>4, <3>2 DEF Accepted
    <3> QED BY <1>4, <3>1, <3>3 DEF Accepted
  <2>2. ASSUME loop'.at = "session"
        PROVE  /\ loop'.k \in Accepted' /\ loop'.k \notin freed
               /\ \A g \in Fds : session[g] # loop'.k
    <3>1. ASSUME NEW k \in Peers, NEW f \in Fds, Accept(k, f)
          PROVE  /\ loop'.k \in Accepted' /\ loop'.k \notin freed
                 /\ \A g \in Fds : session[g] # loop'.k
      <4>1. loop'.k = k /\ k \notin Accepted
        BY <3>1, LoopSteps DEF Accept, Accepted
      <4>2. k \in Accepted'
        BY <3>1 DEF CTypes, Accept, Accepted
      <4> QED BY <1>1, <4>1, <4>2 DEF SessionsOnce
    <3>2. CASE loop' = loop
      <4>1. loop.at = "session" /\ loop.k \in Peers
        BY <1>1, <2>2, <3>2, LoopParts
      <4>2. loop.k \in Accepted /\ loop.k \notin freed /\ \A g \in Fds : session[g] # loop.k
        BY <4>1 DEF SessionsOnce
      <4>3. loop.k \in Accepted'
        BY <4>1, <4>2, AcceptedStays
      <4> QED BY <3>2, <4>2, <4>3 DEF Accepted
    <3> QED BY <2>2, <3>1, <3>2, LoopAtSession
  <2> QED BY <1>4, <2>1, <2>2 DEF SessionsOnce, Accepted
<1> QED BY <1>2, <1>3, <1>4, SlotsRest

\* Nobody but the loop fills a slot, and cancelTimer waits for the mutex the loop holds.
LEMMA StepStopped == CTypes /\ Stopped /\ [CNext]_connVars => Stopped'
<1> SUFFICES ASSUME CTypes, Stopped, [CNext]_connVars PROVE Stopped'
  OBVIOUS
<1>1. /\ session \in [Fds -> Peers \cup {None}] /\ loop \in Loops
      /\ secretTable \in [Fds -> {None} \cup (0 .. MaxClock + Timeout)]
      /\ \A t \in minHeap : t[1] \in Fds /\ t[2] # None
  BY ConnectionsAssumption DEF CTypes
<1>2. ASSUME loop' = loop, secretTable' = secretTable,
             \A g \in Fds : session[g] = None => session'[g] = None
      PROVE  Stopped'
  BY <1>1, <1>2, LoopParts DEF Stopped
<1>3. CASE (\E k \in Peers : Connect(k) \/ Send(k) \/ ReadReplies(k) \/ Finish(k)) \/ Tick
  BY <1>2, <1>3 DEF Connect, Send, ReadReplies, Finish, Tick, timers
<1>4. CASE \/ \E k \in Peers, f \in Fds : Accept(k, f)
           \/ CreateSession \/ AddEvent \/ StartTimer
  BY <1>4, LoopSteps DEF Stopped
<1>5. ASSUME NEW f \in Fds, Event(f) PROVE Stopped'
  BY <1>5 DEF Event, Stopped, Waiting
<1>6. ASSUME NEW t \in minHeap, HandleTimeout(t) PROVE Stopped'
  <2>1. PICK f \in Fds : f = t[1] /\ t[2] # None
    BY <1>1
  <2>2. CASE loop' = loop
    BY <1>6, <2>2 DEF HandleTimeout, Stopped, Waiting
  <2>3. CASE /\ t[2] = secretTable[f] /\ session[f] = None
             /\ loop' = [at |-> "stuck", fd |-> f] /\ UNCHANGED timers
    BY <1>6, <2>1, <2>3 DEF HandleTimeout, Stopped, timers
  <2> QED BY <1>6, <2>1, <2>2, <2>3 DEF HandleTimeout, hasSession
<1>7. ASSUME NEW w \in Workers, Task(w) PROVE Stopped'
  <2>1. CASE CancelTimer(w)
    BY <2>1 DEF CancelTimer, Stopped
  <2>2. CASE RemoveSession(w)
    <3>1. \A g \in Fds : session[g] = None => session'[g] = None
      BY <1>1, <2>2 DEF RemoveSession
    <3> QED BY <1>2, <2>2, <3>1 DEF RemoveSession, timers
  <2>3. CASE ~ CancelTimer(w) /\ ~ RemoveSession(w)
    BY <1>2, <1>7, <2>3 DEF Task, TakeTask, GetSession, Read, Serve, Rearm, Close, Cleanup,
                            Unwatch, timers
  <2> QED BY <2>1, <2>2, <2>3
<1>8. CASE UNCHANGED connVars
  BY <1>2, <1>8 DEF connVars, timers
<1> QED BY <1>3, <1>4, <1>5, <1>6, <1>7, <1>8 DEF CNext, EventLoop

LEMMA InitTablesInv == CInit => TablesInv
<1> SUFFICES ASSUME CInit PROVE TablesInv
  OBVIOUS
<1>1. ConnectedOnce
  BY ConnectionsAssumption DEF CInit, ConnectedOnce
<1>2. SessionsOnce
  BY DEF CInit, SessionsOnce, Waiting
<1>3. Stopped
  BY DEF CInit, Stopped, Waiting
<1> QED BY <1>1, <1>2, <1>3, InitCTypes DEF TablesInv

LEMMA StepTablesInv == TablesInv /\ [CNext]_connVars => TablesInv'
BY StepCTypes, StepConnectedOnce, StepSessionsOnce, StepStopped DEF TablesInv

\* A session in a slot has not been deleted, so createSession and removeSession delete none
\* twice, however the clean-ups of one number and the accept of the next overlap.
THEOREM SlotsNeverFreed == CSpec => []SlotNotFreed
<1>1. TablesInv => SlotNotFreed
  BY DEF TablesInv, SessionsOnce, SlotNotFreed
<1> QED BY <1>1, InitTablesInv, StepTablesInv, PTL DEF CSpec

-----------------------------------------------------------------------------
(***************************************************************************)
(* Order, while no clean-up overlaps the next use of its number.           *)
(***************************************************************************)

\* A step that leaves a descriptor alone, or at most disarms it or cancels its timer.
Rests(g) ==
    /\ conn'[g] = conn[g] /\ session'[g] = session[g]
    /\ conn[g] # None /\ peer[conn[g]] = "finished" => peer'[conn[g]] = "finished"
    /\ watch'[g] = "armed" => watch[g] = "armed"
    /\ secretTable'[g] = secretTable[g] \/ secretTable'[g] = None
    /\ Tasked(g)' <=> Tasked(g)
    /\ \A w \in Workers : At(w, g)' <=> At(w, g)
    /\ \A w \in Workers : At(w, g) => worker'[w] = worker[w]
    /\ Setup(g)' => Setup(g) /\ loop' = loop

LEMMA RestsKeeps ==
    ASSUME NEW g \in Fds, FdOK(g), Rests(g)
    PROVE  FdOK(g)'
<1>1. (Own(g)' <=> Own(g)) /\ (Free(g)' <=> Free(g))
  BY DEF Rests, Own, Free
<1>2. \A w, x \in Workers : At(w, g)' /\ At(x, g)' => w = x
  BY DEF Rests, FdOK
<1>3. Tasked(g)' => Own(g)' /\ \A w \in Workers : ~ At(w, g)'
  BY <1>1 DEF Rests, FdOK
<1>4. watch'[g] = "armed" => Own(g)' /\ Free(g)'
  BY <1>1 DEF Rests, FdOK
<1>5. ASSUME NEW w \in Workers, At(w, g)' PROVE TaskOK(w, g)'
  <2>1. At(w, g) /\ TaskOK(w, g) /\ worker'[w] = worker[w]
    BY <1>5 DEF Rests, FdOK
  <2> QED BY <1>1, <2>1 DEF Rests, TaskOK, Own
<1>6. LoopOK(g)'
  <2>1. SUFFICES ASSUME Setup(g)'
                 PROVE  /\ Free(g)' /\ conn'[g] # None /\ conn'[g] = loop'.k
                        /\ (loop'.at # "session" => Own(g)')
    BY DEF LoopOK
  <2> QED BY <1>1, <2>1 DEF Rests, FdOK, LoopOK
<1>7. TimerOK(g)'
  BY DEF Rests, FdOK, TimerOK
<1> QED BY <1>2, <1>3, <1>4, <1>5, <1>6, <1>7 DEF FdOK

\* A step of a thread's task, or its start or end, touches no other descriptor's tasks.
LEMMA TaskElsewhere ==
    ASSUME CTypes, NEW w \in Workers, NEW f \in Fds, NEW y,
           worker' = [worker EXCEPT ![w] = y],
           worker[w] # NoTask => worker[w].fd = f, y = NoTask \/ y.fd = f
    PROVE  /\ worker'[w] = y /\ \A x \in Workers : x # w => worker'[x] = worker[x]
           /\ \A g \in Fds : g # f =>
                 /\ \A x \in Workers : At(x, g)' <=> At(x, g)
                 /\ \A x \in Workers : At(x, g) => worker'[x] = worker[x]
<1>1. worker'[w] = y /\ \A x \in Workers : x # w => worker'[x] = worker[x]
  BY DEF CTypes
<1>2. ASSUME NEW g \in Fds, g # f, NEW x \in Workers
      PROVE  (At(x, g)' <=> At(x, g)) /\ (At(x, g) => worker'[x] = worker[x])
  <2>1. CASE x = w
    BY <1>1, <1>2, <2>1 DEF At
  <2>2. CASE x # w
    BY <1>1, <2>2 DEF At
  <2> QED BY <2>1, <2>2
<1> QED BY <1>1, <1>2

\* What the task on a descriptor knows of its surroundings, before and after a step.
LEMMA TaskHere ==
    ASSUME CTypes, NEW w \in Workers, NEW f \in Fds, NEW y, FdOK(f), At(w, f),
           worker' = [worker EXCEPT ![w] = y], tasks' = tasks, loop' = loop
    PROVE  /\ watch[f] # "armed" /\ worker'[w] = y
           /\ \A x \in Workers : At(x, f)' => x = w
           /\ ~ Tasked(f)' /\ ~ Setup(f)'
<1>1. worker'[w] = y /\ \A x \in Workers : x # w => worker'[x] = worker[x]
  BY DEF CTypes
<1>2. ~ Tasked(f) /\ ~ Free(f) /\ \A x \in Workers : At(x, f) => x = w
  BY DEF FdOK, Free
<1>3. watch[f] # "armed" /\ ~ Setup(f)
  BY <1>2 DEF FdOK, LoopOK
<1>4. \A x \in Workers : At(x, f)' => x = w
  BY <1>1, <1>2 DEF At
<1>5. ~ Tasked(f)' /\ ~ Setup(f)'
  BY <1>2, <1>3 DEF Tasked, Setup
<1> QED BY <1>1, <1>3, <1>4, <1>5

\* The descriptor of the step: what is left to show there.
LEMMA TaskKeeps ==
    ASSUME NEW w \in Workers, NEW f \in Fds,
           \A x \in Workers : At(x, f)' => x = w, ~ Tasked(f)', ~ Setup(f)',
           watch'[f] = "armed" => Own(f)' /\ ~ At(w, f)',
           At(w, f)' => TaskOK(w, f)',
           TimerOK(f)'
    PROVE  FdOK(f)'
<1>1. \A v, x \in Workers : At(v, f)' /\ At(x, f)' => v = x
  OBVIOUS
<1>2. watch'[f] = "armed" => Own(f)' /\ Free(f)'
  BY DEF Free
<1>3. \A x \in Workers : At(x, f)' => TaskOK(x, f)'
  OBVIOUS
<1>4. LoopOK(f)'
  BY DEF LoopOK
<1> QED BY <1>1, <1>2, <1>3, <1>4 DEF FdOK

LEMMA ClientsOrderly ==
    ASSUME CTypes, Orderly, (\E k \in Peers : Connect(k) \/ Send(k) \/ ReadReplies(k) \/ Finish(k)) \/ Tick
    PROVE  Orderly'
<1>1. /\ conn' = conn /\ watch' = watch /\ session' = session /\ secretTable' = secretTable
      /\ tasks' = tasks /\ worker' = worker /\ loop' = loop
  BY DEF Connect, Send, ReadReplies, Finish, Tick, kernel, timers
<1>2. \A k \in Peers : peer[k] = "finished" => peer'[k] = "finished"
  BY DEF CTypes, Connect, Send, ReadReplies, Finish, Tick, kernel
<1>3. ASSUME NEW g \in Fds PROVE FdOK(g)'
  <2>1. conn[g] # None => conn[g] \in Peers
    BY DEF CTypes
  <2>2. Rests(g)
    BY <1>1, <1>2, <2>1 DEF Rests, Tasked, At, Setup
  <2> QED BY <2>2, RestsKeeps DEF Orderly
<1> QED BY <1>1, <1>3 DEF Orderly, QueuedOnce

\* The steps of the loop that leave the queue and the threads alone: what is left to show.
LEMMA LoopKeeps ==
    ASSUME CTypes, Orderly, NEW f \in Fds, tasks' = tasks, worker' = worker,
           FdOK(f)',
           \A g \in Fds : g # f =>
              /\ conn'[g] = conn[g] /\ session'[g] = session[g] /\ watch'[g] = watch[g]
              /\ secretTable'[g] = secretTable[g]
              /\ conn[g] # None => peer'[conn[g]] = peer[conn[g]]
              /\ ~ Setup(g)'
    PROVE  Orderly'
<1>1. ASSUME NEW g \in Fds, g # f PROVE FdOK(g)'
  <2>1. Rests(g)
    BY <1>1 DEF Rests, Tasked, At
  <2> QED BY <2>1, RestsKeeps DEF Orderly
<1> QED BY <1>1 DEF Orderly, QueuedOnce

LEMMA AcceptOrderly ==
    ASSUME TablesInv, Orderly, NEW k \in Peers, NEW f \in Fds, Accept(k, f), ~ overlapped'
    PROVE  Orderly'
<1> USE DEF TablesInv
<1>1. /\ conn \in [Fds -> Peers \cup {None}]
      /\ peer \in [Peers -> {"absent", "backlog", "open", "finished", "closed"}]
      /\ worker \in [Workers -> WorkerState] /\ None \notin Peers /\ FdOK(f)
  BY ConnectionsAssumption DEF CTypes, Orderly
<1>2. /\ watch' = watch /\ session' = session /\ secretTable' = secretTable /\ tasks' = tasks
      /\ worker' = worker /\ conn[f] = None /\ peer[k] = "backlog"
      /\ \A w \in Workers : ~ CleaningAgain(w, f)
  BY DEF Accept, timers
<1>3. /\ conn'[f] = k /\ \A g \in Fds : g # f => conn'[g] = conn[g]
      /\ \A l \in Peers : l # k => peer'[l] = peer[l]
  BY <1>1 DEF Accept
<1>4. loop'.at = "session" /\ loop'.fd = f /\ loop'.k = k
  BY LoopSteps
<1>5. ASSUME NEW w \in Workers, At(w, f) PROVE FALSE
  <2>1. TaskOK(w, f) /\ worker[w] # NoTask /\ worker[w].fd = f
    BY <1>1, <1>5 DEF FdOK, At
  <2>2. PICK x \in WorkerState : x = worker[w]
    BY <1>1
  <2>3. /\ x.at \in {"start", "cleanup", "unwatch", "untimer", "rearm", "read", "serve", "remove",
                     "close"}
        /\ x.at \in {"remove", "close"} =>
              x \in [at : {"remove", "close"}, fd : Fds, then : {"cleanup", "done"}]
    BY <2>1, <2>2, WorkerParts
  <2>4. x.at \in {"remove", "close"} => x.then \in {"cleanup", "done"}
    BY <2>3
  <2>5. \/ x.at \in {"cleanup", "unwatch", "untimer"}
        \/ x.at \in {"remove", "close"} /\ x.then = "done"
    BY <1>2, <2>1, <2>2, <2>3, <2>4 DEF TaskOK, Own
  <2> QED BY <1>2, <2>1, <2>2, <2>5 DEF CleaningAgain
<1>6. Free(f) /\ ~ Tasked(f) /\ watch[f] # "armed"
  BY <1>1, <1>2, <1>5 DEF FdOK, Own, Free
<1>7. FdOK(f)'
  <2>1. ~ Tasked(f)' /\ \A w \in Workers : ~ At(w, f)'
    BY <1>2, <1>5, <1>6 DEF Tasked, At
  <2>2. LoopOK(f)'
    BY <1>1, <1>3, <1>4, <2>1 DEF LoopOK, Free
  <2>3. TimerOK(f)'
    BY <1>1, <1>2, <1>5 DEF FdOK, TimerOK, At
  <2> QED BY <1>2, <1>6, <2>1, <2>2, <2>3 DEF FdOK
<1>8. ASSUME NEW g \in Fds, g # f
      PROVE  ~ Setup(g)' /\ (conn[g] # None => peer'[conn[g]] = peer[conn[g]])
  <2>1. conn[g] # k
    BY <1>2 DEF ConnectedOnce
  <2> QED BY <1>1, <1>3, <1>4, <1>8, <2>1 DEF Setup
<1> QED BY <1>2, <1>3, <1>4, <1>7, <1>8, LoopKeeps

LEMMA CreateSessionOrderly ==
    ASSUME TablesInv, Orderly, CreateSession
    PROVE  Orderly'
<1> USE DEF TablesInv
<1>1. PICK f \in Fds : f = loop.fd
  BY LoopSteps
<1>2. /\ conn' = conn /\ peer' = peer /\ watch' = watch /\ secretTable' = secretTable
      /\ tasks' = tasks /\ worker' = worker /\ loop.at = "session"
  BY DEF CreateSession, kernel, timers
<1>3. session'[f] = loop.k /\ \A g \in Fds : g # f => session'[g] = session[g]
  BY <1>1 DEF CTypes, CreateSession
<1>4. loop'.at = "watch" /\ loop'.fd = f /\ loop'.k = loop.k
  BY <1>1, LoopSteps
<1>5. FdOK(f) /\ Free(f) /\ conn[f] # None /\ conn[f] = loop.k
  BY <1>1, <1>2 DEF Orderly, FdOK, LoopOK, Setup
<1>6. FdOK(f)'
  <2>1. Own(f)' /\ ~ Tasked(f)' /\ \A w \in Workers : ~ At(w, f)'
    BY <1>2, <1>3, <1>5 DEF Own, Tasked, At, Free
  <2>2. LoopOK(f)' /\ TimerOK(f)'
    BY <1>2, <1>4, <1>5, <2>1 DEF LoopOK, TimerOK, Free, Own
  <2> QED BY <2>1, <2>2 DEF FdOK, Free
<1>7. \A g \in Fds : g # f => ~ Setup(g)'
  BY <1>4 DEF Setup
<1> QED BY <1>2, <1>3, <1>4, <1>6, <1>7, LoopKeeps

LEMMA AddEventOrderly ==
    ASSUME TablesInv, Orderly, AddEvent
    PROVE  Orderly'
<1> USE DEF TablesInv
<1>1. PICK f \in Fds : f = loop.fd
  BY LoopSteps
<1>2. /\ conn' = conn /\ peer' = peer /\ session' = session /\ secretTable' = secretTable
      /\ tasks' = tasks /\ worker' = worker /\ loop.at = "watch"
  BY DEF AddEvent, timers
<1>3. \A g \in Fds : g # f => watch'[g] = watch[g]
  BY <1>1 DEF CTypes, AddEvent
<1>4. loop'.at = "timer" /\ loop'.fd = f /\ loop'.k = loop.k
  BY <1>1, LoopSteps
<1>5. FdOK(f) /\ Free(f) /\ Own(f) /\ conn[f] = loop.k
  BY <1>1, <1>2 DEF Orderly, FdOK, LoopOK, Setup
<1>6. FdOK(f)'
  <2>1. Own(f)' /\ ~ Tasked(f)' /\ \A w \in Workers : ~ At(w, f)'
    BY <1>2, <1>5 DEF Own, Tasked, At, Free
  <2>2. LoopOK(f)' /\ TimerOK(f)'
    BY <1>2, <1>4, <1>5, <2>1 DEF LoopOK, TimerOK, Free, Own
  <2> QED BY <2>1, <2>2 DEF FdOK, Free
<1>7. \A g \in Fds : g # f => ~ Setup(g)'
  BY <1>4 DEF Setup
<1> QED BY <1>2, <1>3, <1>4, <1>6, <1>7, LoopKeeps

LEMMA StartTimerOrderly ==
    ASSUME TablesInv, Orderly, StartTimer
    PROVE  Orderly'
<1> USE DEF TablesInv
<1>1. PICK f \in Fds : f = loop.fd
  BY LoopSteps
<1>2. /\ conn' = conn /\ peer' = peer /\ session' = session /\ watch' = watch
      /\ tasks' = tasks /\ worker' = worker /\ loop.at = "timer"
  BY DEF StartTimer, kernel
<1>3. \A g \in Fds : g # f => secretTable'[g] = secretTable[g]
  BY <1>1 DEF CTypes, StartTimer, AddTimer
<1>4. loop'.at = "wait"
  BY LoopSteps
<1>5. FdOK(f) /\ Free(f) /\ Own(f)
  BY <1>1, <1>2 DEF Orderly, FdOK, LoopOK, Setup
<1>6. \A g \in Fds : ~ Setup(g)'
  BY <1>4 DEF Setup
<1>7. FdOK(f)'
  <2>1. Own(f)' /\ ~ Tasked(f)' /\ \A w \in Workers : ~ At(w, f)'
    BY <1>2, <1>5 DEF Own, Tasked, At, Free
  <2>2. LoopOK(f)' /\ TimerOK(f)'
    BY <1>6, <2>1 DEF LoopOK, TimerOK, Own
  <2> QED BY <2>1, <2>2 DEF FdOK, Free
<1> QED BY <1>2, <1>3, <1>4, <1>6, <1>7, LoopKeeps

\* The queue when a task is put in or taken out.
LEMMA TaskQueued ==
    ASSUME tasks \in Seq(Fds), QueuedOnce, NEW f \in Fds, ~ Tasked(f), tasks' = Append(tasks, f)
    PROVE  /\ QueuedOnce' /\ Tasked(f)'
           /\ \A g \in Fds : g # f => (Tasked(g)' <=> Tasked(g))
<1>1. /\ Len(tasks) \in Nat /\ DOMAIN tasks = 1 .. Len(tasks)
      /\ DOMAIN tasks' = 1 .. Len(tasks) + 1
      /\ tasks'[Len(tasks) + 1] = f
      /\ \A i \in 1 .. Len(tasks) : tasks'[i] = tasks[i]
  <2>1. /\ Len(tasks) \in Nat /\ DOMAIN tasks = 1 .. Len(tasks)
    BY LenProperties
  <2>2. /\ Append(tasks, f) \in Seq(Fds) /\ Len(Append(tasks, f)) = Len(tasks) + 1
        /\ \A i \in 1 .. Len(tasks) : Append(tasks, f)[i] = tasks[i]
        /\ Append(tasks, f)[Len(tasks) + 1] = f
    BY AppendProperties
  <2>3. DOMAIN Append(tasks, f) = 1 .. Len(tasks) + 1
    BY <2>2, LenProperties
  <2> QED BY <2>1, <2>2, <2>3
<1>2. \A i \in 1 .. Len(tasks) : tasks[i] # f
  BY <1>1 DEF Tasked
<1>3. \A i \in DOMAIN tasks' : i \in 1 .. Len(tasks) \/ i = Len(tasks) + 1
  BY <1>1
<1>4. QueuedOnce'
  BY <1>1, <1>2, <1>3 DEF QueuedOnce
<1>5. Tasked(f)'
  BY <1>1 DEF Tasked
<1>6. ASSUME NEW g \in Fds, g # f PROVE Tasked(g)' <=> Tasked(g)
  BY <1>1, <1>3, <1>6 DEF Tasked
<1> QED BY <1>4, <1>5, <1>6

LEMMA TaskTaken ==
    ASSUME tasks \in Seq(Fds), QueuedOnce, tasks # << >>, tasks' = Tail(tasks),
           NEW f, f = Head(tasks)
    PROVE  /\ QueuedOnce' /\ f \in Fds /\ Tasked(f) /\ ~ Tasked(f)'
           /\ \A g \in Fds : g # f => (Tasked(g)' <=> Tasked(g))
<1>1. /\ Len(tasks) \in Nat \ {0} /\ DOMAIN tasks = 1 .. Len(tasks)
      /\ f = tasks[1] /\ f \in Fds
      /\ DOMAIN tasks' = 1 .. Len(tasks) - 1
      /\ \A i \in 1 .. Len(tasks) - 1 : tasks'[i] = tasks[i + 1]
  <2>1. /\ Len(tasks) \in Nat /\ DOMAIN tasks = 1 .. Len(tasks) /\ Len(tasks) # 0
    BY LenProperties, EmptySeq
  <2>2. /\ Head(tasks) \in Fds /\ Head(tasks) = tasks[1]
    BY HeadTailProperties
  <2>3. /\ Tail(tasks) \in Seq(Fds) /\ Len(Tail(tasks)) = Len(tasks) - 1
        /\ \A i \in 1 .. Len(Tail(tasks)) : Tail(tasks)[i] = tasks[i + 1]
    BY HeadTailProperties
  <2>4. DOMAIN Tail(tasks) = 1 .. Len(tasks) - 1
    BY <2>3, LenProperties
  <2> QED BY <2>1, <2>2, <2>3, <2>4
<1>2. QueuedOnce'
  BY <1>1 DEF QueuedOnce
<1>3. Tasked(f)
  BY <1>1 DEF Tasked
<1>4. ~ Tasked(f)'
  BY <1>1 DEF Tasked, QueuedOnce
<1>5. ASSUME NEW g \in Fds, g # f PROVE Tasked(g)' <=> Tasked(g)
  <2>1. ASSUME Tasked(g)' PROVE Tasked(g)
    <3>1. PICK i \in DOMAIN tasks' : tasks'[i] = g
      BY <2>1 DEF Tasked
    <3>2. i + 1 \in DOMAIN tasks /\ tasks[i + 1] = g
      BY <1>1, <3>1
    <3> QED BY <3>2 DEF Tasked
  <2>2. ASSUME Tasked(g) PROVE Tasked(g)'
    <3>1. PICK i \in DOMAIN tasks : tasks[i] = g
      BY <2>2 DEF Tasked
    <3>2. i - 1 \in DOMAIN tasks' /\ (i - 1) + 1 = i
      BY <1>1, <1>5, <3>1
    <3>3. tasks'[i - 1] = g
      BY <1>1, <3>1, <3>2
    <3> QED BY <3>2, <3>3 DEF Tasked
  <2> QED BY <2>1, <2>2
<1> QED BY <1>1, <1>2, <1>3, <1>4, <1>5

LEMMA EventOrderly ==
    ASSUME TablesInv, Orderly, NEW f \in Fds, Event(f)
    PROVE  Orderly'
<1> USE DEF TablesInv
<1>1. /\ conn' = conn /\ peer' = peer /\ session' = session /\ worker' = worker /\ loop' = loop
      /\ loop = Waiting /\ watch[f] = "armed" /\ tasks' = Append(tasks, f)
  BY DEF Event
<1>2. /\ watch'[f] = "disarmed"
      /\ \A g \in Fds : g # f => watch'[g] = watch[g] /\ secretTable'[g] = secretTable[g]
  BY DEF CTypes, Event, AddTimer
<1>3. FdOK(f) /\ Own(f) /\ Free(f) /\ ~ Tasked(f)
  BY <1>1 DEF Orderly, FdOK, Free
<1>4. tasks \in Seq(Fds) /\ QueuedOnce
  BY DEF CTypes, Orderly
<1>5. /\ QueuedOnce' /\ Tasked(f)'
      /\ \A g \in Fds : g # f => (Tasked(g)' <=> Tasked(g))
  BY <1>1, <1>3, <1>4, TaskQueued
<1>6. \A g \in Fds : ~ Setup(g)'
  BY <1>1 DEF Setup, Waiting
<1>7. FdOK(f)'
  <2>1. Own(f)' /\ \A w \in Workers : ~ At(w, f)'
    BY <1>1, <1>3 DEF Own, At, Free
  <2>2. LoopOK(f)' /\ TimerOK(f)'
    BY <1>6, <2>1 DEF LoopOK, TimerOK, Own
  <2> QED BY <1>2, <2>1, <2>2 DEF FdOK
<1>8. ASSUME NEW g \in Fds, g # f PROVE FdOK(g)'
  <2>1. Rests(g)
    BY <1>1, <1>2, <1>5, <1>6, <1>8 DEF Rests, At
  <2> QED BY <2>1, RestsKeeps DEF Orderly
<1> QED BY <1>1, <1>5, <1>7, <1>8 DEF Orderly

LEMMA TimeoutOrderly ==
    ASSUME TablesInv, Orderly, NEW t \in minHeap, HandleTimeout(t)
    PROVE  Orderly'
<1> USE DEF TablesInv
<1>1. /\ conn' = conn /\ peer' = peer /\ session' = session /\ worker' = worker /\ tasks' = tasks
      /\ loop = Waiting
  BY DEF HandleTimeout
<1>2. /\ secretTable \in [Fds -> {None} \cup (0 .. MaxClock + Timeout)]
      /\ watch \in [Fds -> {"none", "armed", "disarmed"}]
  BY DEF CTypes
<1>3. PICK f \in Fds : f = t[1]
  BY DEF CTypes
<1>4. /\ watch' = watch \/ watch' = [watch EXCEPT ![f] = "none"]
      /\ loop' = loop \/ loop' = [at |-> "stuck", fd |-> f]
      /\ secretTable' = secretTable \/ secretTable' = [secretTable EXCEPT ![f] = None]
  BY <1>3 DEF HandleTimeout, timers
<1>5. /\ \A g \in Fds : secretTable'[g] = secretTable[g] \/ secretTable'[g] = None
      /\ \A g \in Fds : watch'[g] = "armed" => watch[g] = "armed"
  BY <1>2, <1>4
<1>6. \A g \in Fds : ~ Setup(g)'
  BY <1>1, <1>4 DEF Setup, Waiting
<1>7. ASSUME NEW g \in Fds PROVE FdOK(g)'
  <2>1. Rests(g)
    BY <1>1, <1>5, <1>6 DEF Rests, Tasked, At
  <2> QED BY <2>1, RestsKeeps DEF Orderly
<1> QED BY <1>1, <1>7 DEF Orderly, QueuedOnce

\* The steps of a task after its start: what is left to show.
LEMMA TaskStepKeeps ==
    ASSUME CTypes, Orderly, NEW w \in Workers, NEW f \in Fds, NEW y, At(w, f),
           worker' = [worker EXCEPT ![w] = y], y = NoTask \/ y.fd = f,
           tasks' = tasks, loop' = loop,
           \A g \in Fds : g # f =>
              /\ conn'[g] = conn[g] /\ session'[g] = session[g] /\ watch'[g] = watch[g]
              /\ secretTable'[g] = secretTable[g]
              /\ conn[g] # None => peer'[conn[g]] = peer[conn[g]],
           FdOK(f)'
    PROVE  Orderly'
<1>1. ASSUME NEW g \in Fds, g # f PROVE FdOK(g)'
  <2>1. worker[w] # NoTask => worker[w].fd = f
    BY DEF At
  <2>2. /\ \A x \in Workers : At(x, g)' <=> At(x, g)
        /\ \A x \in Workers : At(x, g) => worker'[x] = worker[x]
    BY <1>1, <2>1, TaskElsewhere
  <2>3. Rests(g)
    BY <1>1, <2>2 DEF Rests, Tasked, Setup
  <2> QED BY <2>3, RestsKeeps DEF Orderly
<1> QED BY <1>1 DEF Orderly, QueuedOnce

\* A task that has begun is on a descriptor.
LEMMA Begun ==
    ASSUME CTypes, NEW w \in Workers, worker[w].at # "idle"
    PROVE  \E f \in Fds : At(w, f) /\ worker[w].fd = f
<1>1. worker[w] \in WorkerState /\ worker[w] # NoTask
  BY DEF CTypes, NoTask
<1> QED BY <1>1, WorkerParts DEF At

LEMMA TakeTaskOrderly ==
    ASSUME TablesInv, Orderly, NEW w \in Workers, TakeTask(w)
    PROVE  Orderly'
<1> USE DEF TablesInv
<1>1. /\ conn' = conn /\ peer' = peer /\ session' = session /\ watch' = watch /\ loop' = loop
      /\ secretTable' = secretTable /\ worker[w] = NoTask /\ tasks # << >> /\ tasks' = Tail(tasks)
  BY DEF TakeTask, kernel, timers
<1>2. PICK y \in WorkerState : /\ worker' = [worker EXCEPT ![w] = y] /\ y # NoTask
                               /\ y.at = "start" /\ y.fd = Head(tasks)
  BY TaskSteps
<1>3. PICK f : f = Head(tasks)
  OBVIOUS
<1>4. tasks \in Seq(Fds) /\ QueuedOnce
  BY DEF CTypes, Orderly
<1>5. /\ QueuedOnce' /\ f \in Fds /\ Tasked(f) /\ ~ Tasked(f)'
      /\ \A g \in Fds : g # f => (Tasked(g)' <=> Tasked(g))
  BY <1>1, <1>3, <1>4, TaskTaken
<1>6. FdOK(f) /\ Own(f) /\ \A x \in Workers : ~ At(x, f)
  BY <1>5 DEF Orderly, FdOK
<1>7. watch[f] # "armed" /\ ~ Setup(f)
  BY <1>5, <1>6 DEF FdOK, LoopOK, Free
<1>8. /\ worker'[w] = y /\ \A x \in Workers : x # w => worker'[x] = worker[x]
      /\ \A g \in Fds : g # f =>
            /\ \A x \in Workers : At(x, g)' <=> At(x, g)
            /\ \A x \in Workers : At(x, g) => worker'[x] = worker[x]
  BY <1>1, <1>2, <1>3, <1>5, TaskElsewhere
<1>9. FdOK(f)'
  <2>1. \A x \in Workers : At(x, f)' => x = w
    BY <1>6, <1>8 DEF At
  <2>2. Own(f)' /\ watch'[f] # "armed" /\ ~ Setup(f)'
    BY <1>1, <1>6, <1>7 DEF Own, Setup
  <2>3. TaskOK(w, f)' /\ TimerOK(f)'
    BY <1>2, <1>8, <2>2 DEF TaskOK, TimerOK, Own
  <2> QED BY <1>5, <2>1, <2>2, <2>3, TaskKeeps
<1>10. ASSUME NEW g \in Fds, g # f PROVE FdOK(g)'
  <2>1. Rests(g)
    BY <1>1, <1>5, <1>8, <1>10 DEF Rests, Setup
  <2> QED BY <2>1, RestsKeeps DEF Orderly
<1> QED BY <1>1, <1>5, <1>9, <1>10 DEF Orderly

\* getSession, read and serve, which leave the tables alone.
LEMMA ServingOrderly ==
    ASSUME TablesInv, Orderly, NEW w \in Workers, GetSession(w) \/ Read(w) \/ Serve(w)
    PROVE  Orderly'
<1> USE DEF TablesInv
<1>1. /\ conn' = conn /\ peer' = peer /\ session' = session /\ watch' = watch /\ loop' = loop
      /\ secretTable' = secretTable /\ tasks' = tasks
  BY DEF GetSession, Read, Serve, kernel, timers
<1>2. worker[w].at \in {"start", "read", "serve"}
  BY DEF GetSession, Read, Serve
<1>3. PICK f \in Fds : At(w, f) /\ worker[w].fd = f
  BY <1>2, Begun
<1>4. FdOK(f) /\ TaskOK(w, f) /\ Own(f)
  BY <1>2, <1>3 DEF Orderly, FdOK, TaskOK
<1>5. conn[f] # None /\ session[f] = conn[f]
  BY <1>4 DEF Own
<1>6. \E y \in WorkerState :
         /\ worker' = [worker EXCEPT ![w] = y] /\ y # NoTask /\ y.fd = f
         /\ \/ y.at \in {"read", "serve"} /\ y.s = session[f]
            \/ y.at = "rearm"
            \/ y.at = "remove" /\ y.then = "cleanup" /\ peer[conn[f]] = "finished"
  <2>1. CASE GetSession(w)
    BY <1>3, <1>5, <2>1, TaskSteps
  <2>2. CASE Read(w)
    <3>1. worker[w].s = session[f]
      BY <1>4, <2>2 DEF Read, TaskOK
    <3>2. StreamEnded(f) => peer[conn[f]] = "finished"
      BY <1>5 DEF StreamEnded
    <3> QED BY <1>3, <2>2, <3>1, <3>2, TaskSteps
  <2>3. CASE Serve(w)
    BY <1>3, <2>3, TaskSteps
  <2> QED BY <2>1, <2>2, <2>3
<1>7. PICK y \in WorkerState :
         /\ worker' = [worker EXCEPT ![w] = y] /\ y # NoTask /\ y.fd = f
         /\ \/ y.at \in {"read", "serve"} /\ y.s = session[f]
            \/ y.at = "rearm"
            \/ y.at = "remove" /\ y.then = "cleanup" /\ peer[conn[f]] = "finished"
  BY <1>6
<1>8. /\ watch[f] # "armed" /\ \A x \in Workers : At(x, f)' => x = w
      /\ ~ Tasked(f)' /\ ~ Setup(f)' /\ worker'[w] = y
  BY <1>1, <1>3, <1>4, <1>7, TaskHere
<1>9. Own(f)' /\ TaskOK(w, f)' /\ TimerOK(f)'
  BY <1>1, <1>4, <1>5, <1>7, <1>8 DEF Own, TaskOK, TimerOK
<1>10. FdOK(f)'
  BY <1>1, <1>8, <1>9, TaskKeeps
<1> QED BY <1>1, <1>3, <1>7, <1>10, TaskStepKeeps

LEMMA RearmOrderly ==
    ASSUME TablesInv, Orderly, NEW w \in Workers, Rearm(w)
    PROVE  Orderly'
<1> USE DEF TablesInv
<1>1. /\ conn' = conn /\ peer' = peer /\ session' = session /\ loop' = loop
      /\ secretTable' = secretTable /\ tasks' = tasks /\ worker[w].at = "rearm"
      /\ worker' = [worker EXCEPT ![w] = NoTask]
  BY DEF Rearm, timers
<1>2. PICK f \in Fds : At(w, f) /\ worker[w].fd = f
  BY <1>1, Begun
<1>3. FdOK(f) /\ TaskOK(w, f) /\ Own(f)
  BY <1>1, <1>2 DEF Orderly, FdOK, TaskOK
<1>4. \A g \in Fds : g # f => watch'[g] = watch[g]
  BY <1>2 DEF CTypes, Rearm
<1>5. /\ \A x \in Workers : ~ At(x, f)'
      /\ ~ Tasked(f)' /\ ~ Setup(f)'
  <2>1. PICK y : y = NoTask
    OBVIOUS
  <2>2. worker' = [worker EXCEPT ![w] = y] /\ tasks' = tasks /\ loop' = loop
    BY <1>1, <2>1
  <2>3. /\ \A x \in Workers : At(x, f)' => x = w
        /\ ~ Tasked(f)' /\ ~ Setup(f)' /\ worker'[w] = y
    BY <1>2, <1>3, <2>2, TaskHere
  <2>4. ~ At(w, f)'
    BY <2>1, <2>3 DEF At
  <2> QED BY <2>3, <2>4
<1>6. Own(f)' /\ TimerOK(f)'
  BY <1>1, <1>3 DEF Own, TimerOK
<1>7. FdOK(f)'
  BY <1>5, <1>6, TaskKeeps
<1> QED BY <1>1, <1>2, <1>4, <1>7, TaskStepKeeps

LEMMA RemoveOrderly ==
    ASSUME TablesInv, Orderly, NEW w \in Workers, RemoveSession(w)
    PROVE  Orderly'
<1> USE DEF TablesInv
<1>1. /\ conn' = conn /\ peer' = peer /\ watch' = watch /\ loop' = loop
      /\ secretTable' = secretTable /\ tasks' = tasks /\ worker[w].at = "remove"
  BY DEF RemoveSession, kernel, timers
<1>2. PICK f \in Fds : At(w, f) /\ worker[w].fd = f
  BY <1>1, Begun
<1>3. FdOK(f) /\ TaskOK(w, f)
  BY <1>2 DEF Orderly, FdOK
<1>4. PICK y \in WorkerState :
         /\ worker' = [worker EXCEPT ![w] = y] /\ y # NoTask
         /\ y.fd = worker[w].fd /\ y.at = "close" /\ y.then = worker[w].then
  BY TaskSteps
<1>5. session'[f] = None /\ \A g \in Fds : g # f => session'[g] = session[g]
  BY <1>2 DEF CTypes, RemoveSession
<1>6. /\ watch[f] # "armed" /\ \A x \in Workers : At(x, f)' => x = w
      /\ ~ Tasked(f)' /\ ~ Setup(f)' /\ worker'[w] = y
  BY <1>1, <1>2, <1>3, <1>4, TaskHere
<1>7. TaskOK(w, f)'
  BY <1>1, <1>3, <1>4, <1>5, <1>6 DEF TaskOK, Own
<1>8. TimerOK(f)'
  BY <1>2, <1>4, <1>6 DEF TimerOK, At
<1>9. FdOK(f)'
  BY <1>1, <1>6, <1>7, <1>8, TaskKeeps
<1> QED BY <1>1, <1>2, <1>4, <1>5, <1>9, TaskStepKeeps

\* A task closes a connection whose client has closed its end, or a number nobody has.
LEMMA CloseOrderly ==
    ASSUME TablesInv, Orderly, NEW w \in Workers, Close(w)
    PROVE  Orderly'
<1> USE DEF TablesInv
<1>1. /\ session' = session /\ loop' = loop
      /\ secretTable' = secretTable /\ tasks' = tasks /\ worker[w].at = "close"
  BY DEF Close, timers
<1>2. PICK f \in Fds : At(w, f) /\ worker[w].fd = f
  BY <1>1, Begun
<1>3. FdOK(f) /\ TaskOK(w, f)
  BY <1>2 DEF Orderly, FdOK
<1>4. worker[w].then \in {"cleanup", "done"}
  <2>1. PICK x \in WorkerState : x = worker[w]
    BY DEF CTypes
  <2>2. x \in [at : {"remove", "close"}, fd : Fds, then : {"cleanup", "done"}]
    BY <1>1, <2>1, WorkerParts
  <2> QED BY <2>1, <2>2
<1>5. PICK y \in WorkerState :
         /\ worker' = [worker EXCEPT ![w] = y]
         /\ worker[w].then = "cleanup" => y # NoTask /\ y.fd = worker[w].fd /\ y.at = "cleanup"
         /\ worker[w].then = "done" => y = NoTask
  BY TaskSteps
<1>6. /\ conn'[f] = None /\ \A g \in Fds : g # f => conn'[g] = conn[g]
      /\ \A k \in Peers : k # conn[f] => peer'[k] = peer[k]
  BY <1>2, CloseAt DEF CTypes
<1>7. watch'[f] = "none" /\ \A g \in Fds : g # f => watch'[g] = watch[g]
  BY <1>2 DEF CTypes, Close
<1>8. /\ \A x \in Workers : At(x, f)' => x = w
      /\ ~ Tasked(f)' /\ ~ Setup(f)' /\ worker'[w] = y
      /\ (y = NoTask => ~ At(w, f)') /\ (y # NoTask => At(w, f)')
  <2>1. worker' = [worker EXCEPT ![w] = y] /\ (y = NoTask \/ y.fd = f)
    BY <1>2, <1>4, <1>5
  <2>2. /\ \A x \in Workers : At(x, f)' => x = w
        /\ ~ Tasked(f)' /\ ~ Setup(f)' /\ worker'[w] = y
    BY <1>1, <1>2, <1>3, <2>1, TaskHere
  <2>3. (y = NoTask => ~ At(w, f)') /\ (y # NoTask => At(w, f)')
    BY <2>1, <2>2 DEF At
  <2> QED BY <2>2, <2>3
<1>9. At(w, f)' => TaskOK(w, f)'
  BY <1>1, <1>3, <1>4, <1>5, <1>6, <1>8 DEF TaskOK
<1>10. TimerOK(f)'
  BY <1>1, <1>3, <1>4, <1>5, <1>8 DEF TaskOK, TimerOK
<1>11. FdOK(f)'
  BY <1>7, <1>8, <1>9, <1>10, TaskKeeps
<1>12. ASSUME NEW g \in Fds, g # f, conn[g] # None PROVE peer'[conn[g]] = peer[conn[g]]
  <2>1. conn[g] # conn[f] /\ conn[g] \in Peers
    BY <1>12 DEF ConnectedOnce, CTypes
  <2> QED BY <1>6, <2>1
<1> QED BY <1>1, <1>2, <1>4, <1>5, <1>6, <1>7, <1>11, <1>12, TaskStepKeeps

\* doCleanup, which finds the number free and without a session.
LEMMA CleanupOrderly ==
    ASSUME TablesInv, Orderly, NEW w \in Workers, Cleanup(w) \/ Unwatch(w) \/ CancelTimer(w)
    PROVE  Orderly'
<1> USE DEF TablesInv
<1>1. /\ conn' = conn /\ peer' = peer /\ session' = session /\ loop' = loop /\ tasks' = tasks
      /\ worker[w].at \in {"cleanup", "unwatch", "untimer"}
  BY DEF Cleanup, Unwatch, CancelTimer, kernel
<1>2. PICK f \in Fds : At(w, f) /\ worker[w].fd = f
  BY <1>1, Begun
<1>3. FdOK(f) /\ TaskOK(w, f) /\ conn[f] = None /\ session[f] = None
  BY <1>1, <1>2 DEF Orderly, FdOK, TaskOK
<1>4. \E y \in WorkerState :
         /\ worker' = [worker EXCEPT ![w] = y] /\ y # NoTask /\ y.fd = f
         /\ \/ y.at \in {"unwatch", "untimer"}
            \/ y.at = "remove" /\ y.then = "done" /\ CancelTimer(w)
  <2>1. CASE Cleanup(w)
    BY <1>2, <1>3, <2>1, TaskSteps
  <2>2. CASE Unwatch(w)
    BY <1>2, <2>2, TaskSteps
  <2>3. CASE CancelTimer(w)
    BY <1>2, <2>3, TaskSteps
  <2> QED BY <2>1, <2>2, <2>3
<1>5. PICK y \in WorkerState :
         /\ worker' = [worker EXCEPT ![w] = y] /\ y # NoTask /\ y.fd = f
         /\ \/ y.at \in {"unwatch", "untimer"}
            \/ y.at = "remove" /\ y.then = "done" /\ CancelTimer(w)
  BY <1>4
<1>6. /\ \A g \in Fds : g # f => watch'[g] = watch[g] /\ secretTable'[g] = secretTable[g]
      /\ watch'[f] = "armed" => watch[f] = "armed"
      /\ CancelTimer(w) => secretTable'[f] = None
  BY <1>2 DEF CTypes, Cleanup, Unwatch, CancelTimer, kernel, timers
<1>7. /\ watch[f] # "armed" /\ \A x \in Workers : At(x, f)' => x = w
      /\ ~ Tasked(f)' /\ ~ Setup(f)' /\ worker'[w] = y
  BY <1>1, <1>2, <1>3, <1>5, TaskHere
<1>8. TaskOK(w, f)'
  BY <1>1, <1>3, <1>5, <1>6, <1>7 DEF TaskOK
<1>9. TimerOK(f)'
  BY <1>5, <1>6, <1>7 DEF TimerOK, At
<1>10. FdOK(f)'
  BY <1>6, <1>7, <1>8, <1>9, TaskKeeps
<1> QED BY <1>1, <1>2, <1>5, <1>6, <1>10, TaskStepKeeps

LEMMA StepOrderly ==
    ASSUME TablesInv, Orderly, [CNext]_connVars, ~ overlapped'
    PROVE  Orderly'
<1>1. CASE (\E k \in Peers : Connect(k) \/ Send(k) \/ ReadReplies(k) \/ Finish(k)) \/ Tick
  BY <1>1, ClientsOrderly DEF TablesInv
<1>2. CASE EventLoop
  BY <1>2, AcceptOrderly, CreateSessionOrderly, AddEventOrderly, StartTimerOrderly, EventOrderly,
     TimeoutOrderly DEF EventLoop
<1>3. ASSUME NEW w \in Workers, Task(w) PROVE Orderly'
  BY <1>3, TakeTaskOrderly, ServingOrderly, RearmOrderly, RemoveOrderly, CloseOrderly,
     CleanupOrderly DEF Task
<1>4. CASE UNCHANGED connVars
  <2>1. ASSUME NEW g \in Fds PROVE FdOK(g)'
    <3>1. Rests(g)
      BY <1>4 DEF Rests, connVars, kernel, timers, Tasked, At, Setup
    <3> QED BY <3>1, RestsKeeps DEF Orderly
  <2> QED BY <1>4, <2>1 DEF Orderly, QueuedOnce, connVars
<1> QED BY <1>1, <1>2, <1>3, <1>4 DEF CNext

\* What has overlapped stays recorded.
LEMMA OverlapStays ==
    ASSUME TablesInv, [CNext]_connVars, overlapped
    PROVE  overlapped'
<1>1. CASE (\E k \in Peers : Connect(k) \/ Send(k) \/ ReadReplies(k) \/ Finish(k)) \/ Tick
  BY <1>1 DEF Connect, Send, ReadReplies, Finish, Tick
<1>2. CASE EventLoop
  BY <1>2 DEF EventLoop, Accept, CreateSession, AddEvent, StartTimer, Event, HandleTimeout
<1>3. ASSUME NEW w \in Workers, Task(w) PROVE overlapped'
  BY <1>3 DEF Task, TakeTask, GetSession, Read, Serve, Rearm, RemoveSession, Close, Cleanup,
              Unwatch, CancelTimer
<1>4. CASE UNCHANGED connVars
  BY <1>4 DEF connVars
<1> QED BY <1>1, <1>2, <1>3, <1>4 DEF CNext

LEMMA InitCInv == CInit => CInv
<1> SUFFICES ASSUME CInit PROVE CInv
  OBVIOUS
<1>1. TablesInv
  BY InitTablesInv
<1>2. DOMAIN tasks = {}
  BY DEF CInit
<1>3. QueuedOnce /\ \A f \in Fds : ~ Tasked(f)
  BY <1>2 DEF QueuedOnce, Tasked
<1>4. \A w \in Workers, f \in Fds : ~ At(w, f)
  BY DEF CInit, At
<1>5. loop.at = "wait"
  BY DEF CInit, Waiting
<1>6. ASSUME NEW f \in Fds PROVE FdOK(f)
  <2>1. watch[f] = "none" /\ secretTable[f] = None
    BY DEF CInit
  <2>2. LoopOK(f) /\ TimerOK(f)
    BY <1>5, <2>1 DEF LoopOK, TimerOK, Setup
  <2> QED BY <1>3, <1>4, <2>1, <2>2 DEF FdOK
<1> QED BY <1>1, <1>3, <1>5, <1>6 DEF CInv, Orderly

LEMMA StepCInv == CInv /\ [CNext]_connVars => CInv'
<1> SUFFICES ASSUME CInv, [CNext]_connVars PROVE CInv'
  OBVIOUS
<1>1. TablesInv'
  BY StepTablesInv DEF CInv
<1>2. ASSUME ~ overlapped' PROVE Orderly'
  <2>1. ~ overlapped
    BY <1>2, OverlapStays DEF CInv
  <2> QED BY <1>2, <2>1, StepOrderly DEF CInv
<1> QED BY <1>1, <1>2 DEF CInv

LEMMA CInvAlways == CSpec => []CInv
BY InitCInv, StepCInv, PTL DEF CSpec

-----------------------------------------------------------------------------
(***************************************************************************)
(* What follows.                                                           *)
(***************************************************************************)

\* EPOLLONESHOT keeps two tasks from being under way for one descriptor, in the queue or on the
\* threads of the pool, as long as no clean-up meets the next use of its number: nothing in
\* ThreadPool or SessionManager does.
THEOREM TasksAreAlone == CSpec => []OneTaskPerConnection
<1>1. CInv => OneTaskPerConnection
  <2> SUFFICES ASSUME CInv, ~ overlapped, NEW f \in Fds
               PROVE  /\ Cardinality({i \in DOMAIN tasks : tasks[i] = f})
                            + Cardinality({w \in Workers : worker[w] # NoTask /\ worker[w].fd = f})
                         =< 1
                      /\ watch[f] = "armed" =>
                            /\ f \notin {tasks[i] : i \in DOMAIN tasks}
                            /\ \A w \in Workers : worker[w] # NoTask => worker[w].fd # f
    BY DEF OneTaskPerConnection
  <2>1. QueuedOnce /\ FdOK(f)
    BY DEF CInv, Orderly
  <2>2. Cardinality({i \in DOMAIN tasks : tasks[i] = f}) = IF Tasked(f) THEN 1 ELSE 0
    <3>1. Tasked(f) <=> {i \in DOMAIN tasks : tasks[i] = f} # {}
      BY DEF Tasked
    <3>2. \A i, j \in {h \in DOMAIN tasks : tasks[h] = f} : i = j
      BY <2>1 DEF QueuedOnce
    <3>3. Tasked(f) \in BOOLEAN
      BY DEF Tasked
    <3> QED BY <3>1, <3>2, <3>3, SingleOrNone
  <2>3. PICK B \in BOOLEAN : B <=> \E w \in Workers : At(w, f)
    OBVIOUS
  <2>4. Cardinality({w \in Workers : worker[w] # NoTask /\ worker[w].fd = f}) =
           IF B THEN 1 ELSE 0
    <3>1. B <=> {w \in Workers : worker[w] # NoTask /\ worker[w].fd = f} # {}
      BY <2>3 DEF At
    <3>2. \A w, x \in {v \in Workers : worker[v] # NoTask /\ worker[v].fd = f} : w = x
      BY <2>1 DEF FdOK, At
    <3> QED BY <3>1, <3>2, SingleOrNone
  <2>5. ~ (Tasked(f) /\ B)
    BY <2>1, <2>3 DEF FdOK
  <2>6. watch[f] = "armed" =>
           /\ f \notin {tasks[i] : i \in DOMAIN tasks}
           /\ \A w \in Workers : worker[w] # NoTask => worker[w].fd # f
    BY <2>1 DEF FdOK, Free, Tasked, At
  <2>7. Cardinality({i \in DOMAIN tasks : tasks[i] = f})
           + Cardinality({w \in Workers : worker[w] # NoTask /\ worker[w].fd = f}) =< 1
    BY <2>2, <2>4, <2>5
  <2> QED BY <2>6, <2>7
<1> QED BY <1>1, CInvAlways, PTL

\* The raw pointer a task took from getSession stays alive until the task is done with it: the
\* session is still in its slot, and what is in a slot has not been deleted.
THEOREM NoSessionDangles == CSpec => []NoDanglingSession
<1>1. CInv => NoDanglingSession
  <2> SUFFICES ASSUME CInv, ~ overlapped, NEW w \in Workers, worker[w].at \in {"read", "serve"}
               PROVE  worker[w].s \notin freed
    BY DEF NoDanglingSession
  <2>1. PICK f \in Fds : At(w, f)
    BY Begun DEF CInv, TablesInv
  <2>2. worker[w].s = session[f]
    BY <2>1 DEF CInv, Orderly, FdOK, TaskOK
  <2> QED BY <2>2 DEF CInv, TablesInv, SessionsOnce
<1> QED BY <1>1, CInvAlways, PTL

\* An event is awaited only on a connection whose own session is in the slot of its number.
THEOREM SessionsAreOwn == CSpec => []SessionPerConnection
<1>1. CInv => SessionPerConnection
  BY DEF CInv, Orderly, FdOK, Own, SessionPerConnection, OwnSession
<1> QED BY <1>1, CInvAlways, PTL

\* When the event loop waits for the mutex it holds itself, in the doCleanup that handleTimeouts
\* calls, a thread is between removeSession and cancelTimer with that descriptor: a timer that
\* counts for a slot without a session is one that such a thread is about to cancel.
THEOREM StuckInCleanup == CSpec => []StuckOnlyInCleanup
<1>1. CInv => StuckOnlyInCleanup
  <2> SUFFICES ASSUME CInv, ~ overlapped, loop.at = "stuck"
               PROVE  \E w \in Workers :
                         /\ worker[w].at \in {"close", "cleanup", "unwatch", "untimer"}
                         /\ worker[w].fd = loop.fd
    BY DEF StuckOnlyInCleanup
  <2>1. PICK f \in Fds : f = loop.fd
    BY LoopParts DEF CInv, TablesInv, CTypes
  <2>2. TimerOK(f) /\ secretTable[f] # None /\ session[f] = None
    BY <2>1 DEF CInv, TablesInv, Stopped, Orderly, FdOK
  <2> QED BY <2>1, <2>2 DEF TimerOK, At
<1> QED BY <1>1, CInvAlways, PTL

\* The server closes no connection whose client is still there: the close of a task's
\* cleanConnection follows the end of the stream, and that of doCleanup finds the number free.
THEOREM OnlyEndedClosed == CSpec => ClosesOnlyEnded
<1>1. CInv /\ [CNext]_connVars =>
         [\A f \in Fds : ~ overlapped /\ conn[f] # None /\ conn'[f] = None =>
             peer[conn[f]] = "finished" \/ Expired(f)]_connVars
  <2> SUFFICES ASSUME CInv, [CNext]_connVars, NEW f \in Fds,
                      ~ overlapped, conn[f] # None, conn'[f] = None
               PROVE  peer[conn[f]] = "finished"
    OBVIOUS
  <2>1. TablesInv /\ CTypes /\ Orderly /\ conn \in [Fds -> Peers \cup {None}]
    BY DEF CInv, TablesInv, CTypes
  <2>2. PICK w \in Workers : Close(w)
    <3>1. ASSUME NEW k \in Peers, NEW g \in Fds, Accept(k, g) PROVE FALSE
      <4>1. conn' = [conn EXCEPT ![g] = k] /\ k # None
        BY <3>1, ConnectionsAssumption DEF Accept
      <4> QED BY <2>1, <4>1
    <3>2. ASSUME NEW k \in Peers, Connect(k) \/ Finish(k) PROVE FALSE
      BY <3>2 DEF Connect, Finish
    <3> QED BY <3>1, <3>2, KernelRests
  <2>3. worker[w].fd \in Fds /\ conn' = [conn EXCEPT ![worker[w].fd] = None]
    BY <2>1, <2>2, CloseAt
  <2>4. worker[w].fd = f
    BY <2>1, <2>3
  <2>5. worker[w].at = "close"
    BY <2>2 DEF Close
  <2>6. At(w, f)
    BY <2>4, <2>5 DEF At, NoTask
  <2>7. TaskOK(w, f)
    BY <2>1, <2>6 DEF Orderly, FdOK
  <2>8. worker[w].then \in {"cleanup", "done"}
    <3>1. PICK x \in WorkerState : x = worker[w]
      BY <2>1 DEF CTypes
    <3>2. x \in [at : {"remove", "close"}, fd : Fds, then : {"cleanup", "done"}]
      BY <2>5, <3>1, WorkerParts
    <3> QED BY <3>1, <3>2
  <2> QED BY <2>5, <2>7, <2>8 DEF TaskOK
<1> QED BY <1>1, CInvAlways, PTL DEF CSpec, ClosesOnlyEnded

=============================================================================
