------------------------------ MODULE AsyncOps ------------------------------
(***************************************************************************)
(* The one-shot and looping operations a program starts on an event loop:  *)
(* connect_async, accept_loop with its back-off, recv_async, and timers    *)
(* held by a timer_handle, on the dispatchers of Readiness.  A job is one  *)
(* such operation.  A step is one event of a batch with its whole callback *)
(* up to the user's handler; the handler itself may start, cancel and stop *)
(* other jobs, as may functions posted to the loop.                        *)
(***************************************************************************)
EXTENDS Readiness, SequencesExt

CONSTANTS Jobs,        \* the operations a run may start
          Scenarios,   \* which kinds the jobs may have together, and how many
                       \* descriptors the program holds for other purposes
          MaxArrivals  \* bound on the peers or datagrams that come to a socket

VARIABLES kind,      \* [job -> its kind]
          status,    \* [job -> "new", "active", "stopped" or "done"]
          net,       \* [job -> state of its connection, or length of its queue]
          arrived,   \* [job -> how many came to its socket]
          calls,     \* history: [job -> how often a one-time handler was called, up to 2]
          outcome,   \* history: [job -> what the handler of a connect was told]
          handle,    \* [job -> its timer_handle: the id and, history, whose timer it was]
          listenFd,  \* [job -> the descriptor of its socket when it was opened]
          backoff,   \* [job -> *backoff_ms]
          failures,  \* history: [job -> accepts in a row that hit the limit, up to 6]
          batch,     \* what is left of the events poll returned
          loop,      \* where the loop thread is
          current,   \* the timer or the listener whose callback runs
          handler,   \* a user's handler runs on the loop thread
          stale,     \* history: jobs whose callback got an event of another file
          robbed,    \* history: jobs whose timer was cancelled by a handle of another
          unarmed    \* history: listeners whose last back-off timer was not created

jobVars == <<kind, status, net, arrived, calls, outcome, handle, listenFd, backoff, failures>>
loopVars == <<batch, loop, current, handler>>
histVars == <<stale, robbed, unarmed>>
vars == <<backend, sys, jobVars, loopVars, histVars>>

Sock(j) == <<"sock", j>>
Conn == <<"conn">>
EmptyHandle == [id |-> 0, of |-> None]

\* Readiness of what a descriptor refers to.
Ready(f) ==
    IF f = None \/ f[1] # "sock" THEN {}
    ELSE CASE kind[f[2]] = "connect" ->
                IF net[f[2]] = "connecting" THEN {}
                ELSE IF net[f[2]] = "refused" THEN {"writable", "error"} ELSE {"writable"}
           [] OTHER -> IF net[f[2]] > 0 THEN {"readable"} ELSE {}

Init ==
    /\ backend \in {"epoll", "kqueue"}
    /\ \E sc \in Scenarios :
          /\ kind = sc.kinds
          /\ sys = [EmptySys EXCEPT !.file =
                       [fd \in Fds |-> IF fd <= sc.others THEN Conn ELSE None]]
    /\ status = [j \in Jobs |-> "new"]
    /\ net = [j \in Jobs |-> IF kind[j] = "connect" THEN "idle" ELSE 0]
    /\ arrived = [j \in Jobs |-> 0]
    /\ calls = [j \in Jobs |-> 0]
    /\ outcome = [j \in Jobs |-> None]
    /\ handle = [j \in Jobs |-> EmptyHandle]
    /\ listenFd = [j \in Jobs |-> 0]
    /\ backoff = [j \in Jobs |-> 100]
    /\ failures = [j \in Jobs |-> 0]
    /\ batch = <<>>
    /\ loop = "posts"
    /\ current = 0
    /\ handler = FALSE
    /\ stale = {} /\ robbed = {} /\ unarmed = {}

-----------------------------------------------------------------------------
(* What the program does on the loop thread *)

UserActs == loop = "posts" \/ handler

\* Only the handlers that must be called once are counted.
Called(j) ==
    calls' = IF kind[j] \in {"connect", "recv"}
             THEN [calls EXCEPT ![j] = Min({@ + 1, 2})] ELSE calls

Opened(j) == /\ listenFd' = [listenFd EXCEPT ![j] = LowestFree(sys)]
             /\ status' = [status EXCEPT ![j] = "active"]

\* A mutant of ConnectFailsAtOnce: the return after the callback is missing.
ConnectFailsAndGoesOn(j) ==
    /\ UserActs
    /\ kind[j] = "connect" /\ status[j] = "new" /\ calls[j] = 0
    /\ Called(j)
    /\ UNCHANGED <<backend, sys, kind, status, net, arrived, outcome, handle, listenFd, backoff,
                   failures, loopVars, histVars>>

\* connect_async when the socket cannot be created, an option fails or
\* connect() does: the handler is called at once and the socket is closed.
ConnectFailsAtOnce(j) ==
    /\ UserActs
    /\ kind[j] = "connect" /\ status[j] = "new"
    /\ status' = [status EXCEPT ![j] = "done"]
    /\ outcome' = [outcome EXCEPT ![j] = "failed"]
    /\ Called(j)
    /\ UNCHANGED <<backend, sys, kind, net, arrived, handle, listenFd, backoff, failures,
                   loopVars, histVars>>

\* connect_async otherwise: the timer first, then the registration; neither
\* result is looked at.
ConnectAsync(j) ==
    /\ UserActs
    /\ kind[j] = "connect" /\ status[j] = "new"
    /\ FreeFds(sys) # {}
    /\ LET fd == LowestFree(sys)
           t  == ScheduleTimer(OpenFile(sys, Sock(j)), <<"timeout", j>>, FALSE)
       IN /\ sys' = AddFd(t.sys, fd, {"writable"}, j)
          /\ handle' = [handle EXCEPT ![j] = [id |-> t.id, of |-> j]]
    /\ net' = [net EXCEPT ![j] = "connecting"]
    /\ Opened(j)
    /\ UNCHANGED <<backend, kind, arrived, calls, outcome, backoff, failures, loopVars, histVars>>

\* accept_loop on a listening socket, recv_async on a bound one.
StartReading(j) ==
    /\ UserActs
    /\ kind[j] \in {"listen", "recv"} /\ status[j] = "new"
    /\ FreeFds(sys) # {}
    /\ sys' = AddFd(OpenFile(sys, Sock(j)), LowestFree(sys), {"readable"}, j)
    /\ Opened(j)
    /\ UNCHANGED <<backend, kind, net, arrived, calls, outcome, handle, backoff, failures,
                   loopVars, histVars>>

\* event_loop::defer and repeat; a timer that cannot be created leaves an empty handle.
StartTimer(j) ==
    /\ UserActs
    /\ kind[j] \in {"defer", "repeat"} /\ status[j] = "new"
    /\ LET t == ScheduleTimer(sys, <<"user", j>>, kind[j] = "repeat")
       IN /\ sys' = t.sys
          /\ handle' = [handle EXCEPT ![j] = [id |-> t.id, of |-> j]]
          /\ status' = [status EXCEPT ![j] = IF t.id = 0 THEN "done" ELSE "active"]
    /\ UNCHANGED <<backend, kind, net, arrived, calls, outcome, listenFd, backoff, failures,
                   loopVars, histVars>>

\* cancel_timer(id_) of a handle, and the job whose timer that ends if it is not
\* the one the handle was made for.
Cancelled(s, h) == ReleaseTimer(CancelTimer(s, h.id), h.id)
Victim(h) ==
    IF h.id = 0 \/ sys.timers[h.id] = None THEN {} ELSE {sys.timers[h.id].cb[2]} \ {h.of}

\* cancel() of j's handle.  Cancelling a timer in its own callback is undefined
\* in both dispatchers, so the handler does not.
CancelVia(j) ==
    LET h == handle[j]
    IN /\ UserActs
       /\ kind[j] \in {"defer", "repeat"} /\ h.id # 0
       /\ ~(loop = "timer" /\ current = h.id)
       /\ sys' = Cancelled(sys, h)
       /\ status' = [status EXCEPT ![h.of] = IF @ = "active" THEN "stopped" ELSE @]
       /\ robbed' = robbed \cup Victim(h)

\* timer_handle::cancel and its destructor.
CancelHandle(j) ==
    /\ CancelVia(j)
    /\ handle' = [handle EXCEPT ![j] = EmptyHandle]
    /\ UNCHANGED <<backend, kind, net, arrived, calls, outcome, listenFd, backoff, failures,
                   loopVars, stale, unarmed>>

\* timer_handle's move assignment: the target's timer is cancelled.
MoveHandle(i, j) ==
    /\ i # j /\ kind[j] \in {"defer", "repeat"} /\ handle[j].id # 0
    /\ CancelVia(i)
    /\ handle' = [handle EXCEPT ![i] = handle[j], ![j] = EmptyHandle]
    /\ UNCHANGED <<backend, kind, net, arrived, calls, outcome, listenFd, backoff, failures,
                   loopVars, stale, unarmed>>

\* timer_handle::release: the timer goes on without a handle.
ReleaseHandle(j) ==
    /\ UserActs
    /\ kind[j] \in {"defer", "repeat"} /\ handle[j].id # 0
    /\ sys' = ReleaseTimer(sys, handle[j].id)
    /\ handle' = [handle EXCEPT ![j] = EmptyHandle]
    /\ UNCHANGED <<backend, kind, status, net, arrived, calls, outcome, listenFd, backoff,
                   failures, loopVars, histVars>>

\* listener.stop(): the socket is closed, and not removed from the dispatcher.
StopListener(j) ==
    /\ UserActs
    /\ kind[j] = "listen" /\ status[j] = "active"
    /\ sys' = CloseFd(sys, listenFd[j])
    /\ status' = [status EXCEPT ![j] = "stopped"]
    /\ net' = [net EXCEPT ![j] = 0]
    /\ UNCHANGED <<backend, kind, arrived, calls, outcome, handle, listenFd, backoff, failures,
                   loopVars, histVars>>

\* Any thread closes a connection it owns, or another descriptor of the program.
CloseConn(fd) ==
    /\ sys.file[fd] = Conn
    /\ sys' = CloseFd(sys, fd)
    /\ UNCHANGED <<backend, jobVars, loopVars, histVars>>

-----------------------------------------------------------------------------
(* The network and the clock *)

\* A connection attempt is answered; a peer or a datagram arrives.
Answer(j) ==
    /\ kind[j] = "connect" /\ net[j] = "connecting"
    /\ \E n \in {"established", "refused"} : net' = [net EXCEPT ![j] = n]
    /\ UNCHANGED <<backend, sys, kind, status, arrived, calls, outcome, handle, listenFd,
                   backoff, failures, loopVars, histVars>>

Arrive(j) ==
    /\ kind[j] \in {"listen", "recv"} /\ status[j] = "active"
    /\ arrived[j] < MaxArrivals
    /\ net' = [net EXCEPT ![j] = @ + 1]
    /\ arrived' = [arrived EXCEPT ![j] = @ + 1]
    /\ UNCHANGED <<backend, sys, kind, status, calls, outcome, handle, listenFd, backoff,
                   failures, loopVars, histVars>>

\* A one-shot timer expires once.
Expire(id) ==
    /\ sys.timers[id] # None /\ id \notin sys.expired
    /\ ~sys.timers[id].repeating =>
          /\ ~(loop = "timer" /\ current = id)
          /\ backend = "kqueue" => \A i \in 1..Len(batch) : ~(batch[i].timer /\ batch[i].id = id)
    /\ sys' = [sys EXCEPT !.expired = @ \cup {id}]
    /\ UNCHANGED <<backend, jobVars, loopVars, histVars>>

-----------------------------------------------------------------------------
(* poll and the callbacks *)

\* The wait returns with all events there are, in any order.
Poll ==
    /\ loop = "posts"
    /\ LET events == ReadyEvents(sys, [fd \in Fds |-> Ready(sys.file[fd])])
       IN events # {} /\ batch' \in SetToSeqs(events)
    /\ sys' = Polled(sys)
    /\ loop' = "batch"
    /\ UNCHANGED <<backend, jobVars, current, handler, histVars>>

PollReturns ==
    /\ loop = "batch" /\ batch = <<>>
    /\ loop' = "posts"
    /\ handler' = FALSE
    /\ UNCHANGED <<backend, sys, jobVars, batch, current, histVars>>

TakeEvent(e) == loop = "batch" /\ batch # <<>> /\ e = Head(batch) /\ batch' = Tail(batch)

\* The event is about another file than the one whose callback it reaches.
NoteStale(j, isStale) == stale' = IF isStale THEN stale \cup {j} ELSE stale

\* A mutant of Timeout: the callback of a connection that timed out is not called.
TimeoutSilent(j, s) ==
    /\ sys' = RemoveFd(s, listenFd[j])
    /\ handler' = FALSE
    /\ UNCHANGED <<status, outcome, calls, handle>>

\* connect_async's timer callback.
Timeout(j, s) ==
    /\ IF status[j] = "done"
       THEN sys' = s /\ handler' = FALSE /\ UNCHANGED <<status, outcome, calls, handle>>
       ELSE /\ sys' = ReleaseTimer(CloseFd(RemoveFd(s, listenFd[j]), listenFd[j]), handle[j].id)
            /\ handle' = [handle EXCEPT ![j] = EmptyHandle]
            /\ status' = [status EXCEPT ![j] = "done"]
            /\ outcome' = [outcome EXCEPT ![j] = "timed_out"]
            /\ Called(j)
            /\ handler' = TRUE

\* The back-off timer of accept_loop: the descriptor is the one of the failure.
BackoffOver(j, s) ==
    /\ sys' = ModifyFd(s, listenFd[j], {"readable"})
    /\ handler' = FALSE
    /\ UNCHANGED <<status, outcome, calls, handle>>

\* A timer of the program.
UserTimer(j, s) ==
    /\ sys' = s
    /\ Called(j)
    /\ status' = [status EXCEPT ![j] = IF kind[j] = "defer" THEN "done" ELSE @]
    /\ handler' = TRUE
    /\ UNCHANGED <<outcome, handle>>

\* An event that poll takes for a timer's; the expiry is read first.
DispatchTimer(e) ==
    LET cb == sys.timers[e.id].cb
        s  == [sys EXCEPT !.expired = @ \ {e.id}]
    IN /\ TakeEvent(e)
       /\ TimerHit(sys, e) # 0
       /\ loop' = "timer"
       /\ current' = e.id
       /\ \/ cb[1] = "timeout" /\ Timeout(cb[2], s)
          \/ cb[1] = "backoff" /\ BackoffOver(cb[2], s)
          \/ cb[1] = "user" /\ UserTimer(cb[2], s)
       /\ NoteStale(cb[2], ~e.timer \/ e.of[2] # cb)
       /\ UNCHANGED <<backend, kind, net, arrived, listenFd, backoff, failures, robbed, unarmed>>

\* After the callback a one-shot timer is closed and erased.
TimerDone ==
    /\ loop = "timer"
    /\ loop' = "batch" /\ handler' = FALSE /\ current' = 0
    /\ sys' = IF sys.timers[current].repeating THEN sys ELSE CancelTimer(sys, current)
    /\ UNCHANGED <<backend, jobVars, batch, histVars>>

\* An event for a socket with a callback of a job of the given kind.
SocketHit(e, j, k) ==
    /\ TakeEvent(e)
    /\ TimerHit(sys, e) = 0
    /\ ~(backend = "kqueue" /\ e.timer)
    /\ sys.callbacks[e.id] = j
    /\ kind[j] = k
    /\ NoteStale(j, e.of # Sock(j))

\* The timer and the registration go, in this order.
Completed(fd, j) == RemoveFd(Cancelled(sys, handle[j]), fd)

SoError(j) == net[j] = "refused"

\* The writable callback of connect_async.
ConnectDone(e, j) ==
    LET fd  == e.id
        s   == Completed(fd, j)
        bad == SoError(j)
    IN /\ SocketHit(e, j, "connect")
       /\ status[j] # "done"
       /\ status' = [status EXCEPT ![j] = "done"]
       /\ sys' = IF bad THEN CloseFd(s, fd) ELSE [s EXCEPT !.file[fd] = Conn]
       /\ outcome' = [outcome EXCEPT ![j] = IF bad THEN "failed" ELSE "connected"]
       /\ handle' = [handle EXCEPT ![j] = EmptyHandle]
       /\ Called(j)
       /\ handler' = TRUE
       /\ robbed' = robbed \cup Victim(handle[j])
       /\ UNCHANGED <<backend, kind, net, arrived, listenFd, backoff, failures, loop, current,
                      unarmed>>

\* The callback of recv_async: one attempt, whatever it gives.
RecvDone(e, j) ==
    /\ SocketHit(e, j, "recv")
    /\ "readable" \in e.ev
    /\ status' = [status EXCEPT ![j] = "done"]
    /\ sys' = [RemoveFd(sys, e.id) EXCEPT !.file[e.id] = Conn]
    /\ net' = [net EXCEPT ![j] = IF @ > 0 THEN @ - 1 ELSE @]
    /\ Called(j)
    /\ handler' = TRUE
    /\ UNCHANGED <<backend, kind, arrived, outcome, handle, listenFd, backoff, failures, loop,
                   current, robbed, unarmed>>

\* The callback of accept_loop enters its loop.
AcceptBegins(e, j) ==
    /\ SocketHit(e, j, "listen")
    /\ "readable" \in e.ev
    /\ loop' = "accept" /\ current' = j /\ handler' = FALSE
    /\ UNCHANGED <<backend, sys, jobVars, robbed, unarmed>>

\* An event nobody waits for: no callback, or a callback that returns at once.
Ignored(e) ==
    /\ TakeEvent(e)
    /\ TimerHit(sys, e) = 0
    /\ \/ backend = "kqueue" /\ e.timer
       \/ sys.callbacks[e.id] = None
       \/ /\ sys.callbacks[e.id] # None
          /\ kind[sys.callbacks[e.id]] \in {"listen", "recv"}
          /\ "readable" \notin e.ev
    /\ handler' = FALSE
    /\ UNCHANGED <<backend, sys, jobVars, loop, current, histVars>>

-----------------------------------------------------------------------------
(* accept_loop *)

\* listener.accept() finds no free descriptor.  Linux reserves one before it
\* looks at the backlog, the BSDs after it.
HitsLimit(j) == FreeFds(sys) = {} /\ (backend = "epoll" \/ net[j] > 0)

Accepting(j) == loop = "accept" /\ current = j
Leaves == loop' = "batch" /\ current' = 0

\* A connection: the delay is reset and the handler gets the socket.
AcceptOne(j) ==
    /\ Accepting(j) /\ status[j] = "active" /\ ~HitsLimit(j) /\ net[j] > 0
    /\ sys' = OpenFile(sys, Conn)
    /\ net' = [net EXCEPT ![j] = @ - 1]
    /\ backoff' = [backoff EXCEPT ![j] = 100]
    /\ failures' = [failures EXCEPT ![j] = 0]
    /\ Called(j)
    /\ handler' = TRUE
    /\ UNCHANGED <<backend, kind, status, arrived, outcome, handle, listenFd, batch, loop,
                   current, histVars>>

\* would_block, or the listener was stopped by its handler and accept says so.
AcceptEnds(j) ==
    /\ Accepting(j)
    /\ \/ /\ status[j] = "active" /\ ~HitsLimit(j) /\ net[j] = 0
          /\ handler' = FALSE /\ UNCHANGED calls
       \/ /\ status[j] = "stopped"
          /\ handler' = TRUE /\ Called(j)
    /\ Leaves
    /\ UNCHANGED <<backend, sys, kind, status, net, arrived, outcome, handle, listenFd, backoff,
                   failures, batch, histVars>>

NextDelay(d) == Min({d * 2, 5000})

\* A mutant of DeferReleased: the handle of the timer is dropped, which cancels it.
DeferDropped(s, cb) ==
    LET t == ScheduleTimer(s, cb, FALSE)
    IN [sys |-> ReleaseTimer(CancelTimer(t.sys, t.id), t.id), id |-> t.id]

DeferReleased(s, cb) ==
    LET t == ScheduleTimer(s, cb, FALSE) IN [sys |-> ReleaseTimer(t.sys, t.id), id |-> t.id]

\* fd_limit_reached: interest off, a released timer to turn it on, the handler.
\* Another thread may close a descriptor before the timer is created.
AcceptLimit(j) ==
    /\ Accepting(j) /\ status[j] = "active" /\ HitsLimit(j)
    /\ \E closed \in {None} \cup {fd \in Fds : sys.file[fd] = Conn} :
         LET muted == ModifyFd(sys, listenFd[j], {})
             s == IF closed = None THEN muted ELSE CloseFd(muted, closed)
             t == DeferReleased(s, <<"backoff", j>>)
         IN /\ sys' = t.sys
            /\ unarmed' = IF t.id = 0 THEN unarmed \cup {j} ELSE unarmed \ {j}
    /\ backoff' = [backoff EXCEPT ![j] = NextDelay(@)]
    /\ failures' = [failures EXCEPT ![j] = Min({@ + 1, 6})]
    /\ Called(j)
    /\ handler' = TRUE
    /\ Leaves
    /\ UNCHANGED <<backend, kind, status, net, arrived, outcome, handle, listenFd, batch, stale,
                   robbed>>

-----------------------------------------------------------------------------
Program(j) ==
    \/ ConnectFailsAtOnce(j) \/ ConnectAsync(j) \/ StartReading(j) \/ StartTimer(j)
    \/ CancelHandle(j) \/ ReleaseHandle(j) \/ StopListener(j)
    \/ \E i \in Jobs : MoveHandle(i, j)

Dispatch ==
    \E e \in {batch[i] : i \in 1..Len(batch)} :
        \/ DispatchTimer(e) \/ Ignored(e)
        \/ \E j \in Jobs : ConnectDone(e, j) \/ RecvDone(e, j) \/ AcceptBegins(e, j)

LoopStep ==
    \/ Poll \/ PollReturns \/ Dispatch \/ TimerDone
    \/ \E j \in Jobs : AcceptOne(j) \/ AcceptEnds(j) \/ AcceptLimit(j)

Next ==
    \/ \E j \in Jobs : Program(j) \/ Answer(j) \/ Arrive(j)
    \/ \E fd \in Fds : CloseConn(fd)
    \/ \E id \in TimerIds : Expire(id)
    \/ LoopStep

\* The loop thread runs, handlers return, and clocks advance.
Fairness == WF_vars(LoopStep) /\ \A id \in TimerIds : WF_vars(Expire(id))

Spec == Init /\ [][Next]_vars /\ Fairness

-----------------------------------------------------------------------------
(* Properties *)

\* A connect or a receive calls its handler once: the timeout and the completion
\* of connect_async never both do, in whatever order a batch has them.  When
\* connect_async has called its handler nothing of it is left: no socket of its
\* own, no registration or callback on the descriptor, no timer that would fire.
\* It reports a connection only when there is one, unless the callback got an
\* event that an earlier owner of the descriptor had caused.
CompletesOnce ==
    \A j \in Jobs :
        /\ kind[j] \in {"connect", "recv"} => calls[j] = IF status[j] = "done" THEN 1 ELSE 0
        /\ kind[j] = "connect" /\ status[j] = "done" =>
              /\ \A fd \in Fds : sys.file[fd] # Sock(j) /\ sys.callbacks[fd] # j
              /\ \A id \in TimerIds : sys.timers[id] # None /\ sys.timers[id].cb = <<"timeout", j>>
                    => loop = "timer" /\ current = id
        /\ outcome[j] = "connected" => net[j] = "established" \/ j \in stale

\* Every timerfd belongs to a timer and every timer of epoll to a timerfd: none
\* leaks when timers fire, are cancelled or lose their handle.  With kqueue a
\* handle cancels the timer it was made for and no other.
TimersAccounted ==
    IF backend = "kqueue" THEN robbed = {}
    ELSE \A fd \in Fds : sys.timers[fd] # None <=> sys.file[fd] # None /\ sys.file[fd][1] = "timerfd"

\* A connection attempt with a timer comes to an end, whether it is answered or not.
ConnectCompletes ==
    \A j \in Jobs : kind[j] = "connect" /\ status[j] = "active" /\ handle[j].id # 0
                        ~> status[j] = "done" \/ j \in robbed

\* The listener has no interest in connections.
Muted(j) ==
    kind[j] = "listen" /\ status[j] = "active" /\ sys.reg[listenFd[j]] = {}

\* The delay of accept_loop after n failures in a row is 100 ms doubled n times,
\* at most 5 s, and a listener that backed off listens again, if its timer could be
\* created.
BackoffResumes ==
    /\ [](\A j \in Jobs : backoff[j] = Min({100 * 2^failures[j], 5000}))
    /\ \A j \in Jobs :
          Muted(j) /\ j \notin unarmed ~> ~Muted(j) \/ j \in robbed \cup unarmed
=============================================================================
