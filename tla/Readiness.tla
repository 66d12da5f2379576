----------------------------- MODULE Readiness ------------------------------
(***************************************************************************)
(* The readiness dispatchers: epoll_dispatcher (src/event/epoll.cpp) and   *)
(* kqueue_dispatcher (src/event/kqueue.cpp) over the descriptor table of   *)
(* the process.  A callback calls several of their methods in one go, so   *)
(* the methods are operators from one value of sys to the next.  The       *)
(* kernel hands out the lowest free descriptor, and Fds is the descriptor  *)
(* limit of the process: when no descriptor is free, whatever needs one    *)
(* fails.  Timers of epoll are descriptors, those of kqueue are not.       *)
(***************************************************************************)
EXTENDS Integers, Sequences, FiniteSets, FiniteSetsExt

CONSTANTS Fds,       \* the descriptors, 1..n
          MaxTimers, \* bound on the timer ids of kqueue
          None       \* no file, no registration, no callback, no timer

ASSUME ReadinessAssumption ==
    /\ Fds = 1..Cardinality(Fds)
    /\ MaxTimers \in Nat

VARIABLES backend,  \* "epoll" or "kqueue"
          sys       \* the dispatcher's maps and the kernel's tables

TimerIds == Fds \cup 1..MaxTimers

\* file: what a descriptor refers to.  reg: the interest the kernel has for it.
\* callbacks, interests, timers: callbacks_, interests_ (kqueue only) and
\* timer_callbacks_.  expired: timers whose expiry poll has not yet seen.  held:
\* the ids of kqueue timers that a timer_handle may still name.
EmptySys ==
    [file      |-> [fd \in Fds |-> None],
     reg       |-> [fd \in Fds |-> None],
     callbacks |-> [fd \in Fds |-> None],
     interests |-> [fd \in Fds |-> None],
     timers    |-> [id \in TimerIds |-> None],
     expired   |-> {},
     held      |-> {}]

FreeFds(s) == {fd \in Fds : s.file[fd] = None}
LowestFree(s) == Min(FreeFds(s))
OpenFile(s, f) == [s EXCEPT !.file[LowestFree(s)] = f]

\* close(fd): the kernel forgets the registration, the maps do not.
CloseFd(s, fd) == [s EXCEPT !.file[fd] = None, !.reg[fd] = None]

-----------------------------------------------------------------------------
(* epoll *)

EpollAdd(s, fd, interest, cb) ==
    IF s.file[fd] = None \/ s.reg[fd] # None THEN s
    ELSE [s EXCEPT !.reg[fd] = interest, !.callbacks[fd] = cb]

EpollModify(s, fd, interest) ==
    IF s.reg[fd] = None THEN s ELSE [s EXCEPT !.reg[fd] = interest]

\* The callback stays when EPOLL_CTL_DEL fails.
EpollRemove(s, fd) ==
    IF s.reg[fd] = None THEN s
    ELSE [s EXCEPT !.reg[fd] = None, !.callbacks[fd] = None]

\* The id is the timerfd, 0 when none can be created.
EpollScheduleTimer(s, cb, repeat) ==
    IF FreeFds(s) = {} THEN [sys |-> s, id |-> 0]
    ELSE LET tfd == LowestFree(s)
         IN [sys |-> [s EXCEPT !.file[tfd] = <<"timerfd", cb>>, !.reg[tfd] = {"readable"},
                               !.timers[tfd] = [cb |-> cb, repeating |-> repeat]],
             id  |-> tfd]

\* A mutant of EpollCancelTimer: the timerfd is not closed.
EpollCancelNoClose(s, id) ==
    IF id = 0 \/ s.timers[id] = None THEN s
    ELSE [s EXCEPT !.reg[id] = None, !.timers[id] = None, !.expired = @ \ {id}]

EpollCancelTimer(s, id) ==
    IF id = 0 \/ s.timers[id] = None THEN s
    ELSE [CloseFd(s, id) EXCEPT !.timers[id] = None, !.expired = @ \ {id}]

\* ready[fd] is what the file behind fd is ready for.  epoll_wait: readiness within
\* the interest, and errors always.
EpollEvents(s, ready) ==
    {[timer |-> FALSE, id |-> fd, of |-> s.file[fd],
      ev |-> ready[fd] \cap (s.reg[fd] \cup {"error"})] :
        fd \in {fd \in Fds : /\ s.reg[fd] # None
                             /\ s.timers[fd] = None
                             /\ ready[fd] \cap (s.reg[fd] \cup {"error"}) # {}}}
    \cup {[timer |-> TRUE, id |-> fd, of |-> s.file[fd], ev |-> {"readable"}] :
            fd \in s.expired}

-----------------------------------------------------------------------------
(* kqueue *)

Filters(s, fd) == IF s.reg[fd] = None THEN {} ELSE s.reg[fd]
Tracked(s, fd) == IF s.interests[fd] = None THEN {} ELSE s.interests[fd]

\* apply_interest: EV_ADD for each wanted filter.
ApplyInterest(s, fd, interest) == [s EXCEPT !.reg[fd] = Filters(s, fd) \cup interest]

KqueueAdd(s, fd, interest, cb) ==
    IF s.file[fd] = None THEN s
    ELSE [ApplyInterest(s, fd, interest) EXCEPT !.callbacks[fd] = cb,
                                                !.interests[fd] = interest]

\* Only the filters that differ from interests_ are changed, read before write;
\* the kernel stops at the first change it refuses: a deletion of a filter that
\* is not there, any change of a descriptor that is not open.
KqueueModify(s, fd, interest) ==
    LET had == Tracked(s, fd)
        add == interest \ had
        del == had \ interest
        readOk  == "readable" \in del => "readable" \in Filters(s, fd)
        writeOk == "writable" \in del => "writable" \in Filters(s, fd)
        change(fs, f) == (fs \cup (add \cap {f})) \ (del \cap {f})
        afterRead == change(Filters(s, fd), "readable")
    IN  IF add \cup del = {} THEN [s EXCEPT !.interests[fd] = interest]
        ELSE IF s.file[fd] = None \/ ~readOk THEN s
        ELSE IF ~writeOk THEN [s EXCEPT !.reg[fd] = afterRead]
        ELSE [s EXCEPT !.reg[fd] = change(afterRead, "writable"),
                       !.interests[fd] = interest]

\* EV_DELETE of the tracked filters, read before write.  The error is ignored, but the
\* kernel stops at it: a read filter that is gone leaves the write filter in place.
KqueueRemove(s, fd) ==
    LET refused == "readable" \in Tracked(s, fd) \ Filters(s, fd)
    IN  [s EXCEPT !.reg[fd] = IF s.file[fd] = None THEN None
                              ELSE IF refused THEN Filters(s, fd)
                              ELSE Filters(s, fd) \ Tracked(s, fd),
                  !.interests[fd] = None, !.callbacks[fd] = None]

\* next_timer_id_ only grows, so an id is never the one of an earlier timer; here
\* an id comes back once no timer has it and no handle can name it.
KqueueScheduleTimer(s, cb, repeat) ==
    LET id == Min({i \in TimerIds : s.timers[i] = None /\ i \notin s.held})
    IN [sys |-> [s EXCEPT !.timers[id] = [cb |-> cb, repeating |-> repeat],
                          !.held = @ \cup {id}],
        id  |-> id]

KqueueCancelTimer(s, id) ==
    IF id = 0 \/ s.timers[id] = None THEN s
    ELSE [s EXCEPT !.timers[id] = None, !.expired = @ \ {id}]

\* kevent: one event per filter.
KqueueEvents(s, ready) ==
    UNION {{[timer |-> FALSE, id |-> fd, of |-> s.file[fd], ev |-> {f}] :
              f \in Filters(s, fd) \cap ready[fd]} :
                fd \in {fd \in Fds : s.file[fd] # None}}
    \cup {[timer |-> TRUE, id |-> id, of |-> <<"timer", s.timers[id].cb>>,
           ev |-> {"readable"}] : id \in s.expired}

-----------------------------------------------------------------------------
(* dispatcher.hpp: the interface, by backend *)

AddFd(s, fd, interest, cb) ==
    IF backend = "epoll" THEN EpollAdd(s, fd, interest, cb)
                         ELSE KqueueAdd(s, fd, interest, cb)
ModifyFd(s, fd, interest) ==
    IF backend = "epoll" THEN EpollModify(s, fd, interest) ELSE KqueueModify(s, fd, interest)
RemoveFd(s, fd) ==
    IF backend = "epoll" THEN EpollRemove(s, fd) ELSE KqueueRemove(s, fd)
ScheduleTimer(s, cb, repeat) ==
    IF backend = "epoll" THEN EpollScheduleTimer(s, cb, repeat)
                         ELSE KqueueScheduleTimer(s, cb, repeat)
CancelTimer(s, id) ==
    IF backend = "epoll" THEN EpollCancelTimer(s, id) ELSE KqueueCancelTimer(s, id)
\* timer_handle::release: the handle forgets the id.
ReleaseTimer(s, id) == [s EXCEPT !.held = @ \ {id}]

ReadyEvents(s, ready) ==
    IF backend = "epoll" THEN EpollEvents(s, ready) ELSE KqueueEvents(s, ready)

\* What poll has consumed when it returns: a one-shot timer of kqueue is gone
\* from the kernel, a timerfd stays readable until it is read.
Polled(s) ==
    IF backend = "epoll" THEN s
    ELSE [s EXCEPT !.expired = {}]

\* Which timer an event reaches, 0 if none: epoll looks the descriptor up in
\* timer_callbacks_ whatever it was when the event happened.
TimerHit(s, e) ==
    IF (backend = "epoll" \/ e.timer) /\ s.timers[e.id] # None THEN e.id ELSE 0
=============================================================================
