----------------------------- MODULE EventLoop ------------------------------
(***************************************************************************)
(* event_loop (include/socketpp/event/loop.hpp) on the epoll dispatcher:   *)
(* run, stop, post, the swap-buffer post queue and the waker.  A step is   *)
(* one access to shared state: the push under post_lock_ and the write to  *)
(* the eventfd are two steps, as are the two stores at the start of run.   *)
(* Which sockets and timers are ready is not modelled: an iteration may    *)
(* dispatch events at any time, and their handlers may post and stop.      *)
(***************************************************************************)
EXTENDS Naturals, Sequences

CONSTANTS Threads,     \* threads other than the loop's that call post and stop
          LoopThread,  \* the thread that calls run, once
          Posts,       \* the callbacks; each is posted at most once
          StopPosts,   \* those that are [this]() { loop.stop(); }
          PollMayFail  \* whether epoll_wait may fail with other than EINTR

ASSUME LoopAssumption ==
    /\ LoopThread \notin Threads
    /\ StopPosts \subseteq Posts
    /\ PollMayFail \in BOOLEAN

VARIABLES active,         \* *active_queue_
          batch,          \* what is left of *drain_queue_
          current,        \* the callback drain_posts executes, at most one
          running,        \* running_
          stopRequested,  \* stop_requested_
          signaled,       \* the eventfd counter is not zero
          loop,           \* where the loop thread is in run
          caller,         \* [thread -> where it is in post or stop]
          posted,         \* history: callbacks in the order they were pushed
          executed,       \* history: callbacks in the order they were started
          stops           \* history: the threads that have called stop

vars == <<active, batch, current, running, stopRequested, signaled, loop, caller,
          posted, executed, stops>>

Callers == Threads \cup {LoopThread}

\* "entered": running_ is set, stop_requested_ not yet reset; "test": at the
\* while; "swap", "drain": in drain_posts; "poll": in epoll_wait; "woken":
\* dispatching a batch in which the waker is still to come; "dispatch": past it.
LoopStates == {"new", "entered", "test", "swap", "drain", "poll", "woken",
               "dispatch", "exited"}

Elements(s) == {s[i] : i \in 1..Len(s)}

TypeOK ==
    /\ active \in Seq(Posts)
    /\ batch \in Seq(Posts)
    /\ current \in SUBSET Posts
    /\ running \in BOOLEAN
    /\ stopRequested \in BOOLEAN
    /\ signaled \in BOOLEAN
    /\ loop \in LoopStates
    /\ caller \in [Callers -> {"idle", "wake"}]
    /\ posted \in Seq(Posts)
    /\ executed \in Seq(Posts)
    /\ stops \subseteq Callers
    /\ running <=> loop \notin {"new", "exited"}
    /\ loop # "drain" => current = {} /\ batch = <<>>

Init ==
    /\ active = <<>>
    /\ batch = <<>>
    /\ current = {}
    /\ running = FALSE
    /\ stopRequested = FALSE
    /\ signaled = FALSE
    /\ loop = "new"
    /\ caller = [c \in Callers |-> "idle"]
    /\ posted = <<>>
    /\ executed = <<>>
    /\ stops = {}

-----------------------------------------------------------------------------
(* post and stop *)

\* The loop thread calls post and stop from callbacks and event handlers.
Calling(c) ==
    /\ caller[c] = "idle"
    /\ c = LoopThread => current # {} \/ loop \in {"woken", "dispatch"}

Post(c, p) ==
    /\ Calling(c)
    /\ p \notin Elements(posted)
    /\ active' = Append(active, p)
    /\ posted' = Append(posted, p)
    /\ caller' = [caller EXCEPT ![c] = "wake"]
    /\ UNCHANGED <<batch, current, running, stopRequested, signaled, loop, executed, stops>>

\* The store in stop, which a thread calls at most once.
Stop(c) ==
    /\ Calling(c)
    /\ stopRequested' = TRUE
    /\ c \notin stops
    /\ stops' = stops \cup {c}
    /\ caller' = [caller EXCEPT ![c] = "wake"]
    /\ UNCHANGED <<active, batch, current, running, signaled, loop, posted, executed>>

\* dispatcher_->wake() at the end of post and of stop.
Wake(c) ==
    /\ caller[c] = "wake"
    /\ signaled' = TRUE
    /\ caller' = [caller EXCEPT ![c] = "idle"]
    /\ UNCHANGED <<active, batch, current, running, stopRequested, loop, posted,
                   executed, stops>>

-----------------------------------------------------------------------------
(* run *)

Run ==
    /\ loop = "new"
    /\ running' = TRUE
    /\ loop' = "entered"
    /\ UNCHANGED <<active, batch, current, stopRequested, signaled, caller, posted,
                   executed, stops>>

ResetStop ==
    /\ loop = "entered"
    /\ stopRequested' = FALSE
    /\ loop' = "test"
    /\ UNCHANGED <<active, batch, current, running, signaled, caller, posted,
                   executed, stops>>

\* The condition of the while, and the store after it.
TestStop ==
    /\ loop = "test"
    /\ loop' = IF stopRequested THEN "exited" ELSE "swap"
    /\ running' = ~stopRequested
    /\ UNCHANGED <<active, batch, current, stopRequested, signaled, caller, posted,
                   executed, stops>>

\* A mutant of Swap: the queue that was drained is not cleared before reuse.
SwapNoClear ==
    /\ loop = "swap"
    /\ batch' = active
    /\ loop' = "drain"
    /\ UNCHANGED <<active, current, running, stopRequested, signaled, caller, posted,
                   executed, stops>>

\* The swap under post_lock_; drain_queue_ was left empty by the last drain.
Swap ==
    /\ loop = "swap"
    /\ batch' = active
    /\ active' = <<>>
    /\ loop' = "drain"
    /\ UNCHANGED <<current, running, stopRequested, signaled, caller, posted,
                   executed, stops>>

\* A mutant of Execute: the posted stop does not wake the dispatcher.
ExecuteStopNoWake ==
    /\ loop = "drain" /\ current = {} /\ batch # <<>>
    /\ current' = {Head(batch)}
    /\ batch' = Tail(batch)
    /\ executed' = Append(executed, Head(batch))
    /\ stopRequested' = (stopRequested \/ Head(batch) \in StopPosts)
    /\ UNCHANGED <<active, running, signaled, loop, caller, posted, stops>>

\* fn() is called; a posted stop stores the flag and wakes the dispatcher.
Execute ==
    /\ loop = "drain" /\ current = {} /\ batch # <<>>
    /\ current' = {Head(batch)}
    /\ batch' = Tail(batch)
    /\ executed' = Append(executed, Head(batch))
    /\ stopRequested' = (stopRequested \/ Head(batch) \in StopPosts)
    /\ signaled' = (signaled \/ Head(batch) \in StopPosts)
    /\ UNCHANGED <<active, running, loop, caller, posted, stops>>

CallbackReturns ==
    /\ current # {}
    /\ caller[LoopThread] = "idle"
    /\ current' = {}
    /\ UNCHANGED <<active, batch, running, stopRequested, signaled, loop, caller, posted,
                   executed, stops>>

DrainDone ==
    /\ loop = "drain" /\ current = {} /\ batch = <<>>
    /\ loop' = "poll"
    /\ UNCHANGED <<active, batch, current, running, stopRequested, signaled, caller, posted,
                   executed, stops>>

-----------------------------------------------------------------------------
(* poll(-1) of the epoll dispatcher *)

Poll(next) ==
    /\ loop = "poll"
    /\ loop' = next
    /\ UNCHANGED <<active, batch, current, stopRequested, signaled, caller, posted,
                   executed, stops>>

\* epoll_wait returns a batch that holds the waker.
PollWoken == signaled /\ Poll("woken") /\ UNCHANGED running

\* epoll_wait returns other events only, or is interrupted.
PollEvents == ~signaled /\ Poll("dispatch") /\ UNCHANGED running

\* epoll_wait fails: run breaks out of the while.
PollFails == PollMayFail /\ Poll("exited") /\ running' = FALSE

\* waker_.drain(), between the handlers of the same batch.
DrainWaker ==
    /\ loop = "woken"
    /\ caller[LoopThread] = "idle"
    /\ signaled' = FALSE
    /\ loop' = "dispatch"
    /\ UNCHANGED <<active, batch, current, running, stopRequested, caller, posted,
                   executed, stops>>

DispatchDone ==
    /\ loop = "dispatch"
    /\ caller[LoopThread] = "idle"
    /\ loop' = "test"
    /\ UNCHANGED <<active, batch, current, running, stopRequested, signaled, caller, posted,
                   executed, stops>>

-----------------------------------------------------------------------------
LoopStep ==
    \/ Run \/ ResetStop \/ TestStop
    \/ Swap \/ Execute \/ CallbackReturns \/ DrainDone
    \/ PollWoken \/ DrainWaker \/ DispatchDone

Next ==
    \/ \E c \in Callers : Stop(c) \/ Wake(c) \/ \E p \in Posts : Post(c, p)
    \/ LoopStep
    \/ PollEvents
    \/ PollFails

Spec == Init /\ [][Next]_vars

\* The loop thread is scheduled, a call of post or stop reaches its wake, and
\* callbacks return.  No I/O event is promised.
FairSpec ==
    /\ Spec
    /\ WF_vars(LoopStep)
    /\ \A c \in Callers : WF_vars(Wake(c))

-----------------------------------------------------------------------------
\* Callbacks are started in the order post pushed them, each once and none
\* lost, whatever is pushed while a batch is drained ("batched and executed in
\* FIFO order").
PostsInOrder == executed \o batch \o active = posted

\* The loop never sleeps over work: while it is in epoll_wait, a pushed
\* callback or a requested stop has signalled the eventfd or is about to.
NoSleepOverWork ==
    loop = "poll" /\ (active # <<>> \/ stopRequested) =>
        signaled \/ \E c \in Callers : caller[c] = "wake"

\* A posted stop ends run, even when it is posted before run starts ("The
\* posted callback executes after run()'s reset, guaranteeing the stop takes
\* effect").
PostedStopEndsRun == \A p \in StopPosts : p \in Elements(posted) ~> loop = "exited"
=============================================================================
