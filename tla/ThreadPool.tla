----------------------------- MODULE ThreadPool -----------------------------
(***************************************************************************)
(* The fixed-size pool of src/high/thread_pool.cpp.  A step is one         *)
(* critical section of mutex_, one notification, or one task body.  Both   *)
(* notifications happen after the mutex is released, so other threads run  *)
(* between a push and its notify_one, and between stopped_ and notify_all. *)
(***************************************************************************)
EXTENDS Naturals, Sequences, FiniteSets

CONSTANTS Workers,   \* the threads of workers_
          Clients,   \* threads outside the pool that call submit and shutdown
          Tasks,     \* the callables; each is submitted at most once
          MaxQueueSize  \* max_queue_size_, 0 for no limit

ASSUME PoolAssumption ==
    /\ Workers # {} /\ IsFiniteSet(Workers)
    /\ IsFiniteSet(Clients)
    /\ Workers \cap Clients = {}
    /\ MaxQueueSize \in Nat

VARIABLES queue,     \* queue_
          stopped,   \* stopped_
          worker,    \* [Workers -> where the thread is in its loop]
          task,      \* [Workers -> the task it executes, as a set of at most one]
          caller,    \* [Workers \cup Clients -> where it is in submit or shutdown]
          accepted,  \* history: tasks for which submit pushed, in that order
          rejected,  \* history: tasks for which submit returned false
          done       \* history: tasks whose body returned

vars == <<queue, stopped, worker, task, caller, accepted, rejected, done>>

Callers == Workers \cup Clients

\* "ready": about to take mutex_ and test the predicate of cv_.wait;
\* "waiting": blocked in cv_; "running": in task(); "exited": returned.
WorkerStates == {"ready", "waiting", "running", "exited"}

\* "idle": in no pool operation; "notify": pushed, notify_one still to come;
\* "notify_all", "join": the two steps of shutdown after its critical section.
CallerStates == {"idle", "notify", "notify_all", "join", "returned"}

In(state) == {w \in Workers : worker[w] = state}

TypeOK ==
    /\ queue \in Seq(Tasks)
    /\ stopped \in BOOLEAN
    /\ worker \in [Workers -> WorkerStates]
    /\ task \in [Workers -> SUBSET Tasks]
    /\ caller \in [Callers -> CallerStates]
    /\ accepted \in Seq(Tasks)
    /\ rejected \subseteq Tasks
    /\ done \subseteq Tasks
    /\ MaxQueueSize > 0 => Len(queue) <= MaxQueueSize
    /\ \A w \in Workers : Cardinality(task[w]) = IF worker[w] = "running" THEN 1 ELSE 0

Init ==
    /\ queue = <<>>
    /\ stopped = FALSE
    /\ worker = [w \in Workers |-> "ready"]
    /\ task = [w \in Workers |-> {}]
    /\ caller = [c \in Callers |-> "idle"]
    /\ accepted = <<>>
    /\ rejected = {}
    /\ done = {}
-----------------------------------------------------------------------------
(* submit *)

\* A client may call at any time; a worker only from the task it executes.
Calling(c) == caller[c] = "idle" /\ (c \in Workers => worker[c] = "running")

Fresh(t) == t \notin rejected /\ \A i \in DOMAIN accepted : accepted[i] # t

Full == MaxQueueSize > 0 /\ Len(queue) >= MaxQueueSize

\* A mutant of Submit: stopped_ is not tested.
SubmitUnchecked(c, t) ==
    /\ Calling(c)
    /\ Fresh(t)
    /\ ~Full
    /\ queue' = Append(queue, t)
    /\ accepted' = Append(accepted, t)
    /\ caller' = [caller EXCEPT ![c] = "notify"]
    /\ UNCHANGED <<stopped, worker, task, rejected, done>>

\* The critical section of a submit that pushes the task.
Submit(c, t) ==
    /\ Calling(c)
    /\ Fresh(t)
    /\ ~stopped
    /\ ~Full
    /\ queue' = Append(queue, t)
    /\ accepted' = Append(accepted, t)
    /\ caller' = [caller EXCEPT ![c] = "notify"]
    /\ UNCHANGED <<stopped, worker, task, rejected, done>>

\* The two early returns of submit.
SubmitRejected(c, t) ==
    /\ Calling(c)
    /\ Fresh(t)
    /\ stopped \/ Full
    /\ rejected' = rejected \cup {t}
    /\ UNCHANGED <<queue, stopped, worker, task, caller, accepted, done>>

\* A mutant of NotifyOne: the notification is missing.
NotifyNobody(c) ==
    /\ caller[c] = "notify"
    /\ caller' = [caller EXCEPT ![c] = "idle"]
    /\ UNCHANGED <<queue, stopped, worker, task, accepted, rejected, done>>

\* cv_.notify_one() unblocks one of the threads blocked at that moment, if any.
NotifyOne(c) ==
    /\ caller[c] = "notify"
    /\ caller' = [caller EXCEPT ![c] = "idle"]
    /\ \/ /\ In("waiting") = {}
          /\ UNCHANGED worker
       \/ \E w \in In("waiting") : worker' = [worker EXCEPT ![w] = "ready"]
    /\ UNCHANGED <<queue, stopped, task, accepted, rejected, done>>

-----------------------------------------------------------------------------
(* the loop of a worker *)

\* The predicate of cv_.wait is false: the mutex is released and w blocks.
Wait(w) ==
    /\ worker[w] = "ready"
    /\ ~stopped /\ queue = <<>>
    /\ worker' = [worker EXCEPT ![w] = "waiting"]
    /\ UNCHANGED <<queue, stopped, task, caller, accepted, rejected, done>>

\* cv_.wait may return from its block without a notification.
SpuriousWakeup(w) ==
    /\ worker[w] = "waiting"
    /\ worker' = [worker EXCEPT ![w] = "ready"]
    /\ UNCHANGED <<queue, stopped, task, caller, accepted, rejected, done>>

Take(w) ==
    /\ worker[w] = "ready"
    /\ queue # <<>>
    /\ worker' = [worker EXCEPT ![w] = "running"]
    /\ task' = [task EXCEPT ![w] = {Head(queue)}]
    /\ queue' = Tail(queue)
    /\ UNCHANGED <<stopped, caller, accepted, rejected, done>>

\* task() returns, which it cannot do inside a submit of its own.
Finish(w) ==
    /\ worker[w] = "running"
    /\ caller[w] = "idle"
    /\ worker' = [worker EXCEPT ![w] = "ready"]
    /\ task' = [task EXCEPT ![w] = {}]
    /\ done' = done \cup task[w]
    /\ UNCHANGED <<queue, stopped, caller, accepted, rejected>>

Exit(w) ==
    /\ worker[w] = "ready"
    /\ stopped /\ queue = <<>>
    /\ worker' = [worker EXCEPT ![w] = "exited"]
    /\ UNCHANGED <<queue, stopped, task, caller, accepted, rejected, done>>

-----------------------------------------------------------------------------
(* shutdown; a call that finds stopped_ set returns and changes nothing *)

Shutdown(c) ==
    /\ caller[c] = "idle"
    /\ ~stopped
    /\ stopped' = TRUE
    /\ caller' = [caller EXCEPT ![c] = "notify_all"]
    /\ UNCHANGED <<queue, worker, task, accepted, rejected, done>>

\* A mutant of NotifyAll: shutdown wakes a single worker.
NotifyAllWithOne(c) ==
    /\ caller[c] = "notify_all"
    /\ caller' = [caller EXCEPT ![c] = "join"]
    /\ \/ In("waiting") = {} /\ UNCHANGED worker
       \/ \E w \in In("waiting") : worker' = [worker EXCEPT ![w] = "ready"]
    /\ UNCHANGED <<queue, stopped, task, accepted, rejected, done>>

NotifyAll(c) ==
    /\ caller[c] = "notify_all"
    /\ caller' = [caller EXCEPT ![c] = "join"]
    /\ worker' = [w \in Workers |-> IF worker[w] = "waiting" THEN "ready" ELSE worker[w]]
    /\ UNCHANGED <<queue, stopped, task, accepted, rejected, done>>

Join(c) ==
    /\ caller[c] = "join"
    /\ In("exited") = Workers
    /\ caller' = [caller EXCEPT ![c] = "returned"]
    /\ UNCHANGED <<queue, stopped, worker, task, accepted, rejected, done>>
-----------------------------------------------------------------------------
WorkerStep(w) == Wait(w) \/ Take(w) \/ Finish(w) \/ Exit(w)

CallerStep(c) == NotifyOne(c) \/ NotifyAll(c) \/ Join(c)

Next ==
    \/ \E c \in Callers, t \in Tasks : Submit(c, t) \/ SubmitRejected(c, t)
    \/ \E c \in Clients : Shutdown(c)
    \/ \E c \in Callers : CallerStep(c)
    \/ \E w \in Workers : WorkerStep(w) \/ SpuriousWakeup(w)

Spec == Init /\ [][Next]_vars

\* Threads that can run are scheduled and task bodies return; nobody is
\* obliged to submit or to shut down, and no spurious wakeup is promised.
FairSpec ==
    /\ Spec
    /\ \A w \in Workers : WF_vars(WorkerStep(w))
    /\ \A c \in Callers : WF_vars(CallerStep(c))

-----------------------------------------------------------------------------
Notifying == {c \in Callers : caller[c] = "notify"}

\* While some worker sleeps, every queued task has a worker on its way: one
\* that is awake or one that a submit is about to notify.  This is what the
\* predicate of cv_.wait and a notify_one after every push achieve, although
\* the push and the notification are two steps.
NoLostWakeup ==
    In("waiting") # {} =>
        Len(queue) <= Cardinality(In("ready")) + Cardinality(Notifying)

\* When shutdown has joined the workers, every task that submit accepted has
\* run to its end ("drains remaining tasks on shutdown before joining").
ShutdownDrains ==
    (\E c \in Callers : caller[c] = "returned") =>
        \A i \in DOMAIN accepted : accepted[i] \in done

\* The pool implements the abstract executor: FIFO start, each accepted task
\* at most once, none accepted after the stop, shutdown returns when drained.
Abstract == INSTANCE Executor WITH
    Slots <- Workers,
    backlog <- queue,
    active <- task,
    finished <- done,
    refusing <- stopped,
    closed <- \E c \in Callers : caller[c] = "returned"

ImplementsExecutor == Abstract!Spec

\* A task accepted by submit is eventually executed, shutdown or not.
AcceptedRuns ==
    \A t \in Tasks : (\E i \in DOMAIN accepted : accepted[i] = t) ~> t \in done

\* A shutdown that has set stopped_ wakes every worker, and eventually returns.
ShutdownReturns ==
    \A c \in Clients : caller[c] = "notify_all" ~> caller[c] = "returned"
=============================================================================
