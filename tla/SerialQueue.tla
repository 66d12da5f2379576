---------------------------- MODULE SerialQueue -----------------------------
(***************************************************************************)
(* The serial_queue of src/high/serial_queue.hpp: several instances that   *)
(* share one thread_pool.  The pool is taken at the level of Executor,     *)
(* which ThreadPool implements: a FIFO of drain loops, one per entry, and  *)
(* workers that execute them.  A step is one critical section of mutex_ or *)
(* one callback.  submit holds mutex_ while it calls pool_->submit, so the *)
(* two are one step.                                                       *)
(***************************************************************************)
EXTENDS Naturals, Sequences, FiniteSets

CONSTANTS Queues,   \* the serial_queue instances (one per handle)
          Tasks,    \* the callbacks; each is submitted at most once
          Workers,  \* the threads of the pool
          NoQueue   \* what a worker outside any drain loop serves

ASSUME SerialAssumption == NoQueue \notin Queues

VARIABLES pending,    \* [Queues -> Seq(Tasks)], pending_
          draining,   \* [Queues -> BOOLEAN], draining_
          poolQueue,  \* Seq(Queues): the drain loops waiting in the pool
          stopped,    \* stopped_ of the pool: pool_->submit returns false
          serving,    \* [Workers -> the queue whose drain loop it executes]
          executing,  \* [Workers -> the callback in progress, at most one]
          submitted,  \* history: callbacks handed to some submit
          late        \* history: those handed in after the pool stopped

vars == <<pending, draining, poolQueue, stopped, serving, executing, submitted, late>>

TypeOK ==
    /\ pending \in [Queues -> Seq(Tasks)]
    /\ draining \in [Queues -> BOOLEAN]
    /\ poolQueue \in Seq(Queues)
    /\ stopped \in BOOLEAN
    /\ serving \in [Workers -> Queues \cup {NoQueue}]
    /\ executing \in [Workers -> SUBSET Tasks]
    /\ submitted \in SUBSET Tasks
    /\ late \in SUBSET submitted
    /\ \A w \in Workers : executing[w] # {} => serving[w] # NoQueue

Init ==
    /\ pending = [q \in Queues |-> <<>>]
    /\ draining = [q \in Queues |-> FALSE]
    /\ poolQueue = <<>>
    /\ stopped = FALSE
    /\ serving = [w \in Workers |-> NoQueue]
    /\ executing = [w \in Workers |-> {}]
    /\ submitted = {}
    /\ late = {}

-----------------------------------------------------------------------------
\* submit, from the event loop, a user thread or a callback in progress.  The
\* result of pool_->submit is ignored: draining_ is set even when it is false.
Submit(q, t) ==
    /\ t \notin submitted
    /\ submitted' = submitted \cup {t}
    /\ pending' = [pending EXCEPT ![q] = Append(@, t)]
    /\ draining' = [draining EXCEPT ![q] = TRUE]
    /\ poolQueue' = IF draining[q] \/ stopped THEN poolQueue ELSE Append(poolQueue, q)
    /\ late' = IF stopped THEN late \cup {t} ELSE late
    /\ UNCHANGED <<stopped, serving, executing>>

\* A worker starts the drain loop at the head of the pool's queue.
PoolTake(w) ==
    /\ serving[w] = NoQueue
    /\ poolQueue # <<>>
    /\ serving' = [serving EXCEPT ![w] = Head(poolQueue)]
    /\ poolQueue' = Tail(poolQueue)
    /\ UNCHANGED <<pending, draining, stopped, executing, submitted, late>>

\* A mutant of DrainPop: the newest callback is taken first.
DrainPopNewest(w) ==
    LET q == serving[w]
        n == Len(pending[q])
    IN
    /\ q # NoQueue
    /\ executing[w] = {}
    /\ pending[q] # <<>>
    /\ executing' = [executing EXCEPT ![w] = {pending[q][n]}]
    /\ pending' = [pending EXCEPT ![q] = SubSeq(@, 1, n - 1)]
    /\ UNCHANGED <<draining, poolQueue, stopped, serving, submitted, late>>

\* The critical section of drain with something pending, then the call of fn.
DrainPop(w) ==
    LET q == serving[w] IN
    /\ q # NoQueue
    /\ executing[w] = {}
    /\ pending[q] # <<>>
    /\ executing' = [executing EXCEPT ![w] = {Head(pending[q])}]
    /\ pending' = [pending EXCEPT ![q] = Tail(@)]
    /\ UNCHANGED <<draining, poolQueue, stopped, serving, submitted, late>>

\* fn() returns.
CallbackReturns(w) ==
    /\ executing[w] # {}
    /\ executing' = [executing EXCEPT ![w] = {}]
    /\ UNCHANGED <<pending, draining, poolQueue, stopped, serving, submitted, late>>

\* A mutant of DrainDone: draining_ is not reset.
DrainDoneNoReset(w) ==
    LET q == serving[w] IN
    /\ q # NoQueue
    /\ executing[w] = {}
    /\ pending[q] = <<>>
    /\ serving' = [serving EXCEPT ![w] = NoQueue]
    /\ UNCHANGED <<pending, draining, poolQueue, stopped, executing, submitted, late>>

\* The critical section of drain with nothing pending: the loop ends.
DrainDone(w) ==
    LET q == serving[w] IN
    /\ q # NoQueue
    /\ executing[w] = {}
    /\ pending[q] = <<>>
    /\ draining' = [draining EXCEPT ![q] = FALSE]
    /\ serving' = [serving EXCEPT ![w] = NoQueue]
    /\ UNCHANGED <<pending, poolQueue, stopped, executing, submitted, late>>

\* The owner calls pool->shutdown().
PoolShutdown ==
    /\ ~stopped
    /\ stopped' = TRUE
    /\ UNCHANGED <<pending, draining, poolQueue, serving, executing, submitted, late>>

WorkerStep(w) == PoolTake(w) \/ DrainPop(w) \/ CallbackReturns(w) \/ DrainDone(w)

Next ==
    \/ \E q \in Queues, t \in Tasks : Submit(q, t)
    \/ \E w \in Workers : WorkerStep(w)
    \/ PoolShutdown

Spec == Init /\ [][Next]_vars

\* The pool's workers are scheduled, and callbacks return.
FairSpec == Spec /\ \A w \in Workers : WF_vars(WorkerStep(w))

-----------------------------------------------------------------------------
Serving(q) == {w \in Workers : serving[w] = q}

\* A drain loop for q waits in the pool or is being executed.
HasDrain(q) ==
    \/ \E i \in 1..Len(poolQueue) : poolQueue[i] = q
    \/ \E w \in Workers : serving[w] = q

\* Two callbacks of one queue never overlap: no two workers are in the drain
\* loop of the same instance ("at most one callback submitted through a given
\* serial_queue instance executes at a time").
OneAtATime ==
    \A v, w \in Workers : serving[v] = serving[w] /\ serving[v] # NoQueue => v = w

\* A callback submitted while the pool accepts work is never stranded: as long
\* as it waits there is a drain loop that will reach it, through any number of
\* re-entrant submissions, drain ends and the stop of the pool.
EarlyTaskHasDrain ==
    \A q \in Queues : \A i \in 1..Len(pending[q]) :
        pending[q][i] \notin late => HasDrain(q)

\* Each instance is a FIFO that executes one callback at a time.
Abstract == INSTANCE SerialExecutor WITH
    inbox <- pending,
    current <- [q \in Queues |-> UNION {executing[w] : w \in Serving(q)}]

ImplementsSerialExecutor == Abstract!Spec

\* A callback submitted before the pool stops is eventually executed.
EarlyTaskRuns ==
    \A q \in Queues, t \in Tasks :
        (t \notin late /\ \E i \in DOMAIN pending[q] : pending[q][i] = t)
            ~> (\E w \in Workers : t \in executing[w])
=============================================================================
