-------------------------- MODULE ThreadPoolProofs --------------------------
(***************************************************************************)
(* For any number of workers, clients and tasks and any queue limit: no    *)
(* wakeup is lost, a shutdown that has returned has drained the pool, and  *)
(* the pool implements Executor.                                           *)
(*                                                                         *)
(* NoLostWakeup is inductive beside the types: a push announces one more   *)
(* notification, a notification that finds a sleeper makes one more worker *)
(* ready, and a worker goes to sleep only over an empty queue.  That       *)
(* shutdown drains rests on where an accepted task can be, and on a worker *)
(* having left only a pool that is stopped and empty, which it stays.      *)
(***************************************************************************)
EXTENDS ThreadPool, FiniteSetTheorems, SequenceTheorems, TLAPS

\* A worker has a task exactly while it is in task().
HasTask ==
    \A w \in Workers :
        /\ worker[w] = "running" => \E t \in Tasks : task[w] = {t}
        /\ worker[w] # "running" => task[w] = {}

\* A thread is past the critical section of shutdown only if stopped_ is set.
StopIsSet == \A c \in Callers : caller[c] \in {"notify_all", "join", "returned"} => stopped

\* A worker has left only a pool that is stopped and drained.
ExitIsDrained == \A w \in Workers : worker[w] = "exited" => stopped /\ queue = <<>>

\* A shutdown that has returned has joined all workers.
Joined == \A c \in Callers, w \in Workers : caller[c] = "returned" => worker[w] = "exited"

\* An accepted task is queued, executing or done.
Whereabouts(t) ==
    \/ \E i \in 1..Len(queue) : queue[i] = t
    \/ \E w \in Workers : task[w] = {t}
    \/ t \in done

Accounted ==
    \A x \in Tasks : (\E i \in 1..Len(accepted) : accepted[i] = x) => Whereabouts(x)

\* The types of the variables, without the count of a worker's tasks.
Types ==
    /\ queue \in Seq(Tasks)
    /\ stopped \in BOOLEAN
    /\ worker \in [Workers -> WorkerStates]
    /\ task \in [Workers -> SUBSET Tasks]
    /\ caller \in [Callers -> CallerStates]
    /\ accepted \in Seq(Tasks)
    /\ rejected \subseteq Tasks
    /\ done \subseteq Tasks
    /\ MaxQueueSize > 0 => Len(queue) <= MaxQueueSize

\* The inductive invariant.
IInv ==
    /\ Types /\ HasTask /\ StopIsSet /\ ExitIsDrained /\ Joined /\ Accounted /\ NoLostWakeup

-----------------------------------------------------------------------------
(* Counting threads *)

\* The threads in one state are finitely many.
LEMMA Finite ==
    /\ \A s : IsFiniteSet(In(s)) /\ Cardinality(In(s)) \in Nat
    /\ IsFiniteSet(Notifying) /\ Cardinality(Notifying) \in Nat
  <1>1. IsFiniteSet(Callers)
    BY PoolAssumption, FS_Union, Zenon DEF Callers
  <1>2. \A s : In(s) \subseteq Workers
    BY DEF In
  <1>3. Notifying \subseteq Callers
    BY DEF Notifying
  <1>. QED  BY <1>1, <1>2, <1>3, PoolAssumption, FS_Subset, FS_CardinalityType

\* So they are after any step.
LEMMA FiniteNext ==
    Cardinality(In("ready")') \in Nat /\ Cardinality(Notifying') \in Nat
  <1>1. IsFiniteSet(Callers)
    BY PoolAssumption, FS_Union, Zenon DEF Callers
  <1>2. In("ready")' \subseteq Workers /\ Notifying' \subseteq Callers
    BY DEF In, Notifying
  <1>. QED  BY <1>1, <1>2, PoolAssumption, FS_Subset, FS_CardinalityType

\* Adding or removing one thread changes the number by one.
LEMMA OneMore ==
    ASSUME NEW S, IsFiniteSet(S), NEW x, x \notin S
    PROVE  IsFiniteSet(S \cup {x}) /\ Cardinality(S \cup {x}) = Cardinality(S) + 1
  BY FS_AddElement

LEMMA OneLess ==
    ASSUME NEW S, IsFiniteSet(S), NEW x \in S
    PROVE  Cardinality(S \ {x}) = Cardinality(S) - 1
  BY FS_RemoveElement

-----------------------------------------------------------------------------
(* One lemma per action *)

\* All workers are about to test the predicate over an empty queue.
LEMMA InitEstablishes == Init => IInv
  <1>. SUFFICES ASSUME Init PROVE IInv
    OBVIOUS
  <1>1. Types
    <2>1. <<>> \in Seq(Tasks) /\ Len(<<>>) = 0
      OBVIOUS
    <2>2. MaxQueueSize > 0 => Len(queue) <= MaxQueueSize
      BY <2>1, PoolAssumption DEF Init
    <2>. QED  BY <2>1, <2>2, Zenon DEF Init, Types, WorkerStates, CallerStates
  <1>2. In("waiting") = {}
    BY DEF In, Init
  <1>3. Accounted
    BY DEF Init, Accounted
  <1>. QED  BY <1>1, <1>2, <1>3
            DEF Init, IInv, HasTask, StopIsSet, ExitIsDrained, Joined, NoLostWakeup

\* A push is announced: the submitter is one more that is about to notify.
LEMMA SubmitPreserves ==
    ASSUME IInv, NEW c \in Callers, NEW t \in Tasks, Submit(c, t)
    PROVE  IInv'
  <1>. USE DEF IInv, Submit
  <1>1. /\ queue' \in Seq(Tasks) /\ accepted' \in Seq(Tasks)
        /\ Len(queue') = Len(queue) + 1 /\ Len(accepted') = Len(accepted) + 1
        /\ \A i \in 1..Len(queue) : queue'[i] = queue[i]
        /\ \A i \in 1..Len(accepted) : accepted'[i] = accepted[i]
        /\ queue'[Len(queue) + 1] = t /\ accepted'[Len(accepted) + 1] = t
        /\ Len(queue) \in Nat /\ Len(accepted) \in Nat
    BY AppendProperties, LenProperties DEF Types
  <1>2. Types'
    BY <1>1, PoolAssumption DEF Types, Full, CallerStates
  <1>3. HasTask' /\ StopIsSet' /\ ExitIsDrained' /\ Joined'
    BY DEF Types, HasTask, StopIsSet, ExitIsDrained, Joined
  <1>4. Accounted'
    <2>. SUFFICES ASSUME NEW x \in Tasks, NEW i \in 1..Len(accepted'), accepted'[i] = x
                  PROVE  Whereabouts(x)'
      BY DEF Accounted
    <2>1. CASE i \in 1..Len(accepted)
      <3>1. Whereabouts(x)
        BY <1>1, <2>1 DEF Accounted
      <3>2. CASE \E j \in 1..Len(queue) : queue[j] = x
        <4>1. PICK j \in 1..Len(queue) : queue[j] = x
          BY <3>2
        <4>2. j \in 1..Len(queue') /\ queue'[j] = x
          BY <1>1, <4>1
        <4>. QED  BY <4>2 DEF Whereabouts
      <3>. QED  BY <3>1, <3>2 DEF Whereabouts
    <2>2. CASE i = Len(accepted) + 1
      <3>1. Len(queue) + 1 \in 1..Len(queue')
        BY <1>1
      <3>. QED  BY <1>1, <2>2, <3>1 DEF Whereabouts
    <2>. QED  BY <1>1, <2>1, <2>2
  <1>5. NoLostWakeup'
    <2>1. Notifying' = Notifying \cup {c} /\ c \notin Notifying
      BY DEF Notifying, Types, Calling
    <2>2. Cardinality(Notifying') = Cardinality(Notifying) + 1
      BY <2>1, Finite, OneMore
    <2>3. In("waiting")' = In("waiting") /\ In("ready")' = In("ready")
      BY DEF In
    <2>. QED  BY <1>1, <2>2, <2>3, Finite DEF NoLostWakeup
  <1>. QED  BY <1>2, <1>3, <1>4, <1>5

\* A refused task leaves no trace in the pool.
LEMMA SubmitRejectedPreserves ==
    ASSUME IInv, NEW c \in Callers, NEW t \in Tasks, SubmitRejected(c, t)
    PROVE  IInv'
  BY Zenon DEF IInv, SubmitRejected, Types, HasTask, StopIsSet, ExitIsDrained, Joined, Accounted,
         Whereabouts, NoLostWakeup, In, Notifying

\* notify_one turns a sleeper into a worker that is ready, if there is one.
LEMMA NotifyOnePreserves ==
    ASSUME IInv, NEW c \in Callers, NotifyOne(c)
    PROVE  IInv'
  <1>. USE DEF IInv, NotifyOne
  <1>1. Notifying' = Notifying \ {c} /\ c \in Notifying
    BY DEF Notifying, Types
  <1>2. Cardinality(Notifying') = Cardinality(Notifying) - 1
    BY <1>1, Finite, OneLess
  <1>3. CASE In("waiting") = {} /\ UNCHANGED worker
    BY <1>3, Zenon DEF Types, CallerStates, HasTask, StopIsSet, ExitIsDrained, Joined, Accounted,
                Whereabouts, NoLostWakeup, In
  <1>4. CASE \E w \in In("waiting") : worker' = [worker EXCEPT ![w] = "ready"]
    <2>1. PICK w \in In("waiting") : worker' = [worker EXCEPT ![w] = "ready"]
      BY <1>4, Zenon
    <2>2. w \in Workers /\ worker[w] = "waiting"
      BY DEF In
    <2>3. In("ready")' = In("ready") \cup {w} /\ w \notin In("ready")
      BY <2>1, <2>2 DEF In, Types
    <2>4. Cardinality(In("ready")') = Cardinality(In("ready")) + 1
      BY <2>3, Finite, OneMore
    <2>5. Len(queue) <= Cardinality(In("ready")) + Cardinality(Notifying)
      BY <2>1 DEF NoLostWakeup
    <2>6. NoLostWakeup'
      BY <1>2, <2>4, <2>5, Finite, LenProperties DEF NoLostWakeup, Types
    <2>. QED  BY <2>1, <2>2, <2>6, Zenon
              DEF Types, CallerStates, WorkerStates, HasTask, StopIsSet, ExitIsDrained, Joined,
                  Accounted, Whereabouts
  <1>. QED  BY <1>3, <1>4

\* A worker goes to sleep only over an empty queue.
LEMMA WaitPreserves ==
    ASSUME IInv, NEW w \in Workers, Wait(w)
    PROVE  IInv'
  <1>. USE DEF IInv, Wait
  <1>1. NoLostWakeup'
    <2>1. Cardinality(In("ready")') \in Nat /\ Cardinality(Notifying') \in Nat
      BY Finite, FiniteNext
    <2>2. Len(queue') = 0
      OBVIOUS
    <2>. QED  BY <2>1, <2>2 DEF NoLostWakeup
  <1>. QED  BY <1>1, Zenon DEF Types, WorkerStates, HasTask, StopIsSet, ExitIsDrained, Joined,
                 Accounted, Whereabouts

\* A worker that wakes of itself is one more that is ready.
LEMMA SpuriousWakeupPreserves ==
    ASSUME IInv, NEW w \in Workers, SpuriousWakeup(w)
    PROVE  IInv'
  <1>. USE DEF IInv, SpuriousWakeup
  <1>1. In("ready")' = In("ready") \cup {w} /\ w \notin In("ready") /\ w \in In("waiting")
    BY DEF In, Types
  <1>2. Cardinality(In("ready")') = Cardinality(In("ready")) + 1
    BY <1>1, Finite, OneMore
  <1>3. NoLostWakeup'
    <2>1. Notifying' = Notifying
      BY DEF Notifying
    <2>. QED  BY <1>1, <1>2, <2>1, Finite, LenProperties DEF NoLostWakeup, Types
  <1>. QED  BY <1>3, ZenonT(60) DEF Types, WorkerStates, HasTask, StopIsSet, ExitIsDrained, Joined,
                 Accounted, Whereabouts

\* A worker that takes a task is one less that is ready for one task less.
LEMMA TakePreserves ==
    ASSUME IInv, NEW w \in Workers, Take(w)
    PROVE  IInv'
  <1>. USE DEF IInv, Take
  <1>1. /\ Head(queue) \in Tasks /\ Head(queue) = queue[1]
        /\ queue' \in Seq(Tasks) /\ Len(queue') = Len(queue) - 1
        /\ \A i \in 1..Len(queue') : queue'[i] = queue[i + 1]
        /\ Len(queue) \in Nat /\ Len(queue) > 0
    BY HeadTailProperties, LenProperties DEF Types
  <1>2. Types'
    <2>1. MaxQueueSize > 0 => Len(queue') <= MaxQueueSize
      BY <1>1, PoolAssumption DEF Types
    <2>. QED  BY <1>1, <2>1 DEF Types, WorkerStates
  <1>3. HasTask'
    BY <1>1, Zenon DEF Types, HasTask
  <1>4. ExitIsDrained' /\ StopIsSet' /\ Joined'
    BY DEF Types, ExitIsDrained, StopIsSet, Joined
  <1>5. Accounted'
    <2>. SUFFICES ASSUME NEW x \in Tasks, Whereabouts(x) PROVE Whereabouts(x)'
      BY DEF Accounted
    <2>1. CASE \E j \in 1..Len(queue) : queue[j] = x
      <3>1. PICK j \in 1..Len(queue) : queue[j] = x
        BY <2>1
      <3>2. CASE j = 1
        <4>1. task'[w] = {x}
          BY <1>1, <3>1, <3>2 DEF Types
        <4>. QED  BY <4>1 DEF Whereabouts
      <3>3. CASE j # 1
        <4>1. j - 1 \in 1..Len(queue') /\ queue'[j - 1] = x
          BY <1>1, <3>1, <3>3
        <4>. QED  BY <4>1, Zenon DEF Whereabouts
      <3>. QED  BY <3>2, <3>3
    <2>2. CASE \E v \in Workers : task[v] = {x}
      <3>1. PICK v \in Workers : task[v] = {x}
        BY <2>2
      <3>2. v # w
        BY <3>1, Zenon DEF HasTask
      <3>3. task'[v] = {x}
        BY <3>1, <3>2 DEF Types
      <3>. QED  BY <3>3 DEF Whereabouts
    <2>3. CASE x \in done
      BY <2>3 DEF Whereabouts
    <2>. QED  BY <2>1, <2>2, <2>3 DEF Whereabouts
  <1>6. NoLostWakeup'
    <2>1. In("ready")' = In("ready") \ {w} /\ w \in In("ready")
      BY DEF In, Types
    <2>2. Cardinality(In("ready")') = Cardinality(In("ready")) - 1
      BY <2>1, Finite, OneLess
    <2>3. In("waiting")' = In("waiting") /\ Notifying' = Notifying
      BY DEF In, Notifying, Types
    <2>. QED  BY <1>1, <2>2, <2>3, Finite DEF NoLostWakeup
  <1>. QED  BY <1>2, <1>3, <1>4, <1>5, <1>6

\* A task that returns is done, and its worker is ready again.
LEMMA FinishPreserves ==
    ASSUME IInv, NEW w \in Workers, Finish(w)
    PROVE  IInv'
  <1>. USE DEF IInv, Finish
  <1>1. Types' /\ HasTask' /\ StopIsSet' /\ ExitIsDrained' /\ Joined'
    BY DEF Types, WorkerStates, HasTask, StopIsSet, ExitIsDrained, Joined
  <1>2. Accounted'
    <2>. SUFFICES ASSUME NEW x \in Tasks, Whereabouts(x) PROVE Whereabouts(x)'
      BY DEF Accounted
    <2>1. CASE task[w] = {x}
      <3>1. x \in done'
        BY <2>1
      <3>. QED  BY <3>1 DEF Whereabouts
    <2>2. CASE task[w] # {x}
      BY <2>2 DEF Whereabouts, Types
    <2>. QED  BY <2>1, <2>2
  <1>3. NoLostWakeup'
    <2>1. In("ready")' = In("ready") \cup {w} /\ w \notin In("ready")
      BY DEF In, Types
    <2>2. Cardinality(In("ready")') = Cardinality(In("ready")) + 1
      BY <2>1, Finite, OneMore
    <2>3. In("waiting")' = In("waiting") /\ Notifying' = Notifying
      BY DEF In, Notifying, Types
    <2>. QED  BY <2>2, <2>3, Finite, LenProperties DEF NoLostWakeup, Types
  <1>. QED  BY <1>1, <1>2, <1>3

\* A worker leaves only a pool that is stopped and has nothing queued.
LEMMA ExitPreserves ==
    ASSUME IInv, NEW w \in Workers, Exit(w)
    PROVE  IInv'
  <1>. USE DEF IInv, Exit
  <1>1. NoLostWakeup'
    <2>1. Cardinality(In("ready")') \in Nat /\ Cardinality(Notifying') \in Nat
      BY Finite, FiniteNext
    <2>2. Len(queue') = 0
      OBVIOUS
    <2>. QED  BY <2>1, <2>2 DEF NoLostWakeup
  <1>. QED  BY <1>1, Zenon DEF Types, WorkerStates, HasTask, StopIsSet, ExitIsDrained, Joined,
                 Accounted, Whereabouts

\* shutdown: the flag, then the wakeup of all, then the join.
LEMMA ShutdownPreserves ==
    ASSUME IInv, NEW c \in Callers, Shutdown(c) \/ NotifyAll(c) \/ Join(c)
    PROVE  IInv'
  <1>. USE DEF IInv
  <1>1. Notifying' = Notifying
    BY DEF Notifying, Types, Shutdown, NotifyAll, Join
  <1>2. CASE Shutdown(c)
    BY <1>1, <1>2, Zenon DEF Shutdown, Types, CallerStates, HasTask, StopIsSet, ExitIsDrained, Joined,
                      Accounted, Whereabouts, NoLostWakeup, In
  <1>3. CASE NotifyAll(c)
    <2>1. In("waiting")' = {}
      BY <1>3 DEF NotifyAll, In, Types
    <2>. QED  BY <1>3, <2>1, ZenonT(60)
              DEF NotifyAll, Types, CallerStates, WorkerStates, HasTask, StopIsSet,
                  ExitIsDrained, Joined, Accounted, Whereabouts, NoLostWakeup
  <1>4. CASE Join(c)
    <2>1. \A w \in Workers : worker[w] = "exited"
      BY <1>4 DEF Join, In
    <2>. QED  BY <1>1, <1>4, <2>1, Zenon
              DEF Join, Types, CallerStates, HasTask, StopIsSet, ExitIsDrained, Joined,
                  Accounted, Whereabouts, NoLostWakeup, In
  <1>. QED  BY <1>2, <1>3, <1>4

\* Nothing the invariant speaks of changes in a stuttering step.
LEMMA StutterPreserves ==
    ASSUME IInv, UNCHANGED vars
    PROVE  IInv'
  BY ZenonT(60) DEF IInv, vars, Types, HasTask, StopIsSet, ExitIsDrained, Joined, Accounted, Whereabouts,
         NoLostWakeup, In, Notifying

-----------------------------------------------------------------------------
(* Theorems *)

\* Every reachable state of the pool satisfies the inductive invariant.
THEOREM Invariance == Spec => []IInv
  <1>1. IInv /\ [Next]_vars => IInv'
    <2>. SUFFICES ASSUME IInv, [Next]_vars PROVE IInv'
      OBVIOUS
    <2>. QED  BY SubmitPreserves, SubmitRejectedPreserves, NotifyOnePreserves, WaitPreserves,
                 SpuriousWakeupPreserves, TakePreserves, FinishPreserves, ExitPreserves,
                 ShutdownPreserves, StutterPreserves
              DEF Next, CallerStep, WorkerStep, Callers
  <1>. QED  BY <1>1, InitEstablishes, PTL DEF Spec

\* The variables keep their types, queue_ its limit, and a worker has one
\* task while it executes and none otherwise.
THEOREM TypeCorrect == Spec => []TypeOK
  <1>1. IInv => TypeOK
    <2>. SUFFICES ASSUME IInv, NEW w \in Workers
                  PROVE  Cardinality(task[w]) = IF worker[w] = "running" THEN 1 ELSE 0
      BY DEF IInv, Types, TypeOK
    <2>1. CASE worker[w] = "running"
      BY <2>1, FS_Singleton, Zenon DEF IInv, HasTask
    <2>2. CASE worker[w] # "running"
      BY <2>2, FS_EmptySet DEF IInv, HasTask
    <2>. QED  BY <2>1, <2>2
  <1>. QED  BY <1>1, Invariance, PTL

\* While a worker sleeps in cv_, every queued task has a worker on its way,
\* whatever the number of workers, submitters and tasks.
THEOREM WakeupsSuffice == Spec => []NoLostWakeup
  BY Invariance, PTL DEF IInv

\* A shutdown that has returned has run every task that submit accepted.
THEOREM Drained == Spec => []ShutdownDrains
  <1>1. IInv => ShutdownDrains
    <2>. SUFFICES ASSUME IInv, NEW c \in Callers, caller[c] = "returned",
                         NEW i \in DOMAIN accepted
                  PROVE  accepted[i] \in done
      BY DEF ShutdownDrains
    <2>1. \A w \in Workers : task[w] = {} /\ queue = <<>>
      BY DEF IInv, Joined, HasTask, ExitIsDrained
    <2>2. i \in 1..Len(accepted) /\ accepted[i] \in Tasks
      BY LenProperties, ElementOfSeq DEF IInv, Types
    <2>3. Whereabouts(accepted[i])
      BY <2>2 DEF IInv, Accounted
    <2>. QED  BY <2>1, <2>3, PoolAssumption DEF Whereabouts
  <1>. QED  BY <1>1, Invariance, PTL

\* The pool, with its mutex and its condition variable, implements Executor:
\* tasks start in the order of submission, each once, none is accepted after
\* the stop, and shutdown returns when all is done.
THEOREM Refinement == Spec => ImplementsExecutor
  <1>1. Init => Abstract!Init
    BY SMTT(60) DEF Init, Abstract!Init
  <1>2. IInv /\ [Next]_vars => [Abstract!Next]_(Abstract!absVars)
    <2>. SUFFICES ASSUME IInv, [Next]_vars
                  PROVE  [Abstract!Next]_(Abstract!absVars)
      OBVIOUS
    <2>. USE DEF Abstract!Next, Abstract!absVars
    <2>1. ASSUME NEW c \in Callers, NEW t \in Tasks, Submit(c, t)
          PROVE  Abstract!Accept(t)
      BY <2>1 DEF Submit, Abstract!Accept, IInv, Types, Calling
    <2>2. ASSUME NEW c \in Callers, NEW t \in Tasks, SubmitRejected(c, t)
          PROVE  UNCHANGED Abstract!absVars
      BY <2>2 DEF SubmitRejected
    <2>3. ASSUME NEW c \in Clients, Shutdown(c)
          PROVE  Abstract!Refuse
      BY <2>3 DEF Shutdown, Abstract!Refuse, IInv, Types, Callers
    <2>4. ASSUME NEW c \in Callers, NotifyOne(c) \/ NotifyAll(c)
          PROVE  UNCHANGED Abstract!absVars
      BY <2>4 DEF NotifyOne, NotifyAll, IInv, Types
    <2>5. ASSUME NEW c \in Callers, Join(c)
          PROVE  Abstract!Close
      <3>1. stopped /\ queue = <<>> /\ \A w \in Workers : task[w] = {}
        BY <2>5, PoolAssumption DEF Join, In, IInv, ExitIsDrained, HasTask
      <3>2. caller'[c] = "returned"
        BY <2>5 DEF Join, IInv, Types
      <3>. QED  BY <2>5, <3>1, <3>2 DEF Join, Abstract!Close
    <2>6. ASSUME NEW w \in Workers, Wait(w) \/ Exit(w) \/ SpuriousWakeup(w)
          PROVE  UNCHANGED Abstract!absVars
      BY <2>6 DEF Wait, Exit, SpuriousWakeup
    <2>7. ASSUME NEW w \in Workers, Take(w)
          PROVE  Abstract!Start(w)
      BY <2>7 DEF Take, Abstract!Start, IInv, HasTask
    <2>8. ASSUME NEW w \in Workers, Finish(w)
          PROVE  Abstract!Finish(w)
      BY <2>8 DEF Finish, Abstract!Finish, IInv, HasTask
    <2>9. CASE UNCHANGED vars
      BY <2>9 DEF vars
    <2>. QED  BY <2>1, <2>2, <2>3, <2>4, <2>5, <2>6, <2>7, <2>8, <2>9, SMTT(60)
              DEF Next, CallerStep, WorkerStep
  <1>. QED  BY <1>1, <1>2, Invariance, PTL DEF Spec, Abstract!Spec, ImplementsExecutor
=============================================================================
