----------------------- MODULE HandleLifecycleProofs ------------------------
(***************************************************************************)
(* First the event loop, for any number of threads and posts: the          *)
(* callbacks given to post are executed in order, each once, and the loop  *)
(* never sleeps over one of them or over a stop.                           *)
(*                                                                         *)
(* That poll does not sleep over work is not inductive: it has to hold     *)
(* from the swap on for what is pushed, and from the test of               *)
(* stop_requested_ on for the stop.  In between nothing takes back a       *)
(* signal, for the eventfd is only drained after poll has returned.        *)
(*                                                                         *)
(* Then the handle, for any pool and any posts: it uses its event loop as  *)
(* EventLoop allows, so that what is proved of the loop holds in it; from  *)
(* the join on the owner is alone with the loop's state; and no thread is  *)
(* left in the handle when the destructor has returned.                    *)
(*                                                                         *)
(* The last needs to know where each call of post or stop can be half      *)
(* done: by a worker inside a callback, by the owner before the join, by   *)
(* the loop thread inside a callback or a handler.                         *)
(***************************************************************************)
EXTENDS HandleLifecycle, SequenceLemmas, TLAPS

\* The eventfd is readable, or a thread is about to make it so.
Alerted == signaled \/ \E c \in Callers : caller[c] = "wake"

\* A callback pushed after the swap has its wake.
PushIsSeen == loop \in {"drain", "poll"} /\ active # <<>> => Alerted

\* A stop requested after the test has its wake.
StopIsSeen == loop \in {"swap", "drain", "poll"} /\ stopRequested => Alerted

\* The inductive invariant of the loop.
IInv == TypeOK /\ PostsInOrder /\ PushIsSeen /\ StopIsSeen

-----------------------------------------------------------------------------
(* The invariant holds in a new loop, and every step keeps it. *)

\* A new event_loop has empty queues.
LEMMA InitEstablishes == Init => IInv
  <1>. SUFFICES ASSUME Init PROVE IInv
    OBVIOUS
  <1>1. <<>> \in Seq(Posts) /\ <<>> \o <<>> \o <<>> = <<>>
    BY ConcatEmptySeq, EmptySeq
  <1>. QED  BY <1>1, Zenon DEF Init, IInv, TypeOK, PostsInOrder, PushIsSeen, StopIsSeen, LoopStates

\* post appends to the active queue and is then about to wake the loop.
LEMMA PostPreserves ==
    ASSUME IInv, NEW c \in Callers, NEW p \in Posts, Post(c, p)
    PROVE  IInv'
  <1>. USE DEF IInv
  <1>1. TypeOK'
    BY AppendProperties DEF Post, TypeOK
  <1>2. PostsInOrder'
    <2>1. executed \o batch \o Append(active, p) = Append(executed \o batch \o active, p)
      BY AppendToLast, SMTT(60) DEF TypeOK
    <2>2. /\ active' = Append(active, p) /\ posted' = Append(posted, p)
          /\ UNCHANGED <<executed, batch>>
      BY DEF Post
    <2>. QED  BY <2>1, <2>2 DEF PostsInOrder
  <1>3. Alerted'
    BY DEF Post, TypeOK, Alerted
  <1>. QED  BY <1>1, <1>2, <1>3 DEF PushIsSeen, StopIsSeen

\* stop stores its flag and is then about to wake the loop.
LEMMA StopPreserves ==
    ASSUME IInv, NEW c \in Callers, Stop(c)
    PROVE  IInv'
  <1>. USE DEF IInv
  <1>1. TypeOK' /\ PostsInOrder'
    BY DEF Stop, TypeOK, PostsInOrder
  <1>2. Alerted'
    BY DEF Stop, TypeOK, Alerted
  <1>. QED  BY <1>1, <1>2 DEF PushIsSeen, StopIsSeen

\* The wake turns an announced signal into a signal.
LEMMA WakePreserves ==
    ASSUME IInv, NEW c \in Callers, Wake(c)
    PROVE  IInv'
  <1>. USE DEF IInv
  <1>1. TypeOK' /\ PostsInOrder'
    BY DEF Wake, TypeOK, PostsInOrder
  <1>2. Alerted'
    BY DEF Wake, Alerted
  <1>. QED  BY <1>1, <1>2 DEF PushIsSeen, StopIsSeen

\* The swap finds drain_queue_ empty and leaves the active queue empty.
LEMMA SwapPreserves ==
    ASSUME IInv, Swap
    PROVE  IInv'
  <1>. USE DEF IInv
  <1>1. TypeOK'
    BY EmptySeq DEF Swap, TypeOK, LoopStates
  <1>2. PostsInOrder'
    <2>1. batch = <<>> /\ batch' = active /\ active' = <<>> /\ UNCHANGED <<executed, posted>>
      BY DEF Swap, TypeOK
    <2>2. executed \o active \in Seq(Posts)
      BY ConcatProperties DEF TypeOK
    <2>. QED  BY <2>1, <2>2, ConcatEmptySeq DEF TypeOK, PostsInOrder
  <1>. QED  BY <1>1, <1>2 DEF Swap, PushIsSeen, StopIsSeen, Alerted

\* A callback goes from the batch to the end of what was executed; the posted
\* stop signals when it sets the flag.
LEMMA ExecutePreserves ==
    ASSUME IInv, Execute
    PROVE  IInv'
  <1>. USE DEF IInv
  <1>1. Head(batch) \in Posts /\ Tail(batch) \in Seq(Posts)
    BY MoveHead DEF Execute, TypeOK
  <1>2. TypeOK'
    BY <1>1, AppendProperties DEF Execute, TypeOK
  <1>3. PostsInOrder'
    BY MoveHead, SMTT(60) DEF Execute, TypeOK, PostsInOrder
  <1>. QED  BY <1>2, <1>3 DEF Execute, TypeOK, PushIsSeen, StopIsSeen, Alerted

\* The other steps of the loop move no callback; the ones into the part of the
\* iteration that is about work come from the test or from a part of it.
LEMMA OtherPreserves ==
    ASSUME IInv,
           \/ Run \/ ResetStop \/ TestStop \/ CallbackReturns \/ DrainDone
           \/ PollWoken \/ PollEvents \/ PollFails \/ DrainWaker \/ DispatchDone
    PROVE  IInv'
  <1>. USE DEF IInv
  <1>1. UNCHANGED <<active, batch, posted, executed, caller, stops>>
    BY DEF Run, ResetStop, TestStop, CallbackReturns, DrainDone, PollWoken, PollEvents,
           PollFails, Poll, DrainWaker, DispatchDone
  <1>2. TypeOK'
    BY <1>1, Zenon DEF Run, ResetStop, TestStop, CallbackReturns, DrainDone, PollWoken, PollEvents,
           PollFails, Poll, DrainWaker, DispatchDone, TypeOK, LoopStates
  <1>3. PostsInOrder'
    BY <1>1 DEF PostsInOrder
  <1>4. PushIsSeen' /\ StopIsSeen'
    BY <1>1 DEF Run, ResetStop, TestStop, CallbackReturns, DrainDone, PollWoken, PollEvents,
           PollFails, Poll, DrainWaker, DispatchDone, PushIsSeen, StopIsSeen, Alerted
  <1>. QED  BY <1>2, <1>3, <1>4

\* No step of the loop or of a caller leaves the invariant.
LEMMA NextPreserves == IInv /\ [Next]_vars => IInv'
  <1>. SUFFICES ASSUME IInv, [Next]_vars PROVE IInv'
    OBVIOUS
  <1>1. CASE UNCHANGED vars
    BY <1>1 DEF vars, IInv, TypeOK, PostsInOrder, PushIsSeen, StopIsSeen, Alerted
  <1>2. CASE \E c \in Callers : Stop(c) \/ Wake(c) \/ \E p \in Posts : Post(c, p)
    BY <1>2, StopPreserves, WakePreserves, PostPreserves
  <1>3. CASE LoopStep \/ PollEvents \/ PollFails
    BY <1>3, SwapPreserves, ExecutePreserves, OtherPreserves DEF LoopStep
  <1>. QED  BY <1>1, <1>2, <1>3 DEF Next

-----------------------------------------------------------------------------
\* The inductive invariant holds throughout.
THEOREM Invariance == Spec => []IInv
  BY InitEstablishes, NextPreserves, PTL DEF Spec

\* Callbacks are started in the order in which post pushed them, each once and
\* none lost, however pushes fall between the swaps of drain_posts.
THEOREM InOrder == Spec => []PostsInOrder
  BY Invariance, PTL DEF IInv

\* While the loop thread is in epoll_wait, a callback or a stop that waits for
\* it has signalled the eventfd or is about to.
THEOREM NeverAsleep == Spec => []NoSleepOverWork
  <1>1. IInv => NoSleepOverWork
    BY DEF IInv, PushIsSeen, StopIsSeen, NoSleepOverWork, Alerted
  <1>. QED  BY Invariance, <1>1, PTL

-----------------------------------------------------------------------------
(* The handle *)

\* The loop thread is in post or stop only inside a callback or a handler.
LoopCalls == caller[LoopThread] = "wake" => current # {} \/ loop \in {"woken", "dispatch"}

\* The owner's calls are over when it waits no longer for the loop.
OwnerCalls == owner \in {"close", "shutdown", "destroyed"} => caller[Owner] = "idle"

\* The pool is drained when shutdown has returned.
PoolDrained ==
    owner = "destroyed" => backlog = 0 /\ \A w \in Workers : worker[w] = "idle"

\* The inductive invariant of the handle.
HandleInv == HandleTypeOK /\ OwnerAloneAfterJoin /\ LoopCalls /\ OwnerCalls /\ PoolDrained

-----------------------------------------------------------------------------
(* Every step of the handle is a step of its loop, or none. *)

\* The three kinds of thread are different threads.
LEMMA Roles ==
    /\ Owner \in Callers /\ LoopThread \in Callers /\ Workers \subseteq Callers
    /\ Owner # LoopThread /\ LoopThread \notin Workers /\ Owner \notin Workers
    /\ Callers = Workers \cup {Owner, LoopThread}
  BY HandleAssumption, LoopAssumption DEF Callers

\* do_destroy posts in the name of the owner, callbacks in that of their worker.
LEMMA StepsOfLoop == HandleNext => [Next]_vars
  <1>. SUFFICES ASSUME HandleNext PROVE [Next]_vars
    OBVIOUS
  <1>1. CASE LoopStep \/ PollEvents \/ PollFails \/ \E c \in Callers : Wake(c)
    BY <1>1 DEF Next
  <1>2. ASSUME NEW w \in Workers, WorkerStep(w) PROVE [Next]_vars
    BY <1>2 DEF WorkerStep, StartCallback, FutureReady, EndCallback
  <1>3. ASSUME NEW w \in Workers, NEW p \in Posts, CallbackPosts(w, p) PROVE [Next]_vars
    BY <1>3, Roles DEF CallbackPosts, Next
  <1>4. CASE DestroyPost
    <2>1. PICK i \in 1..Len(DestroyPosts) : Post(Owner, DestroyPosts[i])
      BY <1>4 DEF DestroyPost
    <2>2. DestroyPosts[i] \in Posts
      BY <2>1, HandleAssumption
    <2>. QED  BY <2>1, <2>2, Roles DEF Next
  <1>5. CASE DestroyStop
    BY <1>5, Roles DEF DestroyStop, Next
  <1>6. CASE BeginDestroy \/ DestroyJoin \/ DestroyClose \/ DestroyDone
    BY <1>6 DEF BeginDestroy, DestroyJoin, DestroyClose, DestroyDone
  <1>. QED  BY <1>1, <1>2, <1>3, <1>4, <1>5, <1>6 DEF HandleNext, OwnerStep

\* A handle drives its event loop by the operations of EventLoop alone.
THEOREM UsesEventLoop == HandleSpec => Spec
  <1>1. HandleInit => Init
    BY DEF HandleInit
  <1>2. [HandleNext]_allVars => [Next]_vars
    BY StepsOfLoop DEF allVars
  <1>. QED  BY <1>1, <1>2, PTL DEF HandleSpec, Spec

-----------------------------------------------------------------------------
(* The invariant of the handle; TypeOK of the loop comes from its own. *)

\* A new handle has an idle pool and a loop that has not started.
LEMMA HandleInitEstablishes == HandleInit => HandleInv
  <1>. SUFFICES ASSUME HandleInit PROVE HandleInv
    OBVIOUS
  <1>1. TypeOK
    BY InitEstablishes DEF HandleInit, IInv
  <1>2. \A c \in Callers : caller[c] = "idle"
    BY DEF HandleInit, Init
  <1>3. HandleTypeOK
    BY <1>1, <1>2, Roles, HandleAssumption DEF HandleInit, HandleTypeOK
  <1>. QED  BY <1>2, <1>3, Roles
            DEF HandleInit, HandleInv, OwnerAloneAfterJoin, LoopCalls, OwnerCalls, PoolDrained

\* A step of the loop thread, or a wake, of which the handle takes no notice.
LEMMA LoopPreserves ==
    ASSUME HandleInv, TypeOK', UNCHANGED handleVars,
           LoopStep \/ PollEvents \/ PollFails \/ \E c \in Callers : Wake(c)
    PROVE  HandleInv'
  <1>. USE DEF HandleInv, handleVars
  <1>1. CASE \E c \in Callers : Wake(c)
    <2>1. PICK c \in Callers : Wake(c)
      BY <1>1
    <2>2. /\ caller' = [caller EXCEPT ![c] = "idle"] /\ UNCHANGED <<loop, current>>
          /\ caller \in [Callers -> {"idle", "wake"}]
      BY <2>1 DEF Wake, HandleTypeOK, TypeOK
    <2>3. \A d \in Callers : caller[d] = "idle" => caller'[d] = "idle"
      BY <2>2
    <2>4. caller'[LoopThread] = "wake" => caller[LoopThread] = "wake"
      BY <2>2, Roles
    <2>. QED  BY <2>2, <2>3, <2>4, Roles
              DEF HandleTypeOK, OwnerAloneAfterJoin, LoopCalls, OwnerCalls, PoolDrained
  <1>2. CASE LoopStep \/ PollEvents \/ PollFails
    <2>1. UNCHANGED caller
      BY <1>2, SMTT(60) DEF LoopStep, Run, ResetStop, TestStop, Swap, Execute, CallbackReturns, DrainDone,
                  PollWoken, PollEvents, PollFails, Poll, DrainWaker, DispatchDone
    <2>2. loop = "exited" /\ current = {} => UNCHANGED <<loop, current>>
      BY <1>2, SMTT(60) DEF LoopStep, Run, ResetStop, TestStop, Swap, Execute, CallbackReturns, DrainDone,
                  PollWoken, PollEvents, PollFails, Poll, DrainWaker, DispatchDone
    <2>3. LoopCalls'
      BY <1>2, Roles, SMTT(60)
         DEF LoopCalls, HandleTypeOK, TypeOK, LoopStep, Run, ResetStop, TestStop, Swap, Execute,
             CallbackReturns, DrainDone, PollWoken, PollEvents, PollFails, Poll, DrainWaker,
             DispatchDone
    <2>. QED  BY <2>1, <2>2, <2>3, SMTT(60) DEF HandleTypeOK, OwnerAloneAfterJoin, OwnerCalls, PoolDrained
  <1>. QED  BY <1>1, <1>2

\* A worker starts, waits for or ends a callback.
LEMMA WorkerPreserves ==
    ASSUME HandleInv, TypeOK', NEW w \in Workers, WorkerStep(w)
    PROVE  HandleInv'
  <1>. USE DEF HandleInv
  <1>1. UNCHANGED vars
    BY DEF WorkerStep, StartCallback, FutureReady, EndCallback
  <1>2. HandleTypeOK'
    BY <1>1, HandleAssumption
       DEF WorkerStep, StartCallback, FutureReady, EndCallback, HandleTypeOK, vars
  <1>3. PoolDrained'
    BY <1>1, HandleAssumption
       DEF WorkerStep, StartCallback, FutureReady, EndCallback, HandleTypeOK, PoolDrained
  <1>. QED  BY <1>1, <1>2, <1>3
            DEF WorkerStep, StartCallback, FutureReady, EndCallback, vars, OwnerAloneAfterJoin,
                LoopCalls, OwnerCalls

\* A callback posts, and may then wait for the future.
LEMMA CallbackPostsPreserves ==
    ASSUME HandleInv, TypeOK', NEW w \in Workers, NEW p \in Posts, CallbackPosts(w, p)
    PROVE  HandleInv'
  <1>. USE DEF HandleInv
  <1>1. /\ caller' = [caller EXCEPT ![w] = "wake"] /\ caller \in [Callers -> {"idle", "wake"}]
        /\ awaiting' = [awaiting EXCEPT ![w] = {p} \cap FuturePosts]
        /\ worker[w] = "callback"
        /\ UNCHANGED <<loop, current, owner, worker, backlog>>
    BY DEF CallbackPosts, Post, HandleTypeOK, TypeOK
  <1>2. \A c \in Callers : c # w => caller'[c] = caller[c]
    BY <1>1
  <1>3. HandleTypeOK'
    BY <1>1, <1>2, Roles DEF HandleTypeOK
  <1>. QED  BY <1>1, <1>2, <1>3, Roles
            DEF OwnerAloneAfterJoin, LoopCalls, OwnerCalls, PoolDrained

\* The owner posts or stops, before it joins.
LEMMA DestroyCallsPreserve ==
    ASSUME HandleInv, TypeOK', DestroyPost \/ DestroyStop
    PROVE  HandleInv'
  <1>. USE DEF HandleInv
  <1>1. /\ caller' = [caller EXCEPT ![Owner] = "wake"] /\ caller \in [Callers -> {"idle", "wake"}]
        /\ owner = "destroy" /\ owner' \in {"destroy", "join"}
        /\ UNCHANGED <<loop, current, worker, awaiting, backlog>>
    BY DEF DestroyPost, DestroyStop, Post, Stop, HandleTypeOK, TypeOK, handleVars
  <1>2. \A c \in Callers : c # Owner => caller'[c] = caller[c]
    BY <1>1
  <1>3. HandleTypeOK'
    BY <1>1, <1>2, Roles DEF HandleTypeOK
  <1>. QED  BY <1>1, <1>2, <1>3, Roles
            DEF OwnerAloneAfterJoin, LoopCalls, OwnerCalls, PoolDrained

\* The other steps of do_destroy call nothing on the loop.
LEMMA DestroyPreserves ==
    ASSUME HandleInv, TypeOK', BeginDestroy \/ DestroyJoin \/ DestroyClose \/ DestroyDone
    PROVE  HandleInv'
  <1>. USE DEF HandleInv
  <1>1. UNCHANGED <<vars, worker, awaiting>>
    BY DEF BeginDestroy, DestroyJoin, DestroyClose, DestroyDone
  <1>2. HandleTypeOK'
    BY <1>1, HandleAssumption
       DEF BeginDestroy, DestroyJoin, DestroyClose, DestroyDone, HandleTypeOK, vars
  <1>3. OwnerAloneAfterJoin'
    BY <1>1
       DEF BeginDestroy, DestroyJoin, DestroyClose, DestroyDone, HandleTypeOK, TypeOK, vars,
           OwnerAloneAfterJoin
  <1>4. LoopCalls' /\ OwnerCalls' /\ PoolDrained'
    BY <1>1
       DEF BeginDestroy, DestroyJoin, DestroyClose, DestroyDone, vars, LoopCalls, OwnerCalls,
           PoolDrained
  <1>. QED  BY <1>2, <1>3, <1>4

\* No step of a thread of the handle leaves the invariant.
LEMMA HandleNextPreserves == HandleInv /\ TypeOK' /\ [HandleNext]_allVars => HandleInv'
  <1>. SUFFICES ASSUME HandleInv, TypeOK', [HandleNext]_allVars PROVE HandleInv'
    OBVIOUS
  <1>1. CASE UNCHANGED allVars
    BY <1>1
       DEF allVars, handleVars, vars, HandleInv, HandleTypeOK, OwnerAloneAfterJoin, LoopCalls,
           OwnerCalls, PoolDrained
  <1>2. CASE HandleNext
    BY <1>2, LoopPreserves, WorkerPreserves, CallbackPostsPreserves, DestroyCallsPreserve,
       DestroyPreserves DEF HandleNext, OwnerStep
  <1>. QED  BY <1>1, <1>2

-----------------------------------------------------------------------------
\* The inductive invariant of the handle holds throughout.
THEOREM HandleInvariance == HandleSpec => []HandleInv
  <1>1. IInv => TypeOK
    BY DEF IInv
  <1>. QED  BY HandleInitEstablishes, HandleNextPreserves, UsesEventLoop, Invariance, <1>1, PTL
            DEF HandleSpec

\* From the join on the loop thread executes nothing, so that do_destroy may
\* close sockets and clear maps without a lock.
THEOREM OwnerAlone == HandleSpec => []OwnerAloneAfterJoin
  BY HandleInvariance, PTL DEF HandleInv

\* When the destructor has returned the loop is out of run, no callback is in
\* progress and no post or stop is half done.
THEOREM NothingLeft == HandleSpec => []NothingOutlivesHandle
  <1>1. HandleInv => NothingOutlivesHandle
    <2>. SUFFICES ASSUME HandleInv, owner = "destroyed"
                  PROVE  /\ loop = "exited"
                         /\ \A w \in Workers : worker[w] = "idle"
                         /\ \A c \in Callers : caller[c] = "idle"
      BY DEF NothingOutlivesHandle
    <2>1. loop = "exited" /\ current = {} /\ \A w \in Workers : worker[w] = "idle"
      BY DEF HandleInv, OwnerAloneAfterJoin, PoolDrained
    <2>2. ASSUME NEW c \in Callers PROVE caller[c] = "idle"
      <3>1. caller[c] \in {"idle", "wake"}
        BY <2>2 DEF HandleInv, HandleTypeOK, TypeOK
      <3>2. CASE c \in Workers
        BY <2>1, <3>2 DEF HandleInv, HandleTypeOK
      <3>3. CASE c = Owner
        BY <3>3 DEF HandleInv, OwnerCalls
      <3>4. CASE c = LoopThread
        BY <2>1, <3>1, <3>4 DEF HandleInv, LoopCalls
      <3>. QED  BY <2>2, <3>2, <3>3, <3>4, Roles
    <2>. QED  BY <2>1, <2>2
  <1>. QED  BY HandleInvariance, <1>1, PTL

\* In a handle, too, posts run in order and the loop never sleeps over work.
THEOREM LoopOfHandle == HandleSpec => [](PostsInOrder /\ NoSleepOverWork)
  BY UsesEventLoop, InOrder, NeverAsleep, PTL
=============================================================================
