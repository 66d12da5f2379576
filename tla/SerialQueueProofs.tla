------------------------- MODULE SerialQueueProofs --------------------------
(***************************************************************************)
(* For any number of queues, callbacks and workers: callbacks of one queue *)
(* never overlap, and none submitted before the pool stops is stranded.    *)
(*                                                                         *)
(* Neither is inductive.  The argument is that draining_ is the presence   *)
(* of a token, the drain loop of the queue, which is in one place at a     *)
(* time: in the pool's queue or with one worker.                           *)
(***************************************************************************)
EXTENDS SerialQueue, TLAPS

\* The drain loop of a queue is in at most one place.
SingleDrain ==
    /\ \A i, j \in 1..Len(poolQueue) : poolQueue[i] = poolQueue[j] => i = j
    /\ OneAtATime
    /\ \A i \in 1..Len(poolQueue), w \in Workers : serving[w] # poolQueue[i]

\* draining_ is set whenever there is a drain loop, and whenever something is
\* pending; it is set without one only after a stop, over late callbacks.
DrainingFlag ==
    \A q \in Queues :
        /\ HasDrain(q) => draining[q]
        /\ pending[q] # <<>> => draining[q]
        /\ draining[q] /\ ~HasDrain(q) =>
               stopped /\ \A i \in 1..Len(pending[q]) : pending[q][i] \in late

\* The inductive invariant.
IInv == TypeOK /\ SingleDrain /\ DrainingFlag

-----------------------------------------------------------------------------
(* The two facts about sequences that the queues need. *)

\* push_back keeps what is in the deque and adds one element at its end.
LEMMA AppendElement ==
    ASSUME NEW S, NEW s \in Seq(S), NEW e \in S
    PROVE  /\ Append(s, e) \in Seq(S)
           /\ Len(Append(s, e)) = Len(s) + 1
           /\ Append(s, e)[Len(s) + 1] = e
           /\ \A i \in 1..Len(s) : Append(s, e)[i] = s[i]
  OBVIOUS

\* pop_front moves every other element one place forward.
LEMMA TailElement ==
    ASSUME NEW S, NEW s \in Seq(S), s # <<>>
    PROVE  /\ Tail(s) \in Seq(S)
           /\ Len(Tail(s)) = Len(s) - 1
           /\ Head(s) = s[1] /\ Head(s) \in S
           /\ 1 \in 1..Len(s)
           /\ \A i \in 1..Len(Tail(s)) : i + 1 \in 1..Len(s) /\ Tail(s)[i] = s[i + 1]
  OBVIOUS

-----------------------------------------------------------------------------
\* A new serial_queue has nothing pending and no drain loop.
LEMMA InitEstablishes == Init => IInv
  <1>. SUFFICES ASSUME Init PROVE IInv
    OBVIOUS
  <1>1. TypeOK
    <2>1. \A S : <<>> \in Seq(S)
      OBVIOUS
    <2>2. pending \in [Queues -> Seq(Tasks)] /\ poolQueue \in Seq(Queues)
      BY <2>1 DEF Init
    <2>. QED  BY <2>2, Zenon DEF Init, TypeOK
  <1>2. 1..Len(poolQueue) = {}
    BY DEF Init
  <1>3. SingleDrain
    BY <1>2 DEF Init, SingleDrain, OneAtATime
  <1>4. \A q \in Queues : ~HasDrain(q)
    BY <1>2, SerialAssumption DEF Init, HasDrain
  <1>5. DrainingFlag
    BY <1>4 DEF Init, DrainingFlag
  <1>. QED  BY <1>1, <1>3, <1>5 DEF IInv

\* submit adds a drain loop only where there is none.
LEMMA SubmitPreserves ==
    ASSUME IInv, NEW q \in Queues, NEW t \in Tasks, Submit(q, t)
    PROVE  IInv'
  <1>. USE DEF IInv
  <1>1. /\ pending[q] \in Seq(Tasks)
        /\ pending' = [pending EXCEPT ![q] = Append(pending[q], t)]
        /\ draining' = [draining EXCEPT ![q] = TRUE]
        /\ UNCHANGED <<stopped, serving, executing>>
        /\ submitted' = submitted \cup {t}
        /\ late' = IF stopped THEN late \cup {t} ELSE late
    BY DEF Submit, TypeOK
  <1>2. poolQueue' \in Seq(Queues)
    BY AppendElement DEF Submit, TypeOK
  <1>3. TypeOK'
    <2>1. pending' \in [Queues -> Seq(Tasks)]
      BY <1>1, AppendElement DEF TypeOK
    <2>. QED  BY <1>1, <1>2, <2>1 DEF TypeOK
  <1>4. CASE draining[q] \/ stopped
    <2>1. UNCHANGED <<poolQueue, serving>>
      BY <1>4 DEF Submit
    <2>2. SingleDrain'
      BY <2>1 DEF SingleDrain, OneAtATime
    <2>3. \A p \in Queues : HasDrain(p)' = HasDrain(p)
      BY <2>1 DEF HasDrain
    <2>4. ASSUME ~HasDrain(q), NEW i \in 1..Len(pending'[q])
          PROVE  stopped' /\ pending'[q][i] \in late'
      <3>1. stopped
        BY <1>4, <2>4 DEF DrainingFlag
      <3>2. \A j \in 1..Len(pending[q]) : pending[q][j] \in late
        <4>1. CASE draining[q]
          BY <2>4, <4>1 DEF DrainingFlag
        <4>2. CASE ~draining[q]
          BY <4>2 DEF DrainingFlag
        <4>. QED  BY <4>1, <4>2
      <3>3. pending'[q] = Append(pending[q], t)
        BY <1>1 DEF TypeOK
      <3>4. i \in 1..Len(pending[q]) \/ i = Len(pending[q]) + 1
        BY <1>1, <3>3, <2>4, AppendElement
      <3>. QED  BY <1>1, <3>1, <3>2, <3>3, <3>4, AppendElement
    <2>5. stopped' \/ HasDrain(q)
      BY <1>1, <1>4 DEF DrainingFlag
    <2>. QED  BY <1>1, <1>3, <2>2, <2>3, <2>4, <2>5 DEF DrainingFlag, TypeOK
  <1>5. CASE ~(draining[q] \/ stopped)
    <2>1. poolQueue' = Append(poolQueue, q) /\ poolQueue \in Seq(Queues)
      BY <1>5 DEF Submit, TypeOK
    <2>2. ~HasDrain(q)
      BY <1>5 DEF DrainingFlag
    <2>3. SingleDrain'
      BY <1>1, <2>1, <2>2, AppendElement DEF SingleDrain, OneAtATime, HasDrain
    <2>4. \A p \in Queues : HasDrain(p)' <=> HasDrain(p) \/ p = q
      BY <1>1, <2>1, AppendElement DEF HasDrain
    <2>. QED  BY <1>1, <1>3, <2>3, <2>4 DEF DrainingFlag, TypeOK
  <1>. QED  BY <1>4, <1>5

\* A worker takes the drain loop from the pool's queue.
LEMMA PoolTakePreserves ==
    ASSUME IInv, NEW w \in Workers, PoolTake(w)
    PROVE  IInv'
  <1>. DEFINE q == Head(poolQueue)
  <1>. USE DEF IInv
  <1>1. /\ poolQueue \in Seq(Queues) /\ poolQueue # <<>>
        /\ poolQueue' = Tail(poolQueue)
        /\ serving[w] = NoQueue
        /\ serving' = [serving EXCEPT ![w] = q]
        /\ UNCHANGED <<pending, draining, stopped, executing, submitted, late>>
    BY DEF PoolTake, TypeOK
  <1>2. q \in Queues /\ q = poolQueue[1] /\ 1 \in 1..Len(poolQueue)
    BY <1>1, TailElement
  <1>3. \A i \in 1..Len(poolQueue') :
            i + 1 \in 1..Len(poolQueue) /\ poolQueue'[i] = poolQueue[i + 1] /\ i + 1 # 1
    BY <1>1, TailElement
  <1>. HIDE DEF q
  <1>4. TypeOK'
    <2>1. poolQueue' \in Seq(Queues)
      BY <1>1, TailElement
    <2>2. serving' \in [Workers -> Queues \cup {NoQueue}]
      BY <1>1, <1>2 DEF TypeOK
    <2>3. \A v \in Workers : executing'[v] # {} => serving'[v] # NoQueue
      BY <1>1, <1>2, SerialAssumption DEF TypeOK
    <2>. QED  BY <1>1, <2>1, <2>2, <2>3 DEF TypeOK
  <1>5. SingleDrain'
    <2>1. \A i, j \in 1..Len(poolQueue') : poolQueue'[i] = poolQueue'[j] => i = j
      BY <1>3 DEF SingleDrain
    <2>2. \A i \in 1..Len(poolQueue') : poolQueue'[i] # q
      BY <1>2, <1>3 DEF SingleDrain
    <2>3. \A v \in Workers : serving[v] # q
      BY <1>2 DEF SingleDrain
    <2>4. OneAtATime'
      BY <1>1, <2>3 DEF SingleDrain, OneAtATime, TypeOK
    <2>5. \A i \in 1..Len(poolQueue'), v \in Workers : serving'[v] # poolQueue'[i]
      BY <1>1, <1>3, <2>2 DEF SingleDrain, TypeOK
    <2>. QED  BY <2>1, <2>4, <2>5 DEF SingleDrain
  <1>6. \A p \in Queues : HasDrain(p)' <=> HasDrain(p)
    <2>. SUFFICES ASSUME NEW p \in Queues PROVE HasDrain(p)' <=> HasDrain(p)
      OBVIOUS
    <2>1. ASSUME HasDrain(p)' PROVE HasDrain(p)
      BY <1>1, <1>2, <1>3, <2>1 DEF HasDrain, TypeOK
    <2>2. ASSUME NEW v \in Workers, serving[v] = p PROVE HasDrain(p)'
      BY <1>1, <2>2, SerialAssumption DEF HasDrain, TypeOK
    <2>3. ASSUME NEW i \in 1..Len(poolQueue), poolQueue[i] = p PROVE HasDrain(p)'
      <3>1. CASE i = 1
        BY <1>1, <1>2, <2>3, <3>1 DEF HasDrain, TypeOK
      <3>2. CASE i # 1
        <4>1. i - 1 \in 1..Len(poolQueue') /\ poolQueue'[i - 1] = p
          BY <1>1, <2>3, <3>2, TailElement
        <4>. QED  BY <4>1 DEF HasDrain
      <3>. QED  BY <3>1, <3>2
    <2>. QED  BY <2>1, <2>2, <2>3 DEF HasDrain
  <1>7. DrainingFlag'
    BY <1>1, <1>6 DEF DrainingFlag
  <1>. QED  BY <1>4, <1>5, <1>7

\* The drain loop takes one callback; the loop stays where it is.
LEMMA DrainPopPreserves ==
    ASSUME IInv, NEW w \in Workers, DrainPop(w)
    PROVE  IInv'
  <1>. DEFINE q == serving[w]
  <1>. USE DEF IInv
  <1>1. /\ q \in Queues /\ q # NoQueue
        /\ pending[q] \in Seq(Tasks) /\ pending[q] # <<>>
        /\ pending' = [pending EXCEPT ![q] = Tail(pending[q])]
        /\ executing' = [executing EXCEPT ![w] = {Head(pending[q])}]
        /\ UNCHANGED <<draining, poolQueue, stopped, serving, submitted, late>>
    BY DEF DrainPop, TypeOK
  <1>2. TypeOK'
    <2>1. pending' \in [Queues -> Seq(Tasks)]
      BY <1>1, TailElement DEF TypeOK
    <2>2. executing' \in [Workers -> SUBSET Tasks]
      BY <1>1, TailElement DEF TypeOK
    <2>3. \A v \in Workers : executing'[v] # {} => serving'[v] # NoQueue
      BY <1>1 DEF TypeOK
    <2>. QED  BY <1>1, <2>1, <2>2, <2>3 DEF TypeOK
  <1>3. SingleDrain'
    BY <1>1 DEF SingleDrain, OneAtATime
  <1>4. HasDrain(q) /\ \A p \in Queues : HasDrain(p)' = HasDrain(p)
    BY <1>1 DEF HasDrain
  <1>5. DrainingFlag'
    <2>. SUFFICES ASSUME NEW p \in Queues
                  PROVE  /\ HasDrain(p) => draining[p]
                         /\ pending'[p] # <<>> => draining[p]
                         /\ draining[p] /\ ~HasDrain(p) =>
                                stopped /\ \A i \in 1..Len(pending'[p]) : pending'[p][i] \in late
      BY <1>1, <1>4 DEF DrainingFlag
    <2>1. CASE p = q
      BY <1>4, <2>1 DEF DrainingFlag
    <2>2. CASE p # q
      BY <1>1, <2>2 DEF DrainingFlag, TypeOK
    <2>. QED  BY <2>1, <2>2
  <1>. QED  BY <1>2, <1>3, <1>5

\* The drain loop ends where nothing is pending, and its queue lets go of it.
LEMMA DrainDonePreserves ==
    ASSUME IInv, NEW w \in Workers, DrainDone(w)
    PROVE  IInv'
  <1>. DEFINE q == serving[w]
  <1>. USE DEF IInv
  <1>1. /\ q \in Queues /\ q # NoQueue
        /\ executing[w] = {}
        /\ pending[q] = <<>>
        /\ draining' = [draining EXCEPT ![q] = FALSE]
        /\ serving' = [serving EXCEPT ![w] = NoQueue]
        /\ UNCHANGED <<pending, poolQueue, stopped, executing, submitted, late>>
    BY DEF DrainDone, TypeOK
  <1>2. TypeOK'
    BY <1>1 DEF TypeOK
  <1>3. SingleDrain'
    <2>1. \A i \in 1..Len(poolQueue) : poolQueue[i] \in Queues
      BY DEF TypeOK
    <2>. QED  BY <1>1, <2>1, SerialAssumption DEF SingleDrain, OneAtATime, TypeOK
  <1>4. \A p \in Queues : HasDrain(p)' <=> HasDrain(p) /\ p # q
    <2>1. \A v \in Workers : v # w => serving'[v] = serving[v] /\ serving[v] # q
      BY <1>1 DEF SingleDrain, OneAtATime, TypeOK
    <2>2. \A i \in 1..Len(poolQueue) : poolQueue[i] # q
      BY DEF SingleDrain
    <2>3. serving'[w] = NoQueue
      BY <1>1 DEF TypeOK
    <2>. QED  BY <1>1, <2>1, <2>2, <2>3, SerialAssumption DEF HasDrain
  <1>5. DrainingFlag'
    BY <1>1, <1>4 DEF DrainingFlag, TypeOK
  <1>. QED  BY <1>2, <1>3, <1>5

\* Every step of submit, of drain and of the pool keeps the invariant.
LEMMA NextPreserves == IInv /\ [Next]_vars => IInv'
  <1>. SUFFICES ASSUME IInv, [Next]_vars PROVE IInv'
    OBVIOUS
  <1>1. ASSUME NEW q \in Queues, NEW t \in Tasks, Submit(q, t) PROVE IInv'
    BY <1>1, SubmitPreserves
  <1>2. ASSUME NEW w \in Workers, PoolTake(w) PROVE IInv'
    BY <1>2, PoolTakePreserves
  <1>3. ASSUME NEW w \in Workers, DrainPop(w) PROVE IInv'
    BY <1>3, DrainPopPreserves
  <1>4. ASSUME NEW w \in Workers, CallbackReturns(w) PROVE IInv'
    BY <1>4, ZenonT(60) DEF CallbackReturns, IInv, TypeOK, SingleDrain, OneAtATime,
                DrainingFlag, HasDrain
  <1>5. ASSUME NEW w \in Workers, DrainDone(w) PROVE IInv'
    BY <1>5, DrainDonePreserves
  <1>6. CASE PoolShutdown
    BY <1>6 DEF PoolShutdown, IInv, TypeOK, SingleDrain, OneAtATime,
                DrainingFlag, HasDrain
  <1>7. CASE UNCHANGED vars
    BY <1>7 DEF vars, IInv, TypeOK, SingleDrain, OneAtATime, DrainingFlag, HasDrain
  <1>. QED  BY <1>1, <1>2, <1>3, <1>4, <1>5, <1>6, <1>7 DEF Next, WorkerStep

\* The invariant holds throughout every execution of serial_queue.
LEMMA Inductive == Spec => []IInv
  BY InitEstablishes, NextPreserves, PTL DEF Spec

-----------------------------------------------------------------------------
\* The state of serial_queue and of the workers is well formed.
THEOREM TypeCorrect == Spec => []TypeOK
  <1>1. IInv => TypeOK
    BY DEF IInv
  <1>. QED  BY <1>1, Inductive, PTL

\* Two workers are never in the drain loop of the same serial_queue, so its
\* callbacks never overlap.
THEOREM Serialized == Spec => []OneAtATime
  <1>1. IInv => OneAtATime
    BY DEF IInv, SingleDrain
  <1>. QED  BY <1>1, Inductive, PTL

\* A callback that submit took before the pool stopped always has a drain loop
\* that will reach it.
THEOREM NoneStranded == Spec => []EarlyTaskHasDrain
  <1>1. IInv => EarlyTaskHasDrain
    <2>. SUFFICES ASSUME IInv, NEW q \in Queues, NEW i \in 1..Len(pending[q]),
                         pending[q][i] \notin late
                  PROVE  HasDrain(q)
      BY DEF EarlyTaskHasDrain
    <2>1. pending[q] # <<>>
      BY DEF IInv, TypeOK
    <2>. QED  BY <2>1 DEF IInv, DrainingFlag
  <1>. QED  BY <1>1, Inductive, PTL

-----------------------------------------------------------------------------
(* Refinement: each queue behaves as the abstract FIFO. *)

Current(q) == UNION {executing[w] : w \in Serving(q)}

\* With at most one server per queue, what a queue executes is what its server
\* executes.  Stated of arbitrary values, to be used before and after a step.
LEMMA UnionOfOne ==
    ASSUME NEW sv, NEW ex, NEW q,
           \A v, w \in Workers : sv[v] = sv[w] /\ sv[v] = q => v = w
    PROVE  /\ \A w \in Workers : sv[w] = q =>
                  UNION {ex[u] : u \in {v \in Workers : sv[v] = q}} = ex[w]
           /\ (\A w \in Workers : sv[w] # q) =>
                  UNION {ex[u] : u \in {v \in Workers : sv[v] = q}} = {}
  <1>1. ASSUME NEW w \in Workers, sv[w] = q
        PROVE  UNION {ex[u] : u \in {v \in Workers : sv[v] = q}} = ex[w]
    <2>1. {v \in Workers : sv[v] = q} = {w}
      BY <1>1
    <2>. QED  BY <2>1
  <1>2. ASSUME \A w \in Workers : sv[w] # q
        PROVE  UNION {ex[u] : u \in {v \in Workers : sv[v] = q}} = {}
    <2>1. {v \in Workers : sv[v] = q} = {}
      BY <1>2
    <2>. QED  BY <2>1
  <1>. QED  BY <1>1, <1>2

\* What a queue executes is what the one worker in its drain loop executes.
LEMMA CurrentOfServer ==
    ASSUME IInv, NEW q \in Queues
    PROVE  /\ \A w \in Workers : serving[w] = q => Current(q) = executing[w]
           /\ (\A w \in Workers : serving[w] # q) => Current(q) = {}
  <1>1. \A v, w \in Workers : serving[v] = serving[w] /\ serving[v] = q => v = w
    BY SerialAssumption, Zenon DEF IInv, SingleDrain, OneAtATime
  <1>. QED  BY <1>1, UnionOfOne DEF Current, Serving

\* The same after a step.
LEMMA CurrentOfServerPrimed ==
    ASSUME IInv', NEW q \in Queues
    PROVE  /\ \A w \in Workers : serving'[w] = q => Current(q)' = executing'[w]
           /\ (\A w \in Workers : serving'[w] # q) => Current(q)' = {}
  <1>1. \A v, w \in Workers : serving'[v] = serving'[w] /\ serving'[v] = q => v = w
    BY SerialAssumption, Zenon DEF IInv, SingleDrain, OneAtATime
  <1>. QED  BY <1>1, UnionOfOne DEF Current, Serving

\* Every step is a step of the abstract queue or leaves it alone.
LEMMA StepSimulation == IInv /\ IInv' /\ [Next]_vars => [Abstract!Next]_(Abstract!absVars)
  <1>. DEFINE cur == [q \in Queues |-> Current(q)]
  <1>. SUFFICES ASSUME IInv, IInv', [Next]_vars
                PROVE  [Abstract!Next]_(Abstract!absVars)
    OBVIOUS
  <1>0. /\ cur = [q \in Queues |-> UNION {executing[w] : w \in Serving(q)}]
        /\ cur' = [q \in Queues |-> UNION {executing[w] : w \in Serving(q)}]'
    BY DEF Current
  <1>a. cur' = [q \in Queues |-> Current(q)']
    OBVIOUS
  <1>b. ASSUME UNCHANGED pending, \A q \in Queues : Current(q)' = Current(q)
        PROVE  UNCHANGED Abstract!absVars
    BY <1>0, <1>a, <1>b DEF Abstract!absVars
  <1>1. ASSUME NEW q \in Queues, NEW t \in Tasks, Submit(q, t)
        PROVE  Abstract!Next
    <2>1. cur' = cur
      BY <1>1, <1>a DEF Submit, Current, Serving
    <2>. QED  BY <1>0, <1>1, <2>1, Zenon DEF Submit, Abstract!Enqueue, Abstract!Next
  <1>2. ASSUME NEW w \in Workers, PoolTake(w)
        PROVE  UNCHANGED Abstract!absVars
    <2>1. /\ serving[w] = NoQueue /\ executing[w] = {}
          /\ \A v \in Workers : v # w => serving'[v] = serving[v]
          /\ executing' = executing /\ pending' = pending
      BY <1>2 DEF PoolTake, IInv, TypeOK
    <2>2. ASSUME NEW q \in Queues PROVE Current(q)' = Current(q)
      <3>1. CASE \E v \in Workers : serving[v] = q
        BY <2>1, <3>1, CurrentOfServer, CurrentOfServerPrimed, SerialAssumption
      <3>2. CASE \A v \in Workers : serving[v] # q
        BY <2>1, <3>2, CurrentOfServer, CurrentOfServerPrimed
      <3>. QED  BY <3>1, <3>2
    <2>. QED  BY <1>b, <2>1, <2>2
  <1>3. ASSUME NEW w \in Workers, DrainPop(w)
        PROVE  Abstract!Next
    <2>0. PICK q \in Queues : q = serving[w]
      BY <1>3 DEF DrainPop, IInv, TypeOK
    <2>1. /\ pending[q] # <<>> /\ executing[w] = {}
          /\ serving' = serving
          /\ executing' = [executing EXCEPT ![w] = {Head(pending[q])}]
          /\ pending' = [pending EXCEPT ![q] = Tail(pending[q])]
      BY <1>3, <2>0 DEF DrainPop, IInv, TypeOK
    <2>2. Current(q) = {} /\ Current(q)' = {Head(pending[q])}
      BY <2>0, <2>1, CurrentOfServer, CurrentOfServerPrimed, Zenon DEF IInv, TypeOK
    <2>3. ASSUME NEW p \in Queues, p # q PROVE Current(p)' = Current(p)
      <3>1. CASE \E v \in Workers : serving[v] = p
        <4>1. PICK v \in Workers : serving[v] = p
          BY <3>1
        <4>2. executing'[v] = executing[v] /\ serving'[v] = p
          BY <2>0, <2>1, <2>3, <4>1 DEF IInv, TypeOK
        <4>. QED  BY <4>1, <4>2, CurrentOfServer, CurrentOfServerPrimed
      <3>2. CASE \A v \in Workers : serving[v] # p
        BY <2>1, <3>2, CurrentOfServer, CurrentOfServerPrimed, Zenon
      <3>. QED  BY <3>1, <3>2
    <2>4. cur' = [cur EXCEPT ![q] = {Head(pending[q])}] /\ cur[q] = {}
      BY <1>a, <2>1, <2>2, <2>3, Zenon
    <2>5. Abstract!Begin(q)
      BY <1>0, <2>1, <2>4, Zenon DEF Abstract!Begin
    <2>. QED  BY <2>5 DEF Abstract!Next
  <1>4. ASSUME NEW w \in Workers, CallbackReturns(w)
        PROVE  Abstract!Next
    <2>0. PICK q \in Queues : q = serving[w]
      BY <1>4 DEF CallbackReturns, IInv, TypeOK
    <2>1. /\ executing[w] # {}
          /\ serving' = serving /\ pending' = pending
          /\ executing' = [executing EXCEPT ![w] = {}]
      BY <1>4, <2>0 DEF CallbackReturns, IInv, TypeOK
    <2>2. Current(q) # {} /\ Current(q)' = {}
      BY <2>0, <2>1, CurrentOfServer, CurrentOfServerPrimed DEF IInv, TypeOK
    <2>3. ASSUME NEW p \in Queues, p # q PROVE Current(p)' = Current(p)
      <3>1. CASE \E v \in Workers : serving[v] = p
        <4>1. PICK v \in Workers : serving[v] = p
          BY <3>1
        <4>2. executing'[v] = executing[v] /\ serving'[v] = p
          BY <2>0, <2>1, <2>3, <4>1 DEF IInv, TypeOK
        <4>. QED  BY <4>1, <4>2, CurrentOfServer, CurrentOfServerPrimed
      <3>2. CASE \A v \in Workers : serving[v] # p
        BY <2>1, <3>2, CurrentOfServer, CurrentOfServerPrimed
      <3>. QED  BY <3>1, <3>2
    <2>4. cur' = [cur EXCEPT ![q] = {}] /\ cur[q] # {}
      BY <1>a, <2>1, <2>2, <2>3, Zenon
    <2>5. Abstract!End(q)
      BY <1>0, <2>1, <2>4, Zenon DEF Abstract!End
    <2>. QED  BY <2>5 DEF Abstract!Next
  <1>5. ASSUME NEW w \in Workers, DrainDone(w)
        PROVE  UNCHANGED Abstract!absVars
    <2>1. /\ serving[w] \in Queues /\ executing[w] = {} /\ serving'[w] = NoQueue
          /\ \A v \in Workers : v # w => serving'[v] = serving[v]
          /\ executing' = executing /\ pending' = pending
      BY <1>5 DEF DrainDone, IInv, TypeOK
    <2>2. ASSUME NEW q \in Queues PROVE Current(q)' = Current(q)
      <3>1. CASE \E v \in Workers : serving'[v] = q
        BY <2>1, <3>1, CurrentOfServer, CurrentOfServerPrimed, SerialAssumption
      <3>2. CASE \A v \in Workers : serving'[v] # q
        BY <2>1, <3>2, CurrentOfServer, CurrentOfServerPrimed
      <3>. QED  BY <3>1, <3>2
    <2>. QED  BY <1>b, <2>1, <2>2
  <1>6. CASE PoolShutdown
    BY <1>6, <1>b DEF PoolShutdown, Current, Serving
  <1>7. CASE UNCHANGED vars
    BY <1>7, <1>b DEF vars, Current, Serving
  <1>. QED  BY <1>1, <1>2, <1>3, <1>4, <1>5, <1>6, <1>7 DEF Next, WorkerStep

\* serial_queue implements the abstract specification: per instance, callbacks
\* execute in submission order, one at a time, none twice.
THEOREM Refinement == Spec => ImplementsSerialExecutor
  <1>1. Init => Abstract!Init
    BY DEF Init, Abstract!Init, Serving
  <1>. QED  BY <1>1, Inductive, StepSimulation, PTL
            DEF Spec, ImplementsSerialExecutor, Abstract!Spec
=============================================================================
