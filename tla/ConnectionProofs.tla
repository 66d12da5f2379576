-------------------------- MODULE ConnectionProofs --------------------------
(***************************************************************************)
(* For any number of users, any sizes and any limit of the write queue:    *)
(* queued data never waits for nothing, on_close is the last callback, the *)
(* bytes of the stream stay whole and in order, and with one thread that   *)
(* pauses and resumes reading follows it.                                  *)
(*                                                                         *)
(* NoLostWriteInterest rests on write_registered_ agreeing with the queue  *)
(* whenever the loop is between handlers, on the interest staying writable *)
(* for as long as drain_write_queue runs, and on an open connection being  *)
(* in the dispatcher once its start_reading was carried out.  CloseIsLast  *)
(* rests on closed_ being exchanged before on_close is submitted, and on   *)
(* the dispatcher calling no handler of a closed connection.  StreamIntact *)
(* is inductive with the types; what it needs is how Bytes of a queue      *)
(* changes when a chunk is added at the end or cut at the front, which is  *)
(* shown by induction on the length.  ReadingFollowsPause needs what holds *)
(* while a call or a post is under way (FlowAgrees).                       *)
(***************************************************************************)
EXTENDS Connection, SequenceTheorems, WellFoundedInduction, TLAPS

\* The types the argument needs.
Types ==
    /\ closed \in BOOLEAN /\ registered \in BOOLEAN /\ writeRegistered \in BOOLEAN
    /\ loop \in {"idle", "drain"}
    /\ posts \in Seq({"start_reading", "register_writable", "close", "pause", "resume"})
    /\ submitted \in Seq({"data", "close"})
    /\ registered => ~closed

Ops == {"idle", "send", "pause", "resume"}

\* The types of what is sent.
DataTypes ==
    /\ queue \in Seq(Seq(Nat)) /\ chunk \in Seq(Nat) /\ accepted \in Nat
    /\ user \in [Users -> [op : Ops, size : Nat]]

\* An open connection is in the dispatcher, or start_reading is still to come.
InDispatcher ==
    ~closed => registered \/ phase # "done" \/ Pending("start_reading")

\* write_registered_ is set while data is queued or being sent; between
\* handlers it is set only then.
FlagIsQueue ==
    /\ queue # <<>> \/ chunk # <<>> => writeRegistered
    /\ ~closed /\ loop = "idle" /\ writeRegistered => queue # <<>>
    /\ loop = "idle" => chunk = <<>>

\* drain_write_queue runs on a connection registered for writing.
DrainIsWritable == loop = "drain" => registered /\ "writable" \in interest

\* on_close was submitted only if closed_ was set.
CloseIsClosed == \A i \in 1..Len(submitted) : submitted[i] = "close" => closed

\* The inductive invariant.
IInv ==
    /\ Types /\ InDispatcher /\ FlagIsQueue /\ DrainIsWritable /\ NoLostWriteInterest
    /\ CloseIsClosed /\ CloseIsLast

-----------------------------------------------------------------------------
(* The two sequences *)

\* A post that was pending is pending after another is added, as is the other.
LEMMA PostAdded ==
    ASSUME Types, NEW p \in {"start_reading", "register_writable", "close", "pause", "resume"},
           posts' = Append(posts, p)
    PROVE  /\ posts' \in Seq({"start_reading", "register_writable", "close", "pause", "resume"})
           /\ Pending(p)'
           /\ \A q : Pending(q) => Pending(q)'
  <1>1. /\ posts' \in Seq({"start_reading", "register_writable", "close", "pause", "resume"})
        /\ Len(posts) \in Nat /\ Len(posts') = Len(posts) + 1
        /\ posts'[Len(posts) + 1] = p
        /\ \A i \in 1..Len(posts) : posts'[i] = posts[i]
    BY DEF Types
  <1>2. Pending(p)'
    <2>1. Len(posts) + 1 \in 1..Len(posts')
      BY <1>1
    <2>. QED  BY <1>1, <2>1 DEF Pending
  <1>3. ASSUME NEW q, Pending(q)
        PROVE  Pending(q)'
    <2>1. PICK i \in 1..Len(posts) : posts[i] = q
      BY <1>3 DEF Pending
    <2>2. i \in 1..Len(posts') /\ posts'[i] = q
      BY <1>1, <2>1
    <2>. QED  BY <2>2 DEF Pending
  <1>. QED  BY <1>1, <1>2, <1>3

\* Executing the first post leaves the others pending.
LEMMA PostTaken ==
    ASSUME Types, NEW p, RunPost(p)
    PROVE  /\ posts' \in Seq({"start_reading", "register_writable", "close", "pause", "resume"})
           /\ \A q : Pending(q) /\ q # p => Pending(q)'
  <1>1. /\ posts' \in Seq({"start_reading", "register_writable", "close", "pause", "resume"})
        /\ Len(posts) \in Nat /\ Len(posts') = Len(posts) - 1
        /\ posts[1] = p
        /\ \A i \in 1..Len(posts') : posts'[i] = posts[i + 1]
    BY DEF Types, RunPost
  <1>2. ASSUME NEW q, Pending(q), q # p
        PROVE  Pending(q)'
    <2>1. PICK i \in 1..Len(posts) : posts[i] = q
      BY <1>2 DEF Pending
    <2>2. i - 1 \in 1..Len(posts') /\ posts'[i - 1] = q
      BY <1>1, <1>2, <2>1
    <2>. QED  BY <2>2 DEF Pending
  <1>. QED  BY <1>1, <1>2

\* A callback of an open connection may be submitted: none before it closes.
LEMMA CallbackAdded ==
    ASSUME Types, CloseIsClosed, CloseIsLast, ~closed, NEW c \in {"data", "close"},
           submitted' = Append(submitted, c), closed' \in BOOLEAN, c = "close" => closed'
    PROVE  submitted' \in Seq({"data", "close"}) /\ CloseIsClosed' /\ CloseIsLast'
  <1>1. /\ submitted' \in Seq({"data", "close"})
        /\ Len(submitted) \in Nat /\ Len(submitted') = Len(submitted) + 1
        /\ submitted'[Len(submitted) + 1] = c
        /\ \A i \in 1..Len(submitted) :
               submitted'[i] = submitted[i] /\ submitted[i] \in {"data", "close"}
    BY DEF Types
  <1>2. \A i \in 1..Len(submitted) : submitted[i] = "data"
    BY <1>1 DEF CloseIsClosed
  <1>. QED  BY <1>1, <1>2 DEF CloseIsClosed, CloseIsLast

-----------------------------------------------------------------------------
(* What is sent *)

\* The bytes of one send are a sequence.
LEMMA NewBytesType ==
    ASSUME accepted \in Nat, NEW n \in Nat
    PROVE  NewBytes(n) \in Seq(Nat)
  <1>1. NewBytes(n) \in [1..n -> Nat]
    BY DEF NewBytes
  <1>. QED  BY <1>1

\* The queue holds sequences of bytes, and users send a number of them.
LEMMA DataTypesPreserved == DataTypes /\ [Next]_vars => DataTypes'
  <1>. SUFFICES ASSUME DataTypes, [Next]_vars PROVE DataTypes'
    OBVIOUS
  <1>. USE DEF DataTypes
  <1>1. Idle \in [op : Ops, size : Nat]
    BY DEF Idle, Call, Ops
  <1>2. CASE UNCHANGED <<queue, chunk, accepted, user>>
    BY <1>2
  <1>3. ASSUME NEW u \in Users, NEW n \in Nat, NEW op \in Ops, BeginCall(u, Call(op, n)),
               UNCHANGED writeVars
        PROVE  DataTypes'
    <2>1. Call(op, n) \in [op : Ops, size : Nat]
      BY DEF Call
    <2>2. user' = [user EXCEPT ![u] = Call(op, n)]
      BY <1>3 DEF BeginCall
    <2>. QED  BY <1>3, <2>1, <2>2 DEF writeVars
  <1>4. ASSUME NEW u \in Users, SendEnqueue(u)
        PROVE  DataTypes'
    <2>1. NewBytes(user[u].size) \in Seq(Nat) /\ user[u].size \in Nat
      BY NewBytesType, ZenonT(60)
    <2>2. user' \in [Users -> [op : Ops, size : Nat]]
      BY <1>1, <1>4 DEF SendEnqueue
    <2>. QED  BY <1>4, <2>1, <2>2, SMTT(60) DEF SendEnqueue
  <1>5. ASSUME NEW u \in Users, SendRejected(u) \/ FlowPost(u)
        PROVE  DataTypes'
    BY <1>1, <1>5, ZenonT(60) DEF SendRejected, FlowPost, writeVars
  <1>6. CASE DrainPop
    BY <1>6 DEF DrainPop, Draining, apiVars
  <1>7. ASSUME NEW n \in Nat, SendSome(n)
        PROVE  DataTypes'
    <2>1. SubSeq(chunk, n + 1, Len(chunk)) \in Seq(Nat)
      BY <1>7, SMTT(60) DEF SendSome
    <2>. QED  BY <1>7, <2>1, SMTT(60) DEF SendSome, Draining, apiVars
  <1>8. CASE SendWouldBlock
    <2>1. <<chunk>> \in Seq(Seq(Nat)) /\ <<>> \in Seq(Nat)
      OBVIOUS
    <2>. QED  BY <1>8, <2>1 DEF SendWouldBlock, Draining, apiVars
  <1>9. CASE SendFails
    BY <1>9 DEF SendFails, Draining, apiVars
  <1>10. ASSUME NEW u \in Users, UserBegins(u)
         PROVE  DataTypes'
    <2>1. \A n \in Sizes : n \in Nat
      BY ConnectionAssumption, ZenonT(60)
    <2>2. CASE \E n \in Sizes : SendBegin(u, n)
      <3>1. PICK n \in Sizes : SendBegin(u, n)
        BY <2>2
      <3>2. n \in Nat /\ "send" \in Ops
        BY <2>1 DEF Ops
      <3>. QED  BY <1>3, <3>1, <3>2 DEF SendBegin
    <2>3. CASE CloseFromUser(u)
      BY <1>3, <2>3, SMTT(60) DEF CloseFromUser, Idle, Ops
    <2>4. CASE \E op \in {"pause", "resume"} : FlowBegin(u, op)
      BY <1>3, <2>4, SMTT(60) DEF FlowBegin, Ops
    <2>. QED  BY <1>10, <2>2, <2>3, <2>4, SMTT(60) DEF UserBegins
  <1>11. CASE PoolStep \/ (\E h \in {"data", "close"} : SetHandler(h)) \/ RunPosts \/ IoClose
              \/ IoReadable \/ IoWritable \/ DrainEmpty \/ UNCHANGED vars
    <2>1. UNCHANGED <<queue, chunk, accepted, user>>
      BY <1>11, ZenonT(60)
         DEF PoolStep, BeginOnConnect, EndOnConnect, CallbackBegins, CallbackEnds, SetHandler,
             RunPosts, RunStartReading, RunRegisterWritable, RunClose, RunPause, RunResume,
             RunPost, IoClose, IoReadable, IoWritable, DrainEmpty, Draining, vars, apiVars,
             writeVars
    <2>. QED  BY <1>2, <2>1, SMTT(60)
  <1>12. \A n \in 1..MaxBytes : n \in Nat
    OBVIOUS
  <1>. QED  BY <1>4, <1>5, <1>6, <1>7, <1>8, <1>9, <1>10, <1>11, <1>12, SMTT(60)
            DEF Next, UserEnds, Sends

-----------------------------------------------------------------------------
(* The actions *)

\* Nothing is queued, posted or submitted at first.
LEMMA InitEstablishes == Init => IInv
  <1>. SUFFICES ASSUME Init PROVE IInv
    OBVIOUS
  <1>1. Types
    <2>1. \A S : <<>> \in Seq(S)
      OBVIOUS
    <2>. QED  BY <2>1, ZenonT(60) DEF Init, Types
  <1>2. CloseIsClosed /\ CloseIsLast
    BY DEF Init, CloseIsClosed, CloseIsLast
  <1>. QED  BY <1>1, <1>2 DEF Init, IInv, InDispatcher, FlagIsQueue, DrainIsWritable,
                 NoLostWriteInterest

\* The steps that touch neither the write path nor the two sequences.
Aside ==
    /\ UNCHANGED <<posts, writeVars, ioVars, submitted>>
    /\ phase' = phase \/ phase' # "done"

\* Such a step keeps the invariant.
LEMMA AsidePreserves ==
    ASSUME IInv, Aside
    PROVE  IInv'
  BY DEF Aside, writeVars, ioVars, IInv, Types, InDispatcher, FlagIsQueue, DrainIsWritable,
         NoLostWriteInterest, CloseIsClosed, CloseIsLast, Pending

\* A post more; on_connect ends only with the post of start_reading.
LEMMA PostPreserves ==
    ASSUME IInv, NEW p \in {"start_reading", "close", "pause", "resume"},
           posts' = Append(posts, p), phase' = phase \/ p = "start_reading",
           UNCHANGED <<writeVars, ioVars, submitted>>
    PROVE  IInv'
  <1>. USE DEF IInv
  <1>1. /\ posts' \in Seq({"start_reading", "register_writable", "close", "pause", "resume"})
        /\ Pending(p)' /\ \A q : Pending(q) => Pending(q)'
    BY PostAdded
  <1>2. InDispatcher'
    BY <1>1 DEF InDispatcher, ioVars
  <1>3. NoLostWriteInterest'
    BY <1>1 DEF NoLostWriteInterest, ioVars, writeVars
  <1>. QED  BY <1>1, <1>2, <1>3
            DEF Types, FlagIsQueue, DrainIsWritable, CloseIsClosed, CloseIsLast, ioVars, writeVars

\* A send into an empty queue posts the registration; into another, the
\* registration is there or on its way.
LEMMA SendEnqueuePreserves ==
    ASSUME IInv, DataTypes, NEW u \in Users, SendEnqueue(u)
    PROVE  IInv'
  <1>. USE DEF IInv, SendEnqueue, ioVars
  <1>1. /\ posts' \in Seq({"start_reading", "register_writable", "close", "pause", "resume"})
        /\ ~writeRegistered => Pending("register_writable")'
        /\ \A q : Pending(q) => Pending(q)'
    <2>1. CASE writeRegistered
      BY <2>1 DEF Types, Pending
    <2>2. CASE ~writeRegistered
      BY <2>2, PostAdded
    <2>. QED  BY <2>1, <2>2
  <1>2. queue' # <<>>
    <2>1. NewBytes(user[u].size) \in Seq(Nat)
      BY NewBytesType, SMTT(60) DEF DataTypes
    <2>. QED  BY <2>1, SMTT(60) DEF DataTypes
  <1>3. NoLostWriteInterest'
    BY <1>1 DEF NoLostWriteInterest, FlagIsQueue, Types
  <1>4. InDispatcher'
    BY <1>1 DEF InDispatcher
  <1>5. Types'
    BY <1>1 DEF Types, callbackVars
  <1>6. FlagIsQueue' /\ DrainIsWritable'
    BY <1>2, SMTT(60) DEF FlagIsQueue, DrainIsWritable, Types
  <1>7. CloseIsClosed' /\ CloseIsLast'
    BY DEF CloseIsClosed, CloseIsLast, callbackVars
  <1>. QED  BY <1>3, <1>4, <1>5, <1>6, <1>7, SMTT(60)

\* What a close does to the callbacks: on_close is submitted once.
LEMMA InitiateCloseCallbacks ==
    ASSUME IInv, InitiateClose
    PROVE  submitted' \in Seq({"data", "close"}) /\ CloseIsClosed' /\ CloseIsLast'
  <1>1. CASE ~closed /\ "close" \in handlers
    BY <1>1, CallbackAdded DEF InitiateClose, IInv
  <1>2. CASE ~(~closed /\ "close" \in handlers)
    BY <1>2 DEF InitiateClose, IInv, Types, CloseIsClosed, CloseIsLast
  <1>. QED  BY <1>1, <1>2, SMTT(60)

\* A close from the loop, wherever it comes from, ends every obligation.
LEMMA ClosePreserves ==
    ASSUME IInv, InitiateClose, loop' = "idle", chunk' = <<>>,
           UNCHANGED <<queue, writeRegistered>>,
           posts' \in Seq({"start_reading", "register_writable", "close", "pause", "resume"})
    PROVE  IInv'
  <1>1. submitted' \in Seq({"data", "close"}) /\ CloseIsClosed' /\ CloseIsLast'
    BY InitiateCloseCallbacks
  <1>2. closed' /\ ~registered'
    BY DEF InitiateClose
  <1>. QED  BY <1>1, <1>2, ZenonT(60) DEF InitiateClose, IInv, Types, InDispatcher, FlagIsQueue,
                 DrainIsWritable, NoLostWriteInterest

\* The posts: each looks at what was queued before it sets the interest.
LEMMA RunPostsPreserves ==
    ASSUME IInv, RunPosts
    PROVE  IInv'
  <1>. USE DEF IInv
  <1>1. CASE RunClose
    <2>1. RunPost("close") /\ InitiateClose
      BY <1>1 DEF RunClose
    <2>. QED  BY <2>1, PostTaken, ClosePreserves, SMTT(60) DEF RunPost, writeVars, FlagIsQueue
  <1>2. ASSUME NEW p \in {"start_reading", "register_writable", "pause", "resume"}, RunPost(p),
               UNCHANGED <<closed, submitted>>, registered' \in BOOLEAN,
               registered' => ~closed,
               ~closed => registered' \/ (p # "start_reading" /\ registered' = registered),
               ~closed /\ queue # <<>> =>
                   "writable" \in interest' \/ (p # "start_reading" /\ ~registered)
        PROVE  IInv'
    <2>1. /\ posts' \in Seq({"start_reading", "register_writable", "close", "pause", "resume"})
          /\ \A q : Pending(q) /\ q # p => Pending(q)'
      BY <1>2, PostTaken
    <2>2. InDispatcher'
      BY <1>2, <2>1 DEF InDispatcher, RunPost
    <2>3. NoLostWriteInterest'
      BY <1>2, <2>1, SMTT(60) DEF NoLostWriteInterest, InDispatcher, RunPost, writeVars
    <2>. QED  BY <1>2, <2>1, <2>2, <2>3, SMTT(60)
              DEF RunPost, writeVars, Types, FlagIsQueue, DrainIsWritable, CloseIsClosed,
                  CloseIsLast
  <1>3. CASE RunStartReading
    BY <1>2, <1>3, ZenonT(60) DEF RunStartReading, Types
  <1>4. CASE RunRegisterWritable
    BY <1>2, <1>4 DEF RunRegisterWritable, Modify, Types
  <1>5. CASE RunPause
    BY <1>2, <1>5 DEF RunPause, Modify, WantsWrite, Types, FlagIsQueue
  <1>6. CASE RunResume
    BY <1>2, <1>6 DEF RunResume, Modify, WantsWrite, Types, FlagIsQueue
  <1>. QED  BY <1>1, <1>3, <1>4, <1>5, <1>6, SMTT(60) DEF RunPosts

\* The dispatcher calls a handler only of an open connection.
LEMMA IoPreserves ==
    ASSUME IInv, IoClose \/ IoReadable \/ IoWritable
    PROVE  IInv'
  <1>. USE DEF IInv
  <1>1. CASE IoClose
    BY <1>1, ClosePreserves DEF IoClose, Types, FlagIsQueue, writeVars
  <1>2. CASE IoReadable \/ IoWritable
    <2>1. UNCHANGED <<phase, posts, writeVars, closed, registered, interest>> /\ ~closed
      BY <1>2, SMTT(60) DEF IoReadable, IoWritable, Types
    <2>2. /\ loop' \in {"idle", "drain"} /\ loop = "idle"
          /\ loop' = "drain" => registered /\ "writable" \in interest
      BY <1>2, SMTT(60) DEF IoReadable, IoWritable
    <2>3. submitted' \in Seq({"data", "close"}) /\ CloseIsClosed' /\ CloseIsLast'
      <3>1. CASE submitted' = Append(submitted, "data")
        BY <2>1, <3>1, CallbackAdded, SMTT(60) DEF Types
      <3>2. CASE submitted' = submitted
        BY <2>1, <3>2 DEF Types, CloseIsClosed, CloseIsLast
      <3>. QED  BY <1>2, <3>1, <3>2, SMTT(60) DEF IoReadable, IoWritable, callbackVars
    <2>. QED  BY <2>1, <2>2, <2>3, SMTT(60)
              DEF Types, InDispatcher, FlagIsQueue, DrainIsWritable, NoLostWriteInterest,
                  Pending, writeVars
  <1>. QED  BY <1>1, <1>2, SMTT(60)

\* drain_write_queue gives the interest up only when it has found the queue
\* empty, and puts back what it could not send while the interest stands.
LEMMA DrainPreserves ==
    ASSUME IInv, DataTypes, NEW n,
           DrainEmpty \/ DrainPop \/ SendSome(n) \/ SendWouldBlock \/ SendFails
    PROVE  IInv'
  <1>. USE DEF IInv
  <1>1. CASE SendFails
    <2>1. posts' = posts /\ loop' = "idle" /\ chunk' = <<>> /\ InitiateClose
      BY <1>1 DEF SendFails, Draining
    <2>. QED  BY <1>1, <2>1, ClosePreserves, SMTT(60) DEF SendFails, Types
  <1>2. CASE DrainEmpty \/ DrainPop \/ SendSome(n) \/ SendWouldBlock
    <2>1. /\ UNCHANGED <<phase, posts, closed, registered, submitted>>
          /\ loop = "drain" /\ loop' \in {"idle", "drain"}
      BY <1>2 DEF DrainEmpty, DrainPop, SendSome, SendWouldBlock, Draining, ioVars
    <2>2. Types' /\ InDispatcher' /\ CloseIsClosed' /\ CloseIsLast'
      <3>1. writeRegistered' \in BOOLEAN
        BY <1>2, ZenonT(60) DEF DrainEmpty, DrainPop, SendSome, SendWouldBlock, Types
      <3>. QED  BY <2>1, <3>1, SMTT(60) DEF Types, InDispatcher, CloseIsClosed, CloseIsLast, Pending
    <2>3. CASE DrainEmpty
      BY <2>1, <2>2, <2>3, SMTT(60)
         DEF DrainEmpty, FlagIsQueue, DrainIsWritable, NoLostWriteInterest
    <2>4. CASE DrainPop \/ SendSome(n)
      <3>1. loop' = "drain" /\ interest' = interest /\ writeRegistered' = writeRegistered
        BY <2>4, <2>1, SMTT(60) DEF DrainPop, SendSome, ioVars
      <3>2. writeRegistered
        BY <2>4, SMTT(60) DEF DrainPop, SendSome, FlagIsQueue, DataTypes
      <3>. QED  BY <2>1, <2>2, <3>1, <3>2, SMTT(60)
                DEF FlagIsQueue, DrainIsWritable, NoLostWriteInterest
    <2>5. CASE SendWouldBlock
      <3>1. writeRegistered' /\ queue' # <<>> /\ chunk' = <<>> /\ interest' = interest
        BY <2>5 DEF SendWouldBlock, FlagIsQueue, DataTypes
      <3>. QED  BY <2>1, <2>2, <2>5, <3>1, SMTT(60)
                DEF SendWouldBlock, FlagIsQueue, DrainIsWritable, NoLostWriteInterest
    <2>. QED  BY <1>2, <2>3, <2>4, <2>5, SMTT(60)
  <1>. QED  BY <1>1, <1>2, SMTT(60)

-----------------------------------------------------------------------------
(* Induction, and what Bytes computes *)

\* A nonempty set of naturals has a least element.
LEMMA LeastElement ==
    ASSUME NEW T \in SUBSET Nat, T # {}
    PROVE  \E m \in T : \A k \in T : m <= k
  <1>. DEFINE Less == {p \in Nat \X Nat : p[1] < p[2]}
  <1>1. IsWellFoundedOn(Less, Nat)
    BY NatLessThanWellFounded, Zenon DEF OpToRel
  <1>2. \A j, k \in Nat : j < k => <<j, k>> \in Less
    OBVIOUS
  <1>. HIDE DEF Less
  <1>3. PICK m \in T : \A k \in T : <<k, m>> \notin Less
    BY <1>1, WFMin, Zenon
  <1>4. \A k \in T : ~(k < m)
    BY <1>2, <1>3, ZenonT(60)
  <1>. QED  BY <1>4

\* Induction over the naturals, for the set of those that have a property.
LEMMA Induction ==
    ASSUME NEW T \in SUBSET Nat, 0 \in T, \A n \in T : n + 1 \in T
    PROVE  T = Nat
  <1>. SUFFICES ASSUME Nat \ T # {} PROVE FALSE
    BY Zenon
  <1>1. PICK m \in Nat \ T : \A k \in Nat \ T : m <= k
    BY LeastElement, ZenonT(60)
  <1>2. m # 0 /\ m - 1 \in Nat
    OBVIOUS
  <1>3. m - 1 \in T
    BY <1>1, <1>2
  <1>. QED  BY <1>2, <1>3

\* f is the function that Bytes defines by recursion over q.
Flattens(f, q) == f = [i \in 0..Len(q) |-> IF i = 0 THEN <<>> ELSE f[i - 1] \o q[i]]

\* One value of it.
LEMMA FlattenStep ==
    ASSUME NEW f, NEW q, Flattens(f, q), NEW i \in 0..Len(q)
    PROVE  f[i] = IF i = 0 THEN <<>> ELSE f[i - 1] \o q[i]
  <1>. DEFINE h == [j \in 0..Len(q) |-> IF j = 0 THEN <<>> ELSE f[j - 1] \o q[j]]
  <1>1. f = h
    BY ZenonT(60) DEF Flattens
  <1>2. h[i] = IF i = 0 THEN <<>> ELSE f[i - 1] \o q[i]
    OBVIOUS
  <1>. HIDE DEF h
  <1>. QED  BY <1>1, <1>2

\* It is there, for a queue of any length.
LEMMA FlattenExists ==
    ASSUME NEW S, NEW q \in Seq(Seq(S))
    PROVE  \E f \in [0..Len(q) -> Seq(S)] : Flattens(f, q)
  <1>. DEFINE T == {n \in Nat : \A r \in Seq(Seq(S)) : Len(r) = n =>
                                    \E f \in [0..n -> Seq(S)] : Flattens(f, r)}
  <1>1. 0 \in T
    <2>. SUFFICES ASSUME NEW r \in Seq(Seq(S)), Len(r) = 0
                  PROVE  \E f \in [0..0 -> Seq(S)] : Flattens(f, r)
      OBVIOUS
    <2>. DEFINE e == [i \in 0..0 |-> <<>>]
    <2>1. e \in [0..0 -> Seq(S)]
      OBVIOUS
    <2>2. Flattens(e, r)
      BY DEF Flattens
    <2>. QED  BY <2>1, <2>2, ZenonT(60)
  <1>2. ASSUME NEW n \in T
        PROVE  n + 1 \in T
    <2>. SUFFICES ASSUME NEW r \in Seq(Seq(S)), Len(r) = n + 1
                  PROVE  \E f \in [0..(n + 1) -> Seq(S)] : Flattens(f, r)
      OBVIOUS
    <2>0. n \in Nat
      OBVIOUS
    <2>a. r # <<>>
      BY <2>0
    <2>1. PICK p \in Seq(Seq(S)), x \in Seq(S) : r = Append(p, x)
      BY <2>a, SequenceEmptyOrAppend, Zenon
    <2>2. Len(p) = n /\ r[n + 1] = x /\ \A i \in 1..n : r[i] = p[i]
      BY <2>0, <2>1
    <2>3. PICK g \in [0..n -> Seq(S)] : Flattens(g, p)
      BY <2>2
    <2>. DEFINE f == [i \in 0..(n + 1) |-> IF i <= n THEN g[i] ELSE g[n] \o x]
    <2>4. f \in [0..(n + 1) -> Seq(S)]
      BY <2>0, ConcatProperties
    <2>5. ASSUME NEW i \in 0..(n + 1)
          PROVE  f[i] = IF i = 0 THEN <<>> ELSE f[i - 1] \o r[i]
      <3>1. CASE i <= n
        <4>1. i \in 0..n /\ (i # 0 => i \in 1..n /\ i - 1 \in 0..(n + 1) /\ i - 1 <= n)
          BY <2>0, <3>1
        <4>2. g[i] = IF i = 0 THEN <<>> ELSE g[i - 1] \o p[i]
          BY <2>2, <2>3, <4>1, FlattenStep, ZenonT(60)
        <4>. QED  BY <2>2, <3>1, <4>1, <4>2, ZenonT(60)
      <3>2. CASE i = n + 1
        BY <2>0, <2>2, <3>2
      <3>. QED  BY <2>0, <3>1, <3>2
    <2>. HIDE DEF f
    <2>6. Flattens(f, r)
      BY <2>4, <2>5, ZenonT(60) DEF Flattens
    <2>. QED  BY <2>4, <2>6
  <1>. HIDE DEF T
  <1>3. T = Nat
    BY <1>1, <1>2, Induction, ZenonT(60) DEF T
  <1>. QED  BY <1>3 DEF T

\* There is only one.
LEMMA FlattenUnique ==
    ASSUME NEW S, NEW q \in Seq(Seq(S)), NEW f, NEW g, Flattens(f, q), Flattens(g, q)
    PROVE  f = g
  <1>. DEFINE T == {n \in Nat : n \in 0..Len(q) => f[n] = g[n]}
  <1>1. 0 \in T
    <2>1. 0 \in 0..Len(q)
      OBVIOUS
    <2>. QED  BY <2>1, FlattenStep
  <1>2. ASSUME NEW n \in T
        PROVE  n + 1 \in T
    <2>. SUFFICES ASSUME n + 1 \in 0..Len(q) PROVE f[n + 1] = g[n + 1]
      OBVIOUS
    <2>1. n \in Nat /\ n \in 0..Len(q) /\ f[n] = g[n] /\ n + 1 # 0 /\ n + 1 - 1 = n
      OBVIOUS
    <2>2. /\ f[n + 1] = IF n + 1 = 0 THEN <<>> ELSE f[n + 1 - 1] \o q[n + 1]
          /\ g[n + 1] = IF n + 1 = 0 THEN <<>> ELSE g[n + 1 - 1] \o q[n + 1]
      BY FlattenStep
    <2>. QED  BY <2>1, <2>2, ZenonT(60)
  <1>. HIDE DEF T
  <1>3. T = Nat
    BY <1>1, <1>2, Induction, ZenonT(60) DEF T
  <1>4. \A i \in 0..Len(q) : f[i] = g[i]
    BY <1>3 DEF T
  <1>. QED  BY <1>4, ZenonT(60) DEF Flattens

\* Bytes is its last value.
LEMMA FlattenIsLast ==
    ASSUME NEW S, NEW q \in Seq(Seq(S)), NEW f, Flattens(f, q)
    PROVE  Bytes(q) = f[Len(q)]
  <1>. DEFINE c == CHOOSE upTo : upTo = [i \in 0..Len(q) |->
                                    IF i = 0 THEN <<>> ELSE upTo[i - 1] \o q[i]]
  <1>1. Flattens(c, q)
    BY ZenonT(60) DEF Flattens
  <1>2. c = f
    BY <1>1, FlattenUnique, ZenonT(60)
  <1>3. Bytes(q) = c[Len(q)]
    BY DEF Bytes
  <1>. QED  BY <1>2, <1>3, ZenonT(60)

\* An empty queue has no bytes.
LEMMA BytesEmpty == Bytes(<<>>) = <<>>
  <1>1. <<>> \in Seq(Seq(Nat)) /\ Len(<<>>) = 0 /\ 0 \in 0..0
    OBVIOUS
  <1>2. PICK f \in [0..0 -> Seq(Nat)] : Flattens(f, <<>>)
    BY <1>1, FlattenExists, ZenonT(60)
  <1>3. f[0] = <<>>
    BY <1>1, <1>2, FlattenStep
  <1>. QED  BY <1>1, <1>2, <1>3, FlattenIsLast, ZenonT(60)

\* The bytes of a queue are a sequence of bytes.
LEMMA BytesType ==
    ASSUME NEW S, NEW q \in Seq(Seq(S))
    PROVE  Bytes(q) \in Seq(S)
  <1>1. PICK f \in [0..Len(q) -> Seq(S)] : Flattens(f, q)
    BY FlattenExists
  <1>2. Len(q) \in 0..Len(q)
    OBVIOUS
  <1>3. Bytes(q) = f[Len(q)]
    BY <1>1, FlattenIsLast, Zenon
  <1>. QED  BY <1>1, <1>2, <1>3

\* A chunk put at the end of the queue puts its bytes at the end.
LEMMA BytesAppend ==
    ASSUME NEW S, NEW q \in Seq(Seq(S)), NEW x \in Seq(S)
    PROVE  Bytes(Append(q, x)) = Bytes(q) \o x
  <1>. DEFINE r == Append(q, x)
              k == Len(q) + 1
  <1>1. /\ r \in Seq(Seq(S)) /\ Len(q) \in Nat /\ Len(r) = k /\ r[k] = x
        /\ \A i \in 1..Len(q) : r[i] = q[i]
    BY AppendProperties, LenProperties
  <1>2. k \in 0..k /\ k # 0 /\ k - 1 = Len(q) /\ Len(q) \in 0..k /\ Len(q) \in 0..Len(q)
    BY <1>1
  <1>. HIDE DEF r, k
  <1>3. PICK f \in [0..k -> Seq(S)] : Flattens(f, r)
    BY <1>1, FlattenExists
  <1>4. Bytes(r) = f[k]
    BY <1>1, <1>3, FlattenIsLast
  <1>5. f[k] = f[Len(q)] \o x
    <2>1. k \in 0..Len(r)
      BY <1>1, <1>2
    <2>2. f[k] = IF k = 0 THEN <<>> ELSE f[k - 1] \o r[k]
      BY <1>3, <2>1, FlattenStep, ZenonT(60)
    <2>. QED  BY <1>1, <1>2, <2>2, ZenonT(60)
  <1>. DEFINE g == [i \in 0..Len(q) |-> f[i]]
  <1>6. ASSUME NEW i \in 0..Len(q)
        PROVE  g[i] = IF i = 0 THEN <<>> ELSE g[i - 1] \o q[i]
    <2>1. i \in 0..Len(r) /\ (i # 0 => i - 1 \in 0..Len(q) /\ i \in 1..Len(q))
      BY <1>1 DEF k
    <2>2. f[i] = IF i = 0 THEN <<>> ELSE f[i - 1] \o r[i]
      BY <1>3, <2>1, FlattenStep, ZenonT(60)
    <2>. QED  BY <1>1, <2>1, <2>2, ZenonT(60)
  <1>. DEFINE h == [i \in 0..Len(q) |-> IF i = 0 THEN <<>> ELSE g[i - 1] \o q[i]]
  <1>7. g = h
    BY <1>6, SMTT(60)
  <1>8. Flattens(g, q)
    BY <1>7, ZenonT(60) DEF Flattens
  <1>9. Bytes(q) = f[Len(q)]
    BY <1>2, <1>8, FlattenIsLast, SMTT(60)
  <1>. QED  BY <1>4, <1>5, <1>9 DEF r

\* Concatenation of three sequences of bytes.
LEMMA BytesConcat ==
    \A a, b, c \in Seq(Nat) : (a \o b) \o c = a \o (b \o c)
  BY SMTT(60)

\* The bytes of the first chunk are the first bytes.
LEMMA BytesHead ==
    ASSUME NEW q \in Seq(Seq(Nat)), q # <<>>
    PROVE  Bytes(q) = Head(q) \o Bytes(Tail(q))
  <1>. DEFINE T == {n \in Nat : \A r \in Seq(Seq(Nat)) : Len(r) = n + 1 =>
                                    Bytes(r) = Head(r) \o Bytes(Tail(r))}
  <1>1. ASSUME NEW n \in Nat, n = 0 \/ (n - 1 \in Nat /\ n - 1 \in T),
               NEW r \in Seq(Seq(Nat)), Len(r) = n + 1
        PROVE  Bytes(r) = Head(r) \o Bytes(Tail(r))
    <2>1. r # <<>>
      BY <1>1
    <2>2. PICK p \in Seq(Seq(Nat)), x \in Seq(Nat) : r = Append(p, x)
      BY <2>1, SequenceEmptyOrAppend, Zenon
    <2>3. Len(p) = n
      BY <1>1, <2>2
    <2>4. Bytes(r) = Bytes(p) \o x
      BY <2>2, BytesAppend, SMTT(60)
    <2>5. CASE p = <<>>
      <3>1. Head(r) = x /\ Tail(r) = <<>>
        BY <2>2, <2>5
      <3>2. Bytes(<<>>) = <<>>
        BY BytesEmpty
      <3>. QED  BY <2>4, <2>5, <3>1, <3>2, ConcatEmptySeq, ZenonT(60)
    <2>6. CASE p # <<>>
      <3>1. n # 0 /\ Len(p) = n - 1 + 1
        BY <1>1, <2>3, <2>6
      <3>a. n - 1 \in T
        BY <1>1, <3>1, Zenon
      <3>b. \A s \in Seq(Seq(Nat)) : Len(s) = n - 1 + 1 => Bytes(s) = Head(s) \o Bytes(Tail(s))
        BY <3>a, Zenon
      <3>2. Bytes(p) = Head(p) \o Bytes(Tail(p))
        BY <3>1, <3>b, Zenon
      <3>3. Head(r) = Head(p) /\ Tail(r) = Append(Tail(p), x)
        BY <2>2, <2>6, HeadTailAppend, Zenon
      <3>4. Head(p) \in Seq(Nat) /\ Tail(p) \in Seq(Seq(Nat))
        BY <2>6, HeadTailProperties, Zenon
      <3>5. Bytes(Tail(r)) = Bytes(Tail(p)) \o x
        BY <3>3, <3>4, BytesAppend, ZenonT(60)
      <3>6. Bytes(Tail(p)) \in Seq(Nat)
        BY <3>4, BytesType, ZenonT(60)
      <3>7. (Head(p) \o Bytes(Tail(p))) \o x = Head(p) \o (Bytes(Tail(p)) \o x)
        BY <3>4, <3>6, BytesConcat, Zenon
      <3>. QED  BY <2>4, <3>2, <3>3, <3>5, <3>7, Zenon
    <2>. QED  BY <2>5, <2>6, ZenonT(60)
  <1>2. 0 \in T
    BY <1>1, ZenonT(60)
  <1>3. ASSUME NEW n \in T
        PROVE  n + 1 \in T
    <2>. DEFINE k == n + 1
    <2>1. k \in Nat /\ k - 1 = n /\ n \in Nat
      OBVIOUS
    <2>. HIDE DEF k
    <2>2. k - 1 \in Nat /\ k - 1 \in T
      BY <1>3, <2>1, Zenon
    <2>3. \A r \in Seq(Seq(Nat)) : Len(r) = k + 1 =>
              Bytes(r) = Head(r) \o Bytes(Tail(r))
      BY <1>1, <2>1, <2>2, Zenon
    <2>4. k \in T
      BY <2>1, <2>3
    <2>. QED  BY <2>4 DEF k
  <1>. HIDE DEF T
  <1>4. T = Nat
    BY <1>2, <1>3, Induction, ZenonT(60) DEF T
  <1>5. Len(q) - 1 \in Nat /\ Len(q) - 1 + 1 = Len(q)
    OBVIOUS
  <1>. QED  BY <1>4, <1>5, ZenonT(60) DEF T

-----------------------------------------------------------------------------
(* The bytes of the stream *)

\* The bytes are where they belong.
Streams == wire \in Seq(Nat) /\ StreamIntact

\* The numbers of the first n bytes.
Numbers(n) == [i \in 1..n |-> i]

\* The bytes of one more send continue the count.
LEMMA NumbersContinue ==
    ASSUME NEW n \in Nat, NEW k \in Nat
    PROVE  Numbers(n) \o [i \in 1..k |-> n + i] = Numbers(n + k)
  <1>. DEFINE a == Numbers(n)
              b == [i \in 1..k |-> n + i]
              c == Numbers(n + k)
  <1>1. /\ a \in Seq(Nat) /\ Len(a) = n /\ \A i \in 1..n : a[i] = i
        /\ b \in Seq(Nat) /\ Len(b) = k /\ \A i \in 1..k : b[i] = n + i
        /\ c \in Seq(Nat) /\ Len(c) = n + k /\ \A i \in 1..(n + k) : c[i] = i
    BY DEF Numbers
  <1>. HIDE DEF a, b, c
  <1>2. a \o b \in Seq(Nat) /\ Len(a \o b) = n + k
    BY <1>1
  <1>3. ASSUME NEW i \in 1..(n + k)
        PROVE  (a \o b)[i] = c[i]
    <2>1. (a \o b)[i] = IF i <= n THEN a[i] ELSE b[i - n]
      BY <1>1, SMTT(60)
    <2>. QED  BY <1>1, <2>1
  <1>4. a \o b = c
    BY <1>1, <1>2, <1>3, SeqEqual, ZenonT(60)
  <1>. QED  BY <1>4, SMTT(60) DEF a, b, c

\* What comes before the rest of the count is a count.
LEMMA NumbersPrefix ==
    ASSUME NEW a \in Seq(Nat), NEW b \in Seq(Nat), NEW n \in Nat, a \o b = Numbers(n)
    PROVE  a = Numbers(Len(a))
  <1>1. \A i \in 1..Len(a) : (a \o b)[i] = a[i] /\ i \in 1..Len(a \o b)
    OBVIOUS
  <1>2. Len(Numbers(n)) = n /\ \A i \in 1..n : Numbers(n)[i] = i
    BY DEF Numbers
  <1>3. \A i \in 1..Len(a) : a[i] = i
    BY <1>1, <1>2
  <1>. QED  BY <1>3 DEF Numbers

\* A step that moves no byte, or only closes.
LEMMA StreamsAside ==
    ASSUME Streams, UNCHANGED <<queue, queueBytes, accepted, wire>>, closed => closed',
           chunk' = chunk \/ closed'
    PROVE  Streams'
  BY DEF Streams, StreamIntact

\* A send puts its bytes at the end of all.
LEMMA SendEnqueueStreams ==
    ASSUME Streams, DataTypes, NEW u \in Users, SendEnqueue(u)
    PROVE  Streams'
  <1>. DEFINE n == user[u].size
              flat == Bytes(queue)
              new == NewBytes(n)
  <1>1. n \in Nat /\ queue \in Seq(Seq(Nat)) /\ chunk \in Seq(Nat) /\ accepted \in Nat
    BY DEF DataTypes
  <1>2. /\ queue' = Append(queue, new) /\ queueBytes' = queueBytes + n
        /\ accepted' = accepted + n /\ UNCHANGED <<chunk, wire, closed>>
    BY DEF SendEnqueue, ioVars
  <1>. HIDE DEF n
  <1>3. new \in Seq(Nat) /\ Len(new) = n /\ new = [i \in 1..n |-> accepted + i]
    BY <1>1 DEF NewBytes
  <1>. HIDE DEF new
  <1>4. flat \in Seq(Nat) /\ Bytes(queue') = flat \o new
    BY <1>1, <1>2, <1>3, BytesType, BytesAppend, ZenonT(60)
  <1>. HIDE DEF flat
  <1>5. wire \in Seq(Nat) /\ queueBytes = Len(flat) /\ wire = [i \in 1..Len(wire) |-> i]
        /\ (~closed => wire \o chunk \o flat = Numbers(accepted))
    BY DEF Streams, StreamIntact, Numbers, flat
  <1>6. queueBytes' = Len(Bytes(queue'))
    BY <1>1, <1>2, <1>3, <1>4, <1>5
  <1>7. ASSUME ~closed
        PROVE  wire \o chunk \o (flat \o new) = Numbers(accepted + n)
    <2>. DEFINE w == wire \o chunk
    <2>1. w \in Seq(Nat)
      BY <1>1, <1>5
    <2>2. w \o flat = Numbers(accepted)
      BY <1>5, <1>7
    <2>. HIDE DEF w
    <2>3. (w \o flat) \o new = w \o (flat \o new)
      BY <1>3, <1>4, <2>1, BytesConcat, Zenon
    <2>4. Numbers(accepted) \o new = Numbers(accepted + n)
      BY <1>1, <1>3, NumbersContinue, ZenonT(60)
    <2>5. w \o (flat \o new) = Numbers(accepted + n)
      BY <2>2, <2>3, <2>4, ZenonT(60)
    <2>. QED  BY <2>5 DEF w
  <1>. QED  BY <1>2, <1>4, <1>5, <1>6, <1>7 DEF Streams, StreamIntact, Numbers

\* The first of the queue becomes the chunk.
LEMMA DrainPopStreams ==
    ASSUME Streams, DataTypes, DrainPop
    PROVE  Streams'
  <1>. DEFINE first == Head(queue)
              rest == Bytes(Tail(queue))
  <1>1. queue \in Seq(Seq(Nat)) /\ queue # <<>> /\ chunk = <<>>
    BY DEF DataTypes, DrainPop
  <1>2. /\ chunk' = first /\ queue' = Tail(queue) /\ queueBytes' = queueBytes - Len(first)
        /\ UNCHANGED <<accepted, wire, closed>>
    BY DEF DrainPop, Draining, ioVars
  <1>3. first \in Seq(Nat) /\ Tail(queue) \in Seq(Seq(Nat))
    BY <1>1
  <1>4. rest \in Seq(Nat) /\ Bytes(queue) = first \o rest
    BY <1>1, <1>3, BytesType, BytesHead, ZenonT(60)
  <1>5. Bytes(queue') = rest
    BY <1>2
  <1>. HIDE DEF first, rest
  <1>6. wire \in Seq(Nat) /\ queueBytes = Len(first \o rest) /\ wire = [i \in 1..Len(wire) |-> i]
        /\ (~closed => wire \o chunk \o (first \o rest) = Numbers(accepted))
    BY <1>4 DEF Streams, StreamIntact, Numbers
  <1>7. queueBytes' = Len(rest)
    BY <1>2, <1>3, <1>4, <1>6
  <1>8. wire \o chunk = wire
    BY <1>1, <1>6, ConcatEmptySeq
  <1>9. (wire \o first) \o rest = wire \o (first \o rest)
    BY <1>3, <1>4, <1>6, BytesConcat, Zenon
  <1>10. wire \o first \o rest = wire \o chunk \o (first \o rest)
    BY <1>8, <1>9, Zenon
  <1>. QED  BY <1>2, <1>5, <1>6, <1>7, <1>10, ZenonT(60) DEF Streams, StreamIntact, Numbers

\* A part of the chunk goes to the socket: the connection is open meanwhile.
LEMMA SendSomeStreams ==
    ASSUME Streams, IInv, DataTypes, NEW n \in Nat, SendSome(n)
    PROVE  Streams'
  <1>. DEFINE sent == SubSeq(chunk, 1, n)
              left == SubSeq(chunk, n + 1, Len(chunk))
              flat == Bytes(queue)
  <1>1. /\ queue \in Seq(Seq(Nat)) /\ chunk \in Seq(Nat) /\ accepted \in Nat
        /\ n \in 1..Len(chunk) /\ ~closed
    BY DEF DataTypes, SendSome, Draining, IInv, Types, DrainIsWritable
  <1>2. /\ wire' = wire \o sent /\ chunk' = left
        /\ UNCHANGED <<queue, queueBytes, accepted, closed>>
    BY DEF SendSome, Draining, ioVars
  <1>3. sent \in Seq(Nat) /\ left \in Seq(Nat) /\ sent \o left = chunk
    BY <1>1, SMTT(60)
  <1>4. flat \in Seq(Nat)
    BY <1>1, BytesType
  <1>. HIDE DEF sent, left, flat
  <1>5. wire \in Seq(Nat) /\ queueBytes = Len(flat) /\ wire \o chunk \o flat = Numbers(accepted)
    BY <1>1 DEF Streams, StreamIntact, Numbers, flat
  <1>6. wire \o sent \in Seq(Nat) /\ left \o flat \in Seq(Nat)
    BY <1>3, <1>4, <1>5
  <1>7. (wire \o sent) \o left = wire \o (sent \o left)
    BY <1>3, <1>5, BytesConcat, Zenon
  <1>8. (wire \o sent) \o left \o flat = Numbers(accepted)
    BY <1>3, <1>5, <1>7, Zenon
  <1>9. (wire \o sent) \o (left \o flat) = Numbers(accepted)
    BY <1>3, <1>4, <1>6, <1>8, BytesConcat, Zenon
  <1>10. wire \o sent = Numbers(Len(wire \o sent))
    BY <1>1, <1>6, <1>9, NumbersPrefix, ZenonT(60)
  <1>. QED  BY <1>2, <1>5, <1>6, <1>8, <1>10 DEF Streams, StreamIntact, Numbers, flat

\* What would block goes back to the front of the queue.
LEMMA SendWouldBlockStreams ==
    ASSUME Streams, DataTypes, SendWouldBlock
    PROVE  Streams'
  <1>. DEFINE flat == Bytes(queue)
              back == <<chunk>> \o queue
  <1>1. queue \in Seq(Seq(Nat)) /\ chunk \in Seq(Nat)
    BY DEF DataTypes
  <1>2. /\ queue' = back /\ queueBytes' = queueBytes + Len(chunk) /\ chunk' = <<>>
        /\ UNCHANGED <<accepted, wire, closed>>
    BY DEF SendWouldBlock, Draining
  <1>3. back \in Seq(Seq(Nat)) /\ back # <<>> /\ Head(back) = chunk /\ Tail(back) = queue
    BY <1>1
  <1>. HIDE DEF back
  <1>4. flat \in Seq(Nat) /\ Bytes(back) = chunk \o flat
    BY <1>1, <1>3, BytesType, BytesHead, ZenonT(60)
  <1>. HIDE DEF flat
  <1>5. wire \in Seq(Nat) /\ queueBytes = Len(flat) /\ wire = [i \in 1..Len(wire) |-> i]
        /\ (~closed => wire \o chunk \o flat = Numbers(accepted))
    BY DEF Streams, StreamIntact, Numbers, flat
  <1>6. queueBytes' = Len(chunk \o flat)
    BY <1>1, <1>2, <1>4, <1>5
  <1>7. wire \o <<>> = wire
    BY <1>5, ConcatEmptySeq
  <1>8. (wire \o chunk) \o flat = wire \o (chunk \o flat)
    BY <1>1, <1>4, <1>5, BytesConcat, Zenon
  <1>9. wire \o <<>> \o (chunk \o flat) = wire \o chunk \o flat
    BY <1>7, <1>8, Zenon
  <1>. QED  BY <1>2, <1>4, <1>5, <1>6, <1>9, ZenonT(60) DEF Streams, StreamIntact, Numbers

\* The bytes stay where they belong.
LEMMA StreamsPreserved ==
    ASSUME Streams, IInv, DataTypes, [Next]_vars
    PROVE  Streams'
  <1>1. CASE SendFails
    <2>1. UNCHANGED <<queue, queueBytes, accepted, wire>> /\ closed'
      BY <1>1 DEF SendFails, Draining, InitiateClose
    <2>. QED  BY <2>1, StreamsAside
  <1>2. CASE RunPosts \/ IoClose \/ IoReadable \/ IoWritable
    <2>1. UNCHANGED writeVars
      BY <1>2, ZenonT(60) DEF RunPosts, RunStartReading, RunRegisterWritable, RunClose, RunPause,
         RunResume, RunPost, IoClose, IoReadable, IoWritable
    <2>2. closed => closed'
      BY <1>2, ZenonT(60) DEF RunPosts, RunStartReading, RunRegisterWritable, RunClose, RunPause,
         RunResume, IoClose, IoReadable, IoWritable, InitiateClose
    <2>. QED  BY <2>1, <2>2, StreamsAside DEF writeVars
  <1>3. CASE PoolStep \/ (\E h \in {"data", "close"} : SetHandler(h)) \/ UNCHANGED vars
    <2>1. UNCHANGED <<writeVars, ioVars>>
      BY <1>3, ZenonT(60) DEF PoolStep, BeginOnConnect, EndOnConnect, CallbackBegins,
         CallbackEnds, SetHandler, vars
    <2>. QED  BY <2>1, StreamsAside DEF writeVars, ioVars
  <1>4. ASSUME NEW u \in Users, UserBegins(u) \/ SendRejected(u) \/ FlowPost(u)
        PROVE  Streams'
    <2>1. UNCHANGED <<writeVars, ioVars>>
      BY <1>4, ZenonT(60) DEF UserBegins, SendBegin, CloseFromUser, FlowBegin, SendRejected,
         FlowPost
    <2>. QED  BY <2>1, StreamsAside DEF writeVars, ioVars
  <1>5. CASE DrainEmpty
    <2>1. UNCHANGED <<queue, queueBytes, accepted, wire, chunk, closed>>
      BY <1>5 DEF DrainEmpty, Draining
    <2>. QED  BY <2>1, StreamsAside
  <1>6. CASE Sends
    <2>1. PICK n \in 1..MaxBytes : SendSome(n)
      BY <1>6 DEF Sends
    <2>2. n \in Nat
      OBVIOUS
    <2>. QED  BY <2>1, <2>2, SendSomeStreams
  <1>7. ASSUME NEW u \in Users, UserEnds(u)
        PROVE  Streams'
    BY <1>4, <1>7, SendEnqueueStreams, ZenonT(60) DEF UserEnds
  <1>. QED  BY <1>1, <1>2, <1>3, <1>4, <1>5, <1>6, <1>7, DrainPopStreams, SendWouldBlockStreams,
               ZenonT(60) DEF Next

-----------------------------------------------------------------------------
(* Reading and pausing *)

FlowOps == {"pause", "resume"}

\* A thread has stored to paused_ and not yet posted.
InFlow(u) == user[u].op \in FlowOps

\* Post i is the last one about reading.
LastFlow(i) ==
    /\ posts[i] \in FlowOps
    /\ \A j \in 1..Len(posts) : j > i => posts[j] \notin FlowOps

\* No pause() or resume() is under way.
NoFlow ==
    /\ \A u \in Users : ~InFlow(u)
    /\ \A i \in 1..Len(posts) : posts[i] \notin FlowOps

\* The interest in reading is as paused_ says.
InterestAgrees ==
    /\ ~paused /\ registered => "readable" \in interest
    /\ paused /\ ~reopened => "readable" \notin interest

\* paused_ is what the call that is under way stored, else what the last post
\* about reading says, else what the interest says.
FlowAgrees ==
    /\ paused \in BOOLEAN
    /\ \A u \in Users : InFlow(u) => u \in Pausers /\ paused = (user[u].op = "pause")
    /\ (\A u \in Users : ~InFlow(u)) =>
           \A i \in 1..Len(posts) : LastFlow(i) => paused = (posts[i] = "pause")
    /\ NoFlow /\ ~closed => InterestAgrees
    /\ ~registered => interest = {}

\* The step neither adds nor takes a post about reading.
PostsCalm ==
    /\ \A i \in 1..Len(posts') : LastFlow(i)' =>
           \E j \in 1..Len(posts) : LastFlow(j) /\ posts[j] = posts'[i]
    /\ (\A i \in 1..Len(posts') : posts'[i] \notin FlowOps) =>
           \A i \in 1..Len(posts) : posts[i] \notin FlowOps

\* The step is of no call of pause() or resume() and of no post of one.
FlowCalm ==
    /\ paused' = paused /\ PostsCalm
    /\ \A u \in Users : user'[u] = user[u] \/ (~InFlow(u) /\ ~InFlow(u)')
    /\ NoFlow /\ ~closed' /\ InterestAgrees => InterestAgrees'
    /\ ~registered' => interest' = {}
    /\ closed => closed'

\* No post more or less.
LEMMA PostsSame ==
    ASSUME posts' = posts
    PROVE  PostsCalm
  BY DEF PostsCalm, LastFlow

\* A post more that is not about reading.
LEMMA PostsAdded ==
    ASSUME Types, NEW p \in {"start_reading", "register_writable", "close"},
           posts' = Append(posts, p)
    PROVE  PostsCalm
  <1>1. /\ Len(posts) \in Nat /\ Len(posts') = Len(posts) + 1
        /\ posts'[Len(posts) + 1] = p
        /\ \A i \in 1..Len(posts) : posts'[i] = posts[i]
    BY DEF Types
  <1>2. p \notin FlowOps
    BY DEF FlowOps
  <1>3. ASSUME NEW i \in 1..Len(posts'), LastFlow(i)'
        PROVE  i \in 1..Len(posts) /\ LastFlow(i) /\ posts[i] = posts'[i]
    <2>1. i # Len(posts) + 1
      BY <1>1, <1>2, <1>3 DEF LastFlow
    <2>2. i \in 1..Len(posts)
      BY <1>1, <2>1
    <2>3. \A j \in 1..Len(posts) : j \in 1..Len(posts')
      BY <1>1
    <2>. QED  BY <1>1, <1>3, <2>2, <2>3 DEF LastFlow
  <1>4. \A i \in 1..Len(posts) : i \in 1..Len(posts')
    BY <1>1
  <1>. QED  BY <1>1, <1>3, <1>4, Zenon DEF PostsCalm

\* What taking the first post leaves of those about reading.
LEMMA PostsLeft ==
    ASSUME Types, NEW p, RunPost(p)
    PROVE  /\ p \notin FlowOps => PostsCalm
           /\ \A i \in 1..Len(posts') : LastFlow(i)' =>
                  \E j \in 1..Len(posts) : LastFlow(j) /\ posts[j] = posts'[i]
           /\ 1 \in 1..Len(posts) /\ posts[1] = p
           /\ p \in FlowOps /\ (\A i \in 1..Len(posts') : posts'[i] \notin FlowOps) => LastFlow(1)
  <1>1. /\ Len(posts) \in Nat /\ Len(posts') = Len(posts) - 1
        /\ 1 \in 1..Len(posts) /\ posts[1] = p
        /\ \A i \in 1..Len(posts') : posts'[i] = posts[i + 1]
    BY DEF Types, RunPost
  <1>2. \A j \in 1..Len(posts) : j > 1 => j - 1 \in 1..Len(posts') /\ posts'[j - 1] = posts[j]
    BY <1>1
  <1>3. ASSUME NEW i \in 1..Len(posts'), LastFlow(i)'
        PROVE  \E j \in 1..Len(posts) : LastFlow(j) /\ posts[j] = posts'[i]
    <2>1. i + 1 \in 1..Len(posts) /\ posts[i + 1] = posts'[i] /\ posts'[i] \in FlowOps
      BY <1>1, <1>3 DEF LastFlow
    <2>2. ASSUME NEW j \in 1..Len(posts), j > i + 1
          PROVE  posts[j] \notin FlowOps
      <3>1. j > 1 /\ j - 1 > i
        BY <2>2
      <3>2. j - 1 \in 1..Len(posts') /\ posts'[j - 1] = posts[j]
        BY <1>2, <3>1
      <3>. QED  BY <1>3, <3>1, <3>2 DEF LastFlow
    <2>. QED  BY <2>1, <2>2 DEF LastFlow
  <1>4. ASSUME \A i \in 1..Len(posts') : posts'[i] \notin FlowOps
        PROVE  \A j \in 1..Len(posts) : j > 1 => posts[j] \notin FlowOps
    BY <1>2, <1>4
  <1>5. p \in FlowOps /\ (\A i \in 1..Len(posts') : posts'[i] \notin FlowOps) => LastFlow(1)
    BY <1>1, <1>4 DEF LastFlow
  <1>6. p \notin FlowOps => PostsCalm
    <2>1. \A j \in 1..Len(posts) : j > 1 \/ j = 1
      BY <1>1
    <2>. QED  BY <1>1, <1>3, <1>4, <2>1, Zenon DEF PostsCalm
  <1>. QED  BY <1>1, <1>3, <1>5, <1>6, Zenon

\* A calm step leaves the agreement.
LEMMA CalmPreserves ==
    ASSUME FlowAgrees, FlowCalm
    PROVE  FlowAgrees'
  <1>1. \A u \in Users : /\ InFlow(u)' => InFlow(u) /\ user'[u] = user[u]
                         /\ InFlow(u) => InFlow(u)'
    BY DEF FlowCalm, InFlow
  <1>2. paused' \in BOOLEAN /\ paused' = paused
    BY DEF FlowCalm, FlowAgrees
  <1>3. \A u \in Users : InFlow(u)' => u \in Pausers /\ paused' = (user'[u].op = "pause")
    BY <1>1, <1>2 DEF FlowAgrees
  <1>4. (\A u \in Users : ~InFlow(u)') =>
            \A i \in 1..Len(posts') : LastFlow(i)' => paused' = (posts'[i] = "pause")
    <2>. SUFFICES ASSUME \A u \in Users : ~InFlow(u)', NEW i \in 1..Len(posts'), LastFlow(i)'
                  PROVE  paused' = (posts'[i] = "pause")
      OBVIOUS
    <2>1. PICK j \in 1..Len(posts) : LastFlow(j) /\ posts[j] = posts'[i]
      BY Zenon DEF FlowCalm, PostsCalm
    <2>2. paused = (posts[j] = "pause")
      BY <1>1, <2>1, Zenon DEF FlowAgrees
    <2>. QED  BY <1>2, <2>1, <2>2
  <1>5. NoFlow' => NoFlow
    BY <1>1, Zenon DEF NoFlow, FlowCalm, PostsCalm
  <1>6. NoFlow' /\ ~closed' => InterestAgrees'
    BY <1>5 DEF FlowAgrees, FlowCalm
  <1>7. ~registered' => interest' = {}
    BY DEF FlowCalm
  <1>. QED  BY <1>2, <1>3, <1>4, <1>6, <1>7, Zenon DEF FlowAgrees

\* A call that sends or closes.
LEMMA CallIsCalm ==
    ASSUME Types, DataTypes, FlowAgrees, NEW u \in Users, NEW c,
           user' = [user EXCEPT ![u] = c], c.op \notin FlowOps, ~InFlow(u),
           UNCHANGED <<paused, ioVars>>, PostsCalm
    PROVE  FlowAgrees'
  <1>1. \A v \in Users : user'[v] = user[v] \/ (~InFlow(v) /\ ~InFlow(v)')
    BY DEF DataTypes, InFlow
  <1>2. FlowCalm
    BY <1>1, Zenon DEF FlowCalm, FlowAgrees, ioVars, InterestAgrees
  <1>. QED  BY <1>2, CalmPreserves

\* The store to paused_.
LEMMA FlowBeginPreserves ==
    ASSUME DataTypes, FlowAgrees, \A p, q \in Pausers : p = q,
           NEW u \in Users \cap Pausers, NEW op \in FlowOps, FlowBegin(u, op)
    PROVE  FlowAgrees'
  <1>1. /\ user[u] = Idle /\ user' = [user EXCEPT ![u] = Call(op, 0)] /\ paused' = (op = "pause")
        /\ UNCHANGED <<posts, ioVars>>
    BY DEF FlowBegin, BeginCall
  <1>2. user'[u].op = op /\ InFlow(u)'
    BY <1>1 DEF DataTypes, Call, InFlow
  <1>3. \A v \in Users : v # u => user'[v] = user[v]
    BY <1>1, SMTT(60) DEF DataTypes
  <1>4. \A v \in Users : InFlow(v)' => v = u
    BY <1>3, SMTT(60) DEF FlowAgrees, InFlow
  <1>5. ~NoFlow'
    BY <1>2 DEF NoFlow
  <1>6. ~registered' => interest' = {}
    BY <1>1 DEF FlowAgrees, ioVars
  <1>7. paused' \in BOOLEAN
    BY <1>1, Zenon
  <1>8. \A v \in Users : InFlow(v)' => v \in Pausers /\ paused' = (user'[v].op = "pause")
    BY <1>1, <1>2, <1>4, Zenon
  <1>. QED  BY <1>2, <1>5, <1>6, <1>7, <1>8, Zenon DEF FlowAgrees

\* The post that goes with it is the last one about reading.
LEMMA FlowPostPreserves ==
    ASSUME Types, DataTypes, FlowAgrees, \A p, q \in Pausers : p = q,
           NEW u \in Users, FlowPost(u)
    PROVE  FlowAgrees'
  <1>1. /\ user[u].op \in FlowOps /\ user' = [user EXCEPT ![u] = Idle]
        /\ posts' = Append(posts, user[u].op)
        /\ UNCHANGED <<paused, ioVars>>
    BY DEF FlowPost, FlowOps
  <1>2. u \in Pausers /\ paused = (user[u].op = "pause")
    BY <1>1, Zenon DEF FlowAgrees, InFlow
  <1>3. user'[u].op = "idle" /\ \A v \in Users : v # u => user'[v] = user[v]
    BY <1>1, SMTT(60) DEF DataTypes, Idle, Call
  <1>4. \A v \in Users : ~InFlow(v)'
    BY <1>2, <1>3, SMTT(60) DEF FlowAgrees, InFlow, FlowOps
  <1>5. /\ Len(posts) \in Nat /\ Len(posts') = Len(posts) + 1
        /\ posts'[Len(posts) + 1] = user[u].op
    BY <1>1 DEF Types
  <1>6. \A i \in 1..Len(posts') : LastFlow(i)' => i = Len(posts) + 1
    BY <1>1, <1>5 DEF LastFlow
  <1>7. \A i \in 1..Len(posts') : LastFlow(i)' => paused' = (posts'[i] = "pause")
    BY <1>1, <1>2, <1>5, <1>6, Zenon
  <1>8. ~NoFlow'
    <2>1. Len(posts) + 1 \in 1..Len(posts')
      BY <1>5
    <2>. QED  BY <1>1, <1>5, <2>1, SMTT(60) DEF NoFlow
  <1>9. (~registered' => interest' = {}) /\ paused' \in BOOLEAN
    BY <1>1 DEF FlowAgrees, ioVars
  <1>. QED  BY <1>4, <1>7, <1>8, <1>9, Zenon DEF FlowAgrees

\* A post about reading sets the interest as the call asked that posted it.
LEMMA FlowRunPreserves ==
    ASSUME Types, FlowAgrees, RunPause \/ RunResume
    PROVE  FlowAgrees'
  <1>1. PICK p \in FlowOps : /\ RunPost(p)
                             /\ p = "pause" => RunPause
                             /\ p = "resume" => RunResume
    BY SMTT(60) DEF RunPause, RunResume, FlowOps
  <1>2. UNCHANGED <<user, paused, closed, registered>>
    BY DEF RunPause, RunResume, RunPost, apiVars
  <1>3. /\ \A i \in 1..Len(posts') : LastFlow(i)' =>
               \E j \in 1..Len(posts) : LastFlow(j) /\ posts[j] = posts'[i]
        /\ 1 \in 1..Len(posts) /\ posts[1] = p
        /\ (\A i \in 1..Len(posts') : posts'[i] \notin FlowOps) => LastFlow(1)
    BY <1>1, PostsLeft, Zenon
  <1>4. \A u \in Users : InFlow(u)' <=> InFlow(u)
    BY <1>2, SMTT(60) DEF InFlow
  <1>5. paused' \in BOOLEAN
        /\ \A u \in Users : InFlow(u)' => u \in Pausers /\ paused' = (user'[u].op = "pause")
    BY <1>2, <1>4 DEF FlowAgrees
  <1>6. (\A u \in Users : ~InFlow(u)') =>
            \A i \in 1..Len(posts') : LastFlow(i)' => paused' = (posts'[i] = "pause")
    <2>. SUFFICES ASSUME \A u \in Users : ~InFlow(u)', NEW i \in 1..Len(posts'), LastFlow(i)'
                  PROVE  paused' = (posts'[i] = "pause")
      OBVIOUS
    <2>1. PICK j \in 1..Len(posts) : LastFlow(j) /\ posts[j] = posts'[i]
      BY <1>3, Zenon
    <2>2. paused = (posts[j] = "pause")
      BY <1>4, <2>1, Zenon DEF FlowAgrees
    <2>. QED  BY <1>2, <2>1, <2>2
  <1>7. ~registered' => interest' = {}
    BY <1>2 DEF FlowAgrees, RunPause, RunResume, Modify
  <1>8. ASSUME NoFlow'
        PROVE  InterestAgrees'
    <2>1. paused = (p = "pause")
      BY <1>3, <1>4, <1>8, Zenon DEF NoFlow, FlowAgrees
    <2>2. CASE p = "pause"
      <3>1. interest' = (IF registered THEN WantsWrite ELSE interest)
        BY <1>1, <2>2, Zenon DEF RunPause, Modify
      <3>2. paused'
        BY <1>2, <2>1, <2>2, ZenonT(60)
      <3>. QED  BY <3>1, <3>2 DEF InterestAgrees, WantsWrite, FlowAgrees
    <2>3. CASE p = "resume"
      <3>1. /\ interest' = (IF registered THEN {"readable"} \cup WantsWrite ELSE interest)
            /\ ~paused'
        BY <1>1, <1>2, <2>1, <2>3, ZenonT(60) DEF RunResume, Modify
      <3>. QED  BY <1>2, <3>1 DEF InterestAgrees
    <2>. QED  BY <1>1, <2>2, <2>3 DEF FlowOps
  <1>. QED  BY <1>5, <1>6, <1>7, <1>8, Zenon DEF FlowAgrees

\* A step of the loop that runs no post about reading.
LEMMA LoopIsCalm ==
    ASSUME FlowAgrees, PostsCalm, UNCHANGED <<user, paused>>, closed => closed',
           \/ UNCHANGED <<registered, interest, reopened>>
           \/ closed' /\ interest' = {}
           \/ registered' /\ "readable" \in interest' /\ reopened'
    PROVE  FlowAgrees'
  <1>1. \A v \in Users : user'[v] = user[v]
    OBVIOUS
  <1>2. FlowCalm
    BY <1>1, SMTT(60) DEF FlowCalm, FlowAgrees, InterestAgrees
  <1>. QED  BY <1>2, CalmPreserves

\* Where one thread pauses and resumes, paused_ and the interest agree for good.
LEMMA FlowPreserved ==
    ASSUME \A p, q \in Pausers : p = q, FlowAgrees, IInv, DataTypes, [Next]_vars
    PROVE  FlowAgrees'
  <1>. USE DEF IInv
  <1>1. CASE RunPosts
    <2>1. ASSUME NEW p \in {"start_reading", "register_writable", "close"}, RunPost(p)
          PROVE  PostsCalm /\ UNCHANGED <<user, paused>>
      <3>1. p \notin FlowOps
        BY DEF FlowOps
      <3>. QED  BY <2>1, <3>1, PostsLeft DEF RunPost, apiVars
    <2>2. CASE RunStartReading
      BY <2>1, <2>2, LoopIsCalm, ZenonT(60) DEF RunStartReading
    <2>3. CASE RunRegisterWritable
      <3>1. PostsCalm /\ UNCHANGED <<user, paused, closed, registered>>
        BY <2>1, <2>3, SMTT(60) DEF RunRegisterWritable
      <3>2. /\ reopened'
            /\ registered => "readable" \in interest'
            /\ ~registered => interest' = {}
        BY <2>3 DEF RunRegisterWritable, Modify, FlowAgrees
      <3>3. FlowCalm
        BY <3>1, <3>2 DEF FlowCalm, InterestAgrees
      <3>. QED  BY <3>3, CalmPreserves
    <2>4. CASE RunClose
      BY <2>1, <2>4, LoopIsCalm DEF RunClose, InitiateClose
    <2>. QED  BY <1>1, <2>2, <2>3, <2>4, FlowRunPreserves, SMTT(60) DEF RunPosts
  <1>2. CASE IoClose \/ SendFails
    <2>1. posts' = posts /\ UNCHANGED <<user, paused>> /\ closed' /\ interest' = {}
      BY <1>2 DEF IoClose, SendFails, Draining, InitiateClose, apiVars
    <2>. QED  BY <2>1, PostsSame, LoopIsCalm
  <1>3. CASE IoReadable \/ IoWritable \/ DrainPop \/ Sends \/ SendWouldBlock \/ UNCHANGED vars
    <2>1. posts' = posts /\ UNCHANGED <<user, paused, closed, registered, interest, reopened>>
      BY <1>3, ZenonT(60) DEF IoReadable, IoWritable, DrainPop, Sends, SendSome, SendWouldBlock,
         Draining, apiVars, ioVars, vars
    <2>. QED  BY <2>1, PostsSame, LoopIsCalm
  <1>4. CASE DrainEmpty
    <2>1. posts' = posts /\ UNCHANGED <<user, paused, closed, registered>> /\ registered
          /\ interest' = {"readable"} /\ reopened'
      BY <1>4 DEF DrainEmpty, Draining, Modify, DrainIsWritable, apiVars
    <2>. QED  BY <2>1, PostsSame, LoopIsCalm
  <1>5. CASE PoolStep \/ \E h \in {"data", "close"} : SetHandler(h)
    <2>1. UNCHANGED <<user, paused, closed, registered, interest, reopened>>
      BY <1>5, ZenonT(60) DEF PoolStep, BeginOnConnect, EndOnConnect, CallbackBegins,
         CallbackEnds, SetHandler, apiVars, ioVars
    <2>2. posts' = posts \/ posts' = Append(posts, "start_reading")
      BY <1>5, ZenonT(60) DEF PoolStep, BeginOnConnect, EndOnConnect, CallbackBegins,
         CallbackEnds, SetHandler
    <2>. QED  BY <2>1, <2>2, PostsSame, PostsAdded, LoopIsCalm
  <1>6. ASSUME NEW u \in Users, UserBegins(u) \/ UserEnds(u)
        PROVE  FlowAgrees'
    <2>1. CASE \E n \in Sizes : SendBegin(u, n)
      <3>1. PICK n \in Sizes : SendBegin(u, n)
        BY <2>1
      <3>2. user[u] = Idle /\ user' = [user EXCEPT ![u] = Call("send", n)] /\ posts' = posts
            /\ UNCHANGED <<paused, ioVars>>
        BY <3>1, SMTT(60) DEF SendBegin, BeginCall
      <3>3. ~InFlow(u) /\ Call("send", n).op \notin FlowOps
        BY <3>2 DEF InFlow, Idle, Call, FlowOps
      <3>. QED  BY <3>2, <3>3, PostsSame, CallIsCalm, ZenonT(60)
    <2>2. CASE CloseFromUser(u)
      <3>1. user[u] = Idle /\ user' = [user EXCEPT ![u] = Idle] /\ posts' = Append(posts, "close")
            /\ UNCHANGED <<paused, ioVars>>
        BY <2>2 DEF CloseFromUser, BeginCall
      <3>2. ~InFlow(u) /\ Idle.op \notin FlowOps
        BY <3>1 DEF InFlow, Idle, Call, FlowOps
      <3>. QED  BY <3>1, <3>2, PostsAdded, CallIsCalm, ZenonT(60)
    <2>3. CASE SendEnqueue(u) \/ SendRejected(u)
      <3>1. /\ user[u].op = "send" /\ user' = [user EXCEPT ![u] = Idle]
            /\ posts' = posts \/ posts' = Append(posts, "register_writable")
            /\ UNCHANGED <<paused, ioVars>>
        BY <2>3 DEF SendEnqueue, SendRejected
      <3>2. ~InFlow(u) /\ Idle.op \notin FlowOps
        BY <3>1 DEF InFlow, Idle, Call, FlowOps
      <3>. QED  BY <3>1, <3>2, PostsSame, PostsAdded, CallIsCalm, ZenonT(60)
    <2>4. CASE u \in Pausers /\ \E op \in {"pause", "resume"} : FlowBegin(u, op)
      BY <2>4, FlowBeginPreserves DEF FlowOps
    <2>. QED  BY <1>6, <2>1, <2>2, <2>3, <2>4, FlowPostPreserves DEF UserBegins, UserEnds
  <1>. QED  BY <1>1, <1>2, <1>3, <1>4, <1>5, <1>6, ZenonT(60) DEF Next

-----------------------------------------------------------------------------
(* Theorems *)

\* Every reachable state of a connection satisfies the inductive invariant.
THEOREM Invariance == Spec => [](IInv /\ DataTypes)
  <1>1. Init => IInv /\ DataTypes
    <2>1. Init => DataTypes
      <3>1. \A S : <<>> \in Seq(S)
        OBVIOUS
      <3>2. Idle \in [op : Ops, size : Nat]
        BY DEF Idle, Call, Ops
      <3>. QED  BY <3>1, <3>2 DEF Init, DataTypes
    <2>. QED  BY <2>1, InitEstablishes, SMTT(60)
  <1>2. IInv /\ DataTypes /\ [Next]_vars => IInv' /\ DataTypes'
    <2>. SUFFICES ASSUME IInv, DataTypes, [Next]_vars PROVE IInv'
      BY DataTypesPreserved
    <2>1. CASE PoolStep
      <3>1. CASE EndOnConnect
        BY <3>1, PostPreserves DEF EndOnConnect, callbackVars
      <3>2. CASE BeginOnConnect \/ CallbackBegins \/ CallbackEnds
        <4>1. Aside
          BY <3>2 DEF BeginOnConnect, CallbackBegins, CallbackEnds, Aside, callbackVars
        <4>. QED  BY <4>1, AsidePreserves
      <3>. QED  BY <2>1, <3>1, <3>2, SMTT(60) DEF PoolStep
    <2>2. ASSUME NEW u \in Users, UserBegins(u) \/ UserEnds(u)
          PROVE  IInv'
      <3>1. CASE CloseFromUser(u)
        BY <3>1, PostPreserves DEF CloseFromUser, callbackVars
      <3>2. CASE FlowPost(u)
        BY <3>2, PostPreserves DEF FlowPost, callbackVars
      <3>3. CASE SendEnqueue(u)
        BY <3>3, SendEnqueuePreserves
      <3>4. CASE \/ SendRejected(u) \/ \E n \in Sizes : SendBegin(u, n)
                 \/ \E op \in {"pause", "resume"} : FlowBegin(u, op)
        <4>1. Aside
          BY <3>4, SMTT(60) DEF SendRejected, SendBegin, FlowBegin, Aside, callbackVars
        <4>. QED  BY <4>1, AsidePreserves, SMTT(60)
      <3>. QED  BY <2>2, <3>1, <3>2, <3>3, <3>4, SMTT(60) DEF UserBegins, UserEnds
    <2>3. CASE (\E h \in {"data", "close"} : SetHandler(h)) \/ UNCHANGED vars
      <3>1. Aside
        BY <2>3 DEF SetHandler, vars, Aside, callbackVars
      <3>. QED  BY <3>1, AsidePreserves
    <2>. QED  BY <2>1, <2>2, <2>3, RunPostsPreserves, IoPreserves, DrainPreserves, SMTT(60)
              DEF Next, Sends
  <1>. QED  BY <1>1, <1>2, PTL DEF Spec

\* Between two handlers of the loop, queued data has its writable interest,
\* or a post that asks for it, whatever the users and the socket do.
THEOREM WriteInterestKept == Spec => []NoLostWriteInterest
  <1>1. IInv => NoLostWriteInterest
    BY SMTT(60) DEF IInv
  <1>. QED  BY <1>1, Invariance, PTL

\* on_close is submitted at most once, and no on_data after it.
THEOREM CloseComesLast == Spec => []CloseIsLast
  <1>1. IInv => CloseIsLast
    BY DEF IInv
  <1>. QED  BY <1>1, Invariance, PTL

\* The bytes on the wire, in the chunk and in the queue are those that send()
\* accepted, in order, whatever the users, the loop and the socket do.
THEOREM StreamStaysIntact == Spec => []StreamIntact
  <1>1. Init => Streams
    <2>. SUFFICES ASSUME Init PROVE Streams
      OBVIOUS
    <2>1. Bytes(<<>>) = <<>>
      BY BytesEmpty
    <2>2. [i \in 1..0 |-> i] = <<>>
      OBVIOUS
    <2>3. <<>> \o <<>> \o <<>> = <<>>
      OBVIOUS
    <2>. QED  BY <2>1, <2>2, <2>3 DEF Init, Streams, StreamIntact
  <1>2. Streams /\ IInv /\ DataTypes /\ [Next]_vars => Streams'
    BY StreamsPreserved
  <1>3. Streams => StreamIntact
    BY DEF Streams
  <1>. QED  BY <1>1, <1>2, <1>3, Invariance, PTL DEF Spec

\* With one thread that pauses and resumes, a connection on which all is
\* carried out reads exactly when it is not paused.
THEOREM ReadingFollows ==
    ASSUME \A p, q \in Pausers : p = q
    PROVE  Spec => []ReadingFollowsPause
  <1>1. Init => FlowAgrees
    <2>. SUFFICES ASSUME Init PROVE FlowAgrees
      OBVIOUS
    <2>1. \A u \in Users : ~InFlow(u)
      BY ZenonT(60) DEF Init, InFlow, Idle, Call, FlowOps
    <2>2. /\ paused = FALSE /\ registered = FALSE /\ interest = {}
          /\ \A i \in 1..Len(posts) : FALSE
      BY DEF Init
    <2>. QED  BY <2>1, <2>2, Zenon DEF FlowAgrees, InterestAgrees
  <1>2. FlowAgrees /\ IInv /\ DataTypes /\ [Next]_vars => FlowAgrees'
    BY FlowPreserved
  <1>3. FlowAgrees /\ IInv => ReadingFollowsPause
    <2>. SUFFICES ASSUME FlowAgrees, IInv, Settled, ~closed
                  PROVE  /\ ~paused => registered /\ "readable" \in interest
                         /\ paused /\ ~reopened => "readable" \notin interest
      BY SMTT(60) DEF ReadingFollowsPause
    <2>1. NoFlow
      BY DEF Settled, NoFlow, InFlow, Idle, Call, FlowOps
    <2>2. registered
      BY DEF Settled, IInv, InDispatcher, Pending
    <2>. QED  BY <2>1, <2>2 DEF FlowAgrees, InterestAgrees
  <1>. QED  BY <1>1, <1>2, <1>3, Invariance, PTL DEF Spec
=============================================================================
