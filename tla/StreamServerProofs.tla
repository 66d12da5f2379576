------------------------- MODULE StreamServerProofs -------------------------
(***************************************************************************)
(* For any finite set of connections, any descriptors, callers and limit:  *)
(* the connection count covers what is open and settles to it, the map     *)
(* settles to it, and every close that had a handler is reported before    *)
(* the stream is gone.                                                     *)
(*                                                                         *)
(* BooksSettle and CloseReported speak of moments when nothing is under    *)
(* way, so neither is inductive.  The invariant says at every moment where *)
(* a connection that is counted is on its way out of the count: it is      *)
(* open, or its on_close waits for the pool, or its erasure waits for the  *)
(* loop, or it closed without the wrapper and stays.  The count is the sum *)
(* of these four, and an entry of the map is accounted for in the same     *)
(* way.                                                                    *)
(***************************************************************************)
EXTENDS StreamServer, FiniteSetTheorems, SequenceTheorems, TLAPS

PostOps == {"accept_loop", "stop_listening", "start_reading", "close", "erase"}
PostType == [op : PostOps, arg : SUBSET (Conns \cup Fds)]

ListenTypes ==
    /\ {listener, accepting, listenPaused} \subseteq BOOLEAN
    /\ armed \in {"no", "handler", "empty"}
    /\ call \in [Callers -> {"none", "arm", "pause", "resume", "done"}]

ConnTypes ==
    /\ fd \in [Conns -> SUBSET Fds]
    /\ sock \in [Conns -> {"none", "open", "closed"}]
    /\ registered \subseteq Conns
    /\ task \in [Conns -> {"none", "queued", "running", "done"}]
    /\ handler \in [Conns -> {"none", "user", "wrapped"}]
    /\ onClose \in [Conns -> {"none", "submitted", "running", "done"}]
    /\ early \subseteq Conns
    /\ unerased \subseteq Conns

TypeOK ==
    /\ ListenTypes
    /\ ConnTypes
    /\ map \in [Fds -> Conns \cup {NoConn}]
    /\ count \in Int
    /\ posts \in Seq(PostType)
    /\ owner \in {"live", "stopping", "joined", "shutdown", "destroyed"}

\* The post is among those on their way to the loop.
Posted(ps, op, arg) == \E i \in 1..Len(ps) : ps[i] = Post(op, arg)

\* What a connection's history leaves out: nothing happens to one before it is
\* accepted, and nothing is reported or erased before it is closed.
Lives ==
    \A c \in Conns :
        /\ sock[c] = "none" => fd[c] = {}
        /\ sock[c] # "closed" => onClose[c] = "none" /\ c \notin early \cup unerased
        /\ sock[c] = "closed" /\ fd[c] # {} /\ c \notin early => onClose[c] # "none"
        /\ onClose[c] = "submitted" => c \notin unerased

\* The closed connections whose on_close waits for the pool.
Submitted == {c \in Conns : onClose[c] = "submitted"}

\* The erasures that wait for the loop.
Erasures(ps) == {i \in 1..Len(ps) : ps[i].op = "erase"}

\* connection_count counts what is open, what is on its way out and what stays.
Books ==
    LoopRuns => count = Cardinality(Open) + Cardinality(unerased) + Cardinality(Submitted)
                            + Cardinality(Erasures(posts))

\* A connection of the map is there under its descriptor, and is open, stays,
\* or is on its way out.
Indexed ==
    \A f \in Fds : map[f] # NoConn =>
        /\ fd[map[f]] = {f}
        /\ sock[map[f]] # "none"
        /\ map[f] \in Open \cup unerased \cup Submitted \/ Posted(posts, "erase", {f})

\* The pool has drained when the stream is gone.
Drained == owner = "destroyed" => CallbacksDone

\* The inductive invariant.
IInv == TypeOK /\ Lives /\ Books /\ Indexed /\ Drained

-----------------------------------------------------------------------------
(* The posts and the counts *)

\* What is counted is finite.
LEMMA Finite ==
    /\ \A S \in SUBSET Conns : IsFiniteSet(S) /\ Cardinality(S) \in Nat
    /\ \A ps \in Seq(PostType) : IsFiniteSet(Erasures(ps)) /\ Cardinality(Erasures(ps)) \in Nat
  <1>1. ASSUME NEW S \in SUBSET Conns
        PROVE  IsFiniteSet(S) /\ Cardinality(S) \in Nat
    BY FS_Subset, FS_CardinalityType, ServerAssumption
  <1>2. ASSUME NEW ps \in Seq(PostType)
        PROVE  IsFiniteSet(Erasures(ps)) /\ Cardinality(Erasures(ps)) \in Nat
    <2>1. Len(ps) \in Nat /\ 1 \in Int
      OBVIOUS
    <2>2. IsFiniteSet(1..Len(ps))
      BY <2>1, FS_Interval
    <2>3. Erasures(ps) \in SUBSET (1..Len(ps))
      BY DEF Erasures
    <2>. QED  BY <2>2, <2>3, FS_Subset, FS_CardinalityType
  <1>. QED  BY <1>1, <1>2

\* A post appended to the others is on its way with them.
LEMMA PostAppended ==
    ASSUME NEW ps \in Seq(PostType), NEW op \in PostOps, NEW arg \in SUBSET (Conns \cup Fds)
    PROVE  LET qs == Append(ps, Post(op, arg)) IN
           /\ qs \in Seq(PostType)
           /\ \A o, a : Posted(ps, o, a) => Posted(qs, o, a)
           /\ Posted(qs, op, arg)
           /\ op # "erase" => Erasures(qs) = Erasures(ps)
           /\ op = "erase" => Cardinality(Erasures(qs)) = Cardinality(Erasures(ps)) + 1
  <1>. DEFINE qs == Append(ps, Post(op, arg))
  <1>1. Post(op, arg) \in PostType /\ Post(op, arg).op = op
    BY DEF Post, PostType
  <1>2. /\ qs \in Seq(PostType) /\ Len(ps) \in Nat /\ Len(qs) = Len(ps) + 1
        /\ qs[Len(ps) + 1] = Post(op, arg)
        /\ \A i \in 1..Len(ps) : qs[i] = ps[i]
    BY <1>1
  <1>. HIDE DEF qs
  <1>3. \A i \in 1..Len(ps) : i \in 1..Len(qs)
    BY <1>2
  <1>4. \A o, a : Posted(ps, o, a) => Posted(qs, o, a)
    BY <1>2, <1>3 DEF Posted
  <1>5. Posted(qs, op, arg)
    BY <1>2 DEF Posted
  <1>6. op # "erase" => Erasures(qs) = Erasures(ps)
    BY <1>1, <1>2 DEF Erasures
  <1>7. ASSUME op = "erase"
        PROVE  Cardinality(Erasures(qs)) = Cardinality(Erasures(ps)) + 1
    <2>1. Erasures(qs) = Erasures(ps) \cup {Len(ps) + 1}
      BY <1>1, <1>2, <1>7 DEF Erasures
    <2>2. Len(ps) + 1 \notin Erasures(ps)
      BY <1>2 DEF Erasures
    <2>. QED  BY <2>1, <2>2, Finite, FS_AddElement
  <1>. QED  BY <1>2, <1>4, <1>5, <1>6, <1>7 DEF qs

\* A post executed leaves the others on their way.
LEMMA PostExecuted ==
    ASSUME NEW ps \in Seq(PostType), ps # <<>>, NEW op, NEW arg, Head(ps) = Post(op, arg)
    PROVE  LET qs == Tail(ps) IN
           /\ qs \in Seq(PostType)
           /\ \A o, a : Posted(ps, o, a) /\ <<o, a>> # <<op, arg>> => Posted(qs, o, a)
           /\ Cardinality(Erasures(qs)) = Cardinality(Erasures(ps))
                                              - (IF op = "erase" THEN 1 ELSE 0)
  <1>. DEFINE qs == Tail(ps)
  <1>1. /\ qs \in Seq(PostType) /\ Len(ps) \in Nat \ {0} /\ Len(qs) = Len(ps) - 1
        /\ ps[1] = Post(op, arg)
        /\ \A i \in 1..Len(qs) : qs[i] = ps[i + 1]
    OBVIOUS
  <1>. HIDE DEF qs
  <1>2. Post(op, arg).op = op
    BY DEF Post
  <1>3. ASSUME NEW o, NEW a, Posted(ps, o, a), <<o, a>> # <<op, arg>>
        PROVE  Posted(qs, o, a)
    <2>1. PICK i \in 1..Len(ps) : ps[i] = Post(o, a)
      BY <1>3 DEF Posted
    <2>2. i # 1
      BY <2>1, <1>1, <1>3 DEF Post
    <2>3. i - 1 \in 1..Len(qs) /\ qs[i - 1] = ps[i]
      BY <2>2, <1>1
    <2>. QED  BY <2>1, <2>3 DEF Posted
  <1>4. Cardinality(Erasures(qs)) = Cardinality(Erasures(ps)) - (IF op = "erase" THEN 1 ELSE 0)
    <2>. DEFINE rest == Erasures(ps) \ {1}
                g == [i \in rest |-> i - 1]
    <2>1. IsFiniteSet(rest) /\ Cardinality(rest) =
              IF 1 \in Erasures(ps) THEN Cardinality(Erasures(ps)) - 1
                                    ELSE Cardinality(Erasures(ps))
      BY Finite, FS_RemoveElement
    <2>2. 1 \in Erasures(ps) <=> op = "erase"
      BY <1>1, <1>2 DEF Erasures
    <2>3. \A i \in rest : i \in Int /\ i - 1 \in Erasures(qs)
      BY <1>1 DEF Erasures
    <2>4. g \in [rest -> Erasures(qs)]
      BY <2>3
    <2>5. \A i, j \in rest : g[i] = g[j] => i = j
      BY <2>3
    <2>6. \A k \in Erasures(qs) : k + 1 \in rest /\ g[k + 1] = k
      BY <1>1 DEF Erasures
    <2>. HIDE DEF g, rest
    <2>7. g \in Bijection(rest, Erasures(qs))
      BY <2>4, <2>5, <2>6 DEF Bijection, Injection, Surjection, IsInjective
    <2>8. Cardinality(Erasures(qs)) = Cardinality(rest)
      BY <2>1, <2>7, FS_Bijection DEF ExistsBijection
    <2>. QED  BY <2>1, <2>2, <2>8, Finite
  <1>. QED  BY <1>1, <1>3, <1>4 DEF qs

\* Counting a set that is split in two.
LEMMA CountUnion ==
    ASSUME NEW S, NEW T, IsFiniteSet(S), IsFiniteSet(T), S \cap T = {}
    PROVE  Cardinality(S \cup T) = Cardinality(S) + Cardinality(T)
  <1>1. Cardinality(S) \in Nat /\ Cardinality(T) \in Nat
    BY FS_CardinalityType
  <1>2. Cardinality(S \cap T) = 0
    BY FS_EmptySet
  <1>3. Cardinality(S \cup T) = Cardinality(S) + Cardinality(T) - Cardinality(S \cap T)
    BY FS_Union
  <1>. QED  BY <1>1, <1>2, <1>3

\* Counting what is left of a set.
LEMMA CountMinus ==
    ASSUME NEW S, NEW T \in SUBSET S, IsFiniteSet(S)
    PROVE  Cardinality(S \ T) = Cardinality(S) - Cardinality(T)
  <1>1. S \cap T = T
    OBVIOUS
  <1>. QED  BY <1>1, FS_Difference, ZenonT(60)

\* A counted connection that closes stays counted, once.
LEMMA ClosePreserves ==
    ASSUME TypeOK, Lives, NEW cs \in SUBSET Conns, Close(cs), UNCHANGED <<fd, task, handler>>
    PROVE  /\ ConnTypes' /\ Lives'
           /\ Open \cup unerased \cup Submitted \subseteq Open' \cup unerased' \cup Submitted'
           /\ \A c \in Conns : sock[c] # "none" => sock'[c] # "none"
           /\ Cardinality(Open') + Cardinality(unerased') + Cardinality(Submitted')
                = Cardinality(Open) + Cardinality(unerased) + Cardinality(Submitted)
  <1>. DEFINE closing == cs \cap Open
              reported == {c \in closing : handler[c] # "none"}
  <1>1. /\ sock' = [c \in Conns |-> IF c \in closing THEN "closed" ELSE sock[c]]
        /\ registered' = registered \ closing
        /\ onClose' = [c \in Conns |-> IF c \in reported THEN "submitted" ELSE onClose[c]]
        /\ early' = early \cup (closing \ reported)
        /\ unerased' = unerased \cup (closing \ reported)
    BY DEF Close
  <1>2. /\ closing \in SUBSET Open /\ reported \in SUBSET closing
        /\ Open \in SUBSET Conns /\ unerased \in SUBSET Conns /\ Submitted \in SUBSET Conns
    BY DEF Open, Submitted, TypeOK, ConnTypes
  <1>3. \A c \in closing : sock[c] = "open" /\ onClose[c] = "none" /\ c \notin early \cup unerased
    BY DEF Open, Lives
  <1>. HIDE DEF closing, reported
  <1>4. ConnTypes'
    BY <1>1, <1>2 DEF TypeOK, ConnTypes
  <1>5. Lives'
    BY <1>1, <1>2, <1>3 DEF Lives, TypeOK, ConnTypes
  <1>6. Open' = Open \ closing
    BY <1>1, <1>2 DEF Open
  <1>7. Submitted' = Submitted \cup reported
    BY <1>1, <1>2 DEF Submitted
  <1>8. \A c \in Conns : sock[c] # "none" => sock'[c] # "none"
    BY <1>1
  <1>9. /\ closing \cap Open = closing
        /\ closing \cap reported = reported
        /\ unerased \cap (closing \ reported) = {}
        /\ Submitted \cap reported = {}
    BY <1>2, <1>3 DEF Submitted
  <1>10. /\ IsFiniteSet(Open) /\ IsFiniteSet(closing) /\ IsFiniteSet(reported)
         /\ IsFiniteSet(unerased) /\ IsFiniteSet(Submitted) /\ IsFiniteSet(closing \ reported)
    <2>1. closing \in SUBSET Conns /\ reported \in SUBSET Conns
          /\ closing \ reported \in SUBSET Conns
      BY <1>2
    <2>. QED  BY <1>2, <2>1, Finite
  <1>11. Cardinality(Open') = Cardinality(Open) - Cardinality(closing)
    BY <1>2, <1>6, <1>10, CountMinus
  <1>12. Cardinality(closing \ reported) = Cardinality(closing) - Cardinality(reported)
    BY <1>2, <1>10, CountMinus
  <1>13. Cardinality(unerased') = Cardinality(unerased) + Cardinality(closing \ reported)
    BY <1>1, <1>9, <1>10, CountUnion
  <1>14. Cardinality(Submitted') = Cardinality(Submitted) + Cardinality(reported)
    BY <1>7, <1>9, <1>10, CountUnion
  <1>15. /\ Cardinality(Open) \in Nat /\ Cardinality(closing) \in Nat
         /\ Cardinality(reported) \in Nat /\ Cardinality(unerased) \in Nat
         /\ Cardinality(Submitted) \in Nat
    BY <1>10, FS_CardinalityType
  <1>16. Cardinality(Open') + Cardinality(unerased') + Cardinality(Submitted')
             = Cardinality(Open) + Cardinality(unerased) + Cardinality(Submitted)
    BY <1>11, <1>12, <1>13, <1>14, <1>15
  <1>17. Open \cup unerased \cup Submitted \subseteq Open' \cup unerased' \cup Submitted'
    BY <1>1, <1>6, <1>7
  <1>. QED  BY <1>4, <1>5, <1>8, <1>16, <1>17

\* The map's part is kept by a step that leaves the map alone, keeps every
\* connection in its account and loses no erasure.
LEMMA IndexedKept ==
    ASSUME TypeOK, Indexed, UNCHANGED <<map, fd>>,
           \A c \in Conns : sock[c] # "none" => sock'[c] # "none",
           \A f \in Fds : map[f] \in Open \cup unerased \cup Submitted
                => map[f] \in Open' \cup unerased' \cup Submitted' \/ Posted(posts', "erase", {f}),
           \A f \in Fds : Posted(posts, "erase", {f}) => Posted(posts', "erase", {f})
    PROVE  Indexed'
  BY SMTT(60) DEF Indexed, TypeOK

-----------------------------------------------------------------------------
(* One lemma per action *)

\* Nothing is accepted, posted or under way at first.
LEMMA InitEstablishes == Init => IInv
  <1>. SUFFICES ASSUME Init PROVE IInv
    OBVIOUS
  <1>1. TypeOK
    <2>1. <<>> \in Seq(PostType)
      OBVIOUS
    <2>2. ListenTypes /\ ConnTypes
      BY ZenonT(60) DEF Init, ListenTypes, ConnTypes
    <2>3. map \in [Fds -> Conns \cup {NoConn}] /\ count \in Int /\ owner = "live" /\ posts = <<>>
      BY DEF Init
    <2>. QED  BY <2>1, <2>2, <2>3 DEF TypeOK
  <1>2. Lives /\ Indexed /\ Drained
    BY ServerAssumption DEF Init, Lives, Indexed, Drained
  <1>3. Books
    <2>1. Open = {} /\ unerased = {} /\ Submitted = {} /\ Erasures(posts) = {}
      BY DEF Init, Open, Submitted, Erasures
    <2>2. count = 0 /\ Cardinality({}) = 0
      BY FS_EmptySet DEF Init
    <2>. QED  BY <2>1, <2>2 DEF Books
  <1>. QED  BY <1>1, <1>2, <1>3 DEF IInv

\* on_connect, pause() and resume() set a flag and are in their call.
LEMMA BeginPreserves ==
    ASSUME IInv, NEW t \in Callers, ArmListen(t) \/ DoPause(t) \/ DoResume(t)
    PROVE  IInv'
  <1>. USE DEF IInv
  <1>1. PICK op \in {"arm", "pause", "resume"} :
            /\ BeginCall(t, op)
            /\ \/ op = "arm" /\ armed' \in {"handler", "empty"} /\ UNCHANGED listenPaused
               \/ op = "pause" /\ listenPaused' = TRUE /\ UNCHANGED armed
               \/ op = "resume" /\ listenPaused' = FALSE /\ UNCHANGED armed
    BY DEF ArmListen, DoPause, DoResume
  <1>2. /\ call[t] = "none" /\ call' = [call EXCEPT ![t] = op]
        /\ UNCHANGED <<listener, accepting, mapVars, connVars, posts, owner>>
    BY <1>1 DEF BeginCall
  <1>. USE DEF mapVars, connVars
  <1>3. TypeOK'
    BY <1>1, <1>2, ZenonT(60) DEF TypeOK, ListenTypes, ConnTypes
  <1>5. Lives' /\ Drained'
    BY <1>2 DEF Lives, Drained, CallbacksDone
  <1>6. Books'
    BY <1>2 DEF Books, Open, Submitted, LoopRuns
  <1>7. Indexed'
    BY <1>2 DEF Indexed, Open, Submitted
  <1>. QED  BY <1>3, <1>5, <1>6, <1>7

\* The call hands its post to the loop.
LEMMA EndCallPreserves ==
    ASSUME IInv, NEW t \in Callers, EndCall(t)
    PROVE  IInv'
  <1>. USE DEF IInv
  <1>. DEFINE op == IF call[t] = "pause" THEN "stop_listening" ELSE "accept_loop"
  <1>1. /\ call[t] \in {"arm", "pause", "resume"}
        /\ call' = [call EXCEPT ![t] = "done"]
        /\ posts' = Append(posts, Post(op, {}))
        /\ UNCHANGED <<listener, accepting, listenPaused, armed, mapVars, connVars, owner>>
    BY DEF EndCall
  <1>2. op \in PostOps /\ op # "erase" /\ posts \in Seq(PostType)
    BY DEF PostOps, TypeOK
  <1>3. /\ posts' \in Seq(PostType)
        /\ \A o, a : Posted(posts, o, a) => Posted(posts', o, a)
        /\ Posted(posts', op, {})
        /\ Erasures(posts') = Erasures(posts)
    BY <1>1, <1>2, PostAppended, SMTT(60)
  <1>. USE DEF mapVars, connVars
  <1>4. TypeOK'
    BY <1>1, <1>3 DEF TypeOK, ListenTypes, ConnTypes
  <1>6. Lives' /\ Drained'
    BY <1>1 DEF Lives, Drained, CallbacksDone
  <1>7. Books'
    BY <1>1, <1>3 DEF Books, Open, Submitted, LoopRuns
  <1>8. Indexed'
    BY <1>1, <1>3, ZenonT(60) DEF Indexed, Open, Submitted
  <1>. QED  BY <1>4, <1>6, <1>7, <1>8

\* A refused connection has no descriptor and no account.
LEMMA AcceptRefusedPreserves ==
    ASSUME IInv, NEW c \in Conns, AcceptRefused(c)
    PROVE  IInv'
  <1>. USE DEF IInv
  <1>1. /\ sock[c] = "none" /\ sock' = [sock EXCEPT ![c] = "closed"]
        /\ UNCHANGED <<listenVars, mapVars, fd, registered, task, handler, onClose, early,
                       unerased, posts, owner>>
    BY DEF AcceptRefused
  <1>2. Open' = Open /\ Submitted' = Submitted
    BY <1>1 DEF Open, Submitted, TypeOK, ConnTypes
  <1>3. TypeOK'
    BY <1>1 DEF TypeOK, ListenTypes, ConnTypes, listenVars, mapVars
  <1>4. Lives' /\ Drained'
    BY <1>1 DEF Lives, Drained, CallbacksDone, TypeOK, ConnTypes
  <1>5. Books'
    BY <1>1, <1>2 DEF Books, LoopRuns, mapVars
  <1>6. Indexed'
    <2>1. \A d \in Conns : sock[d] # "none" => sock'[d] # "none"
      BY <1>1 DEF TypeOK, ConnTypes
    <2>. QED  BY <1>1, <1>2, <2>1, IndexedKept DEF mapVars
  <1>. QED  BY <1>3, <1>4, <1>5, <1>6

\* An accepted connection is open, mapped and counted.
LEMMA AcceptPreserves ==
    ASSUME IInv, NEW c \in Conns, NEW f \in Fds, Accept(c, f)
    PROVE  IInv'
  <1>. USE DEF IInv
  <1>1. /\ LoopRuns /\ sock[c] = "none"
        /\ sock' = [sock EXCEPT ![c] = "open"]
        /\ fd' = [fd EXCEPT ![c] = {f}]
        /\ map' = [map EXCEPT ![f] = c]
        /\ count' = count + 1
        /\ task' \in [Conns -> {"none", "queued", "running", "done"}]
        /\ handler' \in [Conns -> {"none", "user", "wrapped"}]
        /\ UNCHANGED <<listenVars, registered, onClose, early, unerased, owner>>
        /\ posts' = posts \/ posts' = Append(posts, Post("start_reading", {c}))
    BY ZenonT(60) DEF Accept, TypeOK, ConnTypes
  <1>2. /\ posts' \in Seq(PostType)
        /\ \A o, a : Posted(posts, o, a) => Posted(posts', o, a)
        /\ Erasures(posts') = Erasures(posts)
    <2>1. "start_reading" \in PostOps /\ {c} \in SUBSET (Conns \cup Fds) /\ posts \in Seq(PostType)
      BY DEF PostOps, TypeOK
    <2>2. CASE posts' = posts
      BY <2>1, <2>2
    <2>3. CASE posts' = Append(posts, Post("start_reading", {c}))
      BY <2>1, <2>3, PostAppended
    <2>. QED  BY <1>1, <2>2, <2>3
  <1>3. Open' = Open \cup {c} /\ c \notin Open /\ Submitted' = Submitted
    BY <1>1 DEF Open, Submitted, TypeOK, ConnTypes
  <1>4. TypeOK'
    BY <1>1, <1>2 DEF TypeOK, ListenTypes, ConnTypes, listenVars
  <1>5. Lives'
    BY <1>1 DEF Lives, TypeOK, ConnTypes
  <1>6. Drained'
    BY <1>1 DEF Drained, LoopRuns
  <1>7. Books'
    <2>1. Open \in SUBSET Conns /\ unerased \in SUBSET Conns /\ Submitted \in SUBSET Conns
      BY DEF Open, Submitted, TypeOK, ConnTypes
    <2>2. Cardinality(Open') = Cardinality(Open) + 1
      BY <1>3, <2>1, Finite, FS_AddElement
    <2>3. /\ Cardinality(Open) \in Nat /\ Cardinality(unerased) \in Nat
          /\ Cardinality(Submitted) \in Nat /\ Cardinality(Erasures(posts)) \in Nat
      BY <2>1, Finite DEF TypeOK
    <2>. QED  BY <1>1, <1>2, <1>3, <2>2, <2>3, SMTT(60) DEF Books, LoopRuns
  <1>8. Indexed'
    <2>. SUFFICES ASSUME NEW g \in Fds, map'[g] # NoConn
                  PROVE  /\ fd'[map'[g]] = {g}
                         /\ sock'[map'[g]] # "none"
                         /\ \/ map'[g] \in Open' \cup unerased' \cup Submitted'
                            \/ Posted(posts', "erase", {g})
      BY DEF Indexed
    <2>1. CASE g = f
      <3>1. map'[g] = c /\ fd'[c] = {f} /\ sock'[c] = "open"
        BY <1>1, <2>1 DEF TypeOK, ConnTypes
      <3>. QED  BY <1>3, <2>1, <3>1
    <2>2. CASE g # f
      <3>1. map'[g] = map[g] /\ map[g] \in Conns /\ map[g] # c
        BY <1>1, <2>2, ZenonT(60) DEF TypeOK, Indexed
      <3>2. fd'[map[g]] = fd[map[g]] /\ sock'[map[g]] = sock[map[g]]
        BY <1>1, <3>1, SMTT(60) DEF TypeOK, ConnTypes
      <3>3. /\ fd[map[g]] = {g} /\ sock[map[g]] # "none"
            /\ map[g] \in Open \cup unerased \cup Submitted \/ Posted(posts, "erase", {g})
        BY <3>1 DEF Indexed
      <3>. QED  BY <1>1, <1>2, <1>3, <3>1, <3>2, <3>3
    <2>. QED  BY <2>1, <2>2
  <1>. QED  BY <1>4, <1>5, <1>6, <1>7, <1>8

\* The on_connect task goes through the pool; start_reading is posted at its end.
LEMMA TaskPreserves ==
    ASSUME IInv, NEW c \in Conns, BeginOnConnect(c) \/ SetOnClose(c) \/ EndOnConnect(c)
    PROVE  IInv'
  <1>. USE DEF IInv
  <1>1. /\ owner # "destroyed"
        /\ task' \in [Conns -> {"none", "queued", "running", "done"}]
        /\ handler' \in [Conns -> {"none", "user", "wrapped"}]
        /\ UNCHANGED <<listenVars, mapVars, fd, sock, registered, onClose, early, unerased, owner>>
        /\ posts' = posts \/ posts' = Append(posts, Post("start_reading", {c}))
    BY DEF BeginOnConnect, SetOnClose, EndOnConnect, PoolRuns, TypeOK, ConnTypes, Drained,
           CallbacksDone
  <1>2. /\ posts' \in Seq(PostType)
        /\ \A o, a : Posted(posts, o, a) => Posted(posts', o, a)
        /\ Erasures(posts') = Erasures(posts)
    <2>1. "start_reading" \in PostOps /\ {c} \in SUBSET (Conns \cup Fds) /\ posts \in Seq(PostType)
      BY DEF PostOps, TypeOK
    <2>2. CASE posts' = posts
      BY <2>1, <2>2
    <2>3. CASE posts' = Append(posts, Post("start_reading", {c}))
      BY <2>1, <2>3, PostAppended
    <2>. QED  BY <1>1, <2>2, <2>3
  <1>3. Open' = Open /\ Submitted' = Submitted
    BY <1>1 DEF Open, Submitted
  <1>4. TypeOK'
    BY <1>1, <1>2, SMTT(60) DEF TypeOK, ListenTypes, ConnTypes, listenVars, mapVars
  <1>5. Lives' /\ Drained'
    BY <1>1 DEF Lives, Drained
  <1>6. Books'
    BY <1>1, <1>2, <1>3 DEF Books, LoopRuns, mapVars
  <1>7. Indexed'
    BY <1>1, <1>2, <1>3, IndexedKept DEF mapVars
  <1>. QED  BY <1>4, <1>5, <1>6, <1>7, SMTT(60)

\* close() only posts.
LEMMA UserClosePreserves ==
    ASSUME IInv, NEW c \in Conns, UserClose(c)
    PROVE  IInv'
  <1>. USE DEF IInv
  <1>1. /\ posts' = Append(posts, Post("close", {c}))
        /\ UNCHANGED <<listenVars, mapVars, connVars, owner>>
    BY DEF UserClose
  <1>2. /\ posts' \in Seq(PostType)
        /\ \A o, a : Posted(posts, o, a) => Posted(posts', o, a)
        /\ Erasures(posts') = Erasures(posts)
    <2>1. "close" \in PostOps /\ {c} \in SUBSET (Conns \cup Fds) /\ posts \in Seq(PostType)
      BY DEF PostOps, TypeOK
    <2>. QED  BY <1>1, <2>1, PostAppended
  <1>3. Open' = Open /\ Submitted' = Submitted
    BY <1>1 DEF Open, Submitted, connVars
  <1>4. TypeOK'
    BY <1>1, <1>2, SMTT(60) DEF TypeOK, ListenTypes, ConnTypes, listenVars, mapVars, connVars
  <1>5. Lives' /\ Drained'
    BY <1>1 DEF Lives, Drained, CallbacksDone, connVars
  <1>6. Books'
    BY <1>1, <1>2, <1>3 DEF Books, LoopRuns, mapVars, connVars
  <1>7. Indexed'
    BY <1>1, <1>2, <1>3, IndexedKept, ZenonT(60) DEF mapVars, connVars
  <1>. QED  BY <1>4, <1>5, <1>6, <1>7

\* The account passes from the pool to the loop, or stays with a connection
\* whose handler is not wrapped.
LEMMA BeginOnClosePreserves ==
    ASSUME IInv, NEW c \in Conns, BeginOnClose(c)
    PROVE  IInv'
  <1>. USE DEF IInv
  <1>1. /\ owner # "destroyed" /\ onClose[c] = "submitted"
        /\ onClose' = [onClose EXCEPT ![c] = "running"]
        /\ UNCHANGED <<listenVars, mapVars, fd, sock, registered, task, handler, early, owner>>
        /\ \/ posts' = Append(posts, Post("erase", fd[c])) /\ unerased' = unerased
           \/ posts' = posts /\ unerased' = unerased \cup {c}
    BY DEF BeginOnClose, PoolRuns
  <1>2. /\ posts' \in Seq(PostType)
        /\ \A o, a : Posted(posts, o, a) => Posted(posts', o, a)
        /\ unerased' = unerased =>
              /\ Posted(posts', "erase", fd[c])
              /\ Cardinality(Erasures(posts')) = Cardinality(Erasures(posts)) + 1
        /\ unerased' # unerased => posts' = posts /\ unerased' = unerased \cup {c}
    <2>1. "erase" \in PostOps /\ fd[c] \in SUBSET (Conns \cup Fds) /\ posts \in Seq(PostType)
      BY DEF PostOps, TypeOK, ConnTypes
    <2>2. CASE posts' = posts /\ unerased' = unerased \cup {c}
      <3>1. c \notin unerased
        BY <1>1 DEF Lives
      <3>. QED  BY <2>1, <2>2, <3>1
    <2>3. CASE posts' = Append(posts, Post("erase", fd[c])) /\ unerased' = unerased
      BY <2>1, <2>3, PostAppended
    <2>. QED  BY <1>1, <2>2, <2>3
  <1>3. /\ Open' = Open /\ Submitted' = Submitted \ {c} /\ c \in Submitted /\ c \notin unerased
        /\ sock[c] = "closed"
    BY <1>1, SMTT(60) DEF Open, Submitted, TypeOK, ConnTypes, Lives
  <1>4. TypeOK'
    BY <1>1, <1>2, SMTT(60) DEF TypeOK, ListenTypes, ConnTypes, listenVars, mapVars
  <1>5. Lives'
    BY <1>1, <1>3 DEF Lives, TypeOK, ConnTypes
  <1>6. Drained'
    BY <1>1 DEF Drained
  <1>7. Books'
    <2>1. Open \in SUBSET Conns /\ unerased \in SUBSET Conns /\ Submitted \in SUBSET Conns
      BY SMTT(60) DEF Open, Submitted, TypeOK, ConnTypes
    <2>2. Cardinality(Submitted') = Cardinality(Submitted) - 1
      BY <1>3, <2>1, Finite, FS_RemoveElement, SMTT(60)
    <2>3. unerased' # unerased => Cardinality(unerased') = Cardinality(unerased) + 1
      BY <1>2, <1>3, <2>1, Finite, FS_AddElement
    <2>4. /\ Cardinality(Open) \in Nat /\ Cardinality(unerased) \in Nat
          /\ Cardinality(Submitted) \in Nat /\ Cardinality(Erasures(posts)) \in Nat
      BY <2>1, Finite DEF TypeOK
    <2>5. count' = count /\ LoopRuns' = LoopRuns
      BY <1>1 DEF LoopRuns, mapVars
    <2>6. Cardinality(unerased') + Cardinality(Erasures(posts'))
              = Cardinality(unerased) + Cardinality(Erasures(posts)) + 1
      <3>1. CASE unerased' = unerased
        BY <1>2, <2>4, <3>1
      <3>2. CASE unerased' # unerased
        BY <1>2, <2>3, <2>4, <3>2
      <3>. QED  BY <3>1, <3>2
    <2>7. Cardinality(unerased') \in Nat /\ Cardinality(Erasures(posts')) \in Nat
      <3>1. unerased' \in SUBSET Conns
        BY <1>4, SMTT(60) DEF TypeOK, ConnTypes
      <3>. QED  BY <1>2, <3>1, Finite
    <2>. QED  BY <1>3, <2>2, <2>4, <2>5, <2>6, <2>7, SMTT(60) DEF Books
  <1>8. Indexed'
    <2>. SUFFICES ASSUME NEW f \in Fds, map'[f] # NoConn
                  PROVE  /\ fd'[map'[f]] = {f}
                         /\ sock'[map'[f]] # "none"
                         /\ \/ map'[f] \in Open' \cup unerased' \cup Submitted'
                            \/ Posted(posts', "erase", {f})
      BY DEF Indexed
    <2>1. /\ map'[f] = map[f] /\ fd[map[f]] = {f} /\ sock[map[f]] # "none"
          /\ map[f] \in Open \cup unerased \cup Submitted \/ Posted(posts, "erase", {f})
      BY <1>1, ZenonT(60) DEF Indexed, mapVars
    <2>2. CASE map[f] = c
      <3>1. CASE unerased' = unerased
        BY <1>1, <1>2, <2>1, <2>2, <3>1, ZenonT(60)
      <3>2. CASE unerased' # unerased
        BY <1>1, <1>2, <2>1, <2>2, <3>2, SMTT(60)
      <3>. QED  BY <3>1, <3>2
    <2>3. CASE map[f] # c
      BY <1>1, <1>2, <1>3, <2>1, <2>3
    <2>. QED  BY <2>2, <2>3, SMTT(60)
  <1>. QED  BY <1>4, <1>5, <1>6, <1>7, <1>8

\* The callback returns.
LEMMA EndOnClosePreserves ==
    ASSUME IInv, NEW c \in Conns, EndOnClose(c)
    PROVE  IInv'
  <1>. USE DEF IInv
  <1>1. /\ onClose[c] = "running" /\ onClose' = [onClose EXCEPT ![c] = "done"]
        /\ UNCHANGED <<listenVars, mapVars, fd, sock, registered, task, handler, early, unerased,
                       posts, owner>>
    BY DEF EndOnClose
  <1>2. Open' = Open /\ Submitted' = Submitted
    BY <1>1 DEF Open, Submitted, TypeOK, ConnTypes
  <1>3. TypeOK'
    BY <1>1, SMTT(60) DEF TypeOK, ListenTypes, ConnTypes, listenVars, mapVars
  <1>4. Lives' /\ Drained'
    BY <1>1 DEF Lives, Drained, CallbacksDone, TypeOK, ConnTypes
  <1>5. Books'
    BY <1>1, <1>2 DEF Books, LoopRuns, mapVars
  <1>6. Indexed'
    BY <1>1, <1>2, IndexedKept DEF mapVars
  <1>. QED  BY <1>3, <1>4, <1>5, <1>6

\* Executing a post that is no erasure and closes nothing.
LEMMA RunOtherPreserves ==
    ASSUME IInv,
           \/ RunAcceptLoop \/ RunStopListening
           \/ \E c \in Conns : RunStartReading(c)
    PROVE  IInv'
  <1>. USE DEF IInv
  <1>1. PICK op \in {"accept_loop", "stop_listening", "start_reading"}, arg \in SUBSET Conns :
            /\ RunPost(op, arg)
            /\ op = "accept_loop" => arg = {} /\ accepting' = listener /\ UNCHANGED listener
            /\ op = "stop_listening" => arg = {} /\ accepting' = FALSE /\ listener' = FALSE
            /\ op = "start_reading" => UNCHANGED <<accepting, listener>>
    BY ZenonT(60) DEF RunAcceptLoop, RunStopListening, RunStartReading, listenVars
  <1>2. /\ registered' \in SUBSET Conns
        /\ UNCHANGED <<listenPaused, armed, call, mapVars, fd, sock, task, handler, onClose, early,
                       unerased>>
    BY ZenonT(60) DEF RunAcceptLoop, RunStopListening, RunStartReading, listenVars, connVars, Open, TypeOK,
           ConnTypes
  <1>3. /\ posts \in Seq(PostType) /\ posts # <<>> /\ Head(posts) = Post(op, arg)
        /\ posts' = Tail(posts) /\ owner' = owner
    BY <1>1 DEF RunPost, TypeOK
  <1>4. /\ posts' \in Seq(PostType)
        /\ \A o, a : Posted(posts, o, a) /\ <<o, a>> # <<op, arg>> => Posted(posts', o, a)
        /\ Cardinality(Erasures(posts')) = Cardinality(Erasures(posts))
    <2>1. Cardinality(Erasures(posts)) \in Nat
      BY <1>3, Finite
    <2>. QED  BY <1>3, <2>1, PostExecuted
  <1>5. Open' = Open /\ Submitted' = Submitted
    BY <1>2 DEF Open, Submitted
  <1>6. TypeOK'
    BY <1>1, <1>2, <1>3, <1>4, ZenonT(60) DEF TypeOK, ListenTypes, ConnTypes, mapVars
  <1>7. Lives' /\ Drained'
    BY <1>2, <1>3 DEF Lives, Drained, CallbacksDone
  <1>8. Books'
    BY <1>2, <1>3, <1>4, <1>5, SMTT(60) DEF Books, LoopRuns, mapVars
  <1>9. Indexed'
    <2>1. \A f : <<"erase", {f}>> # <<op, arg>>
      OBVIOUS
    <2>. QED  BY <1>2, <1>4, <1>5, <2>1, IndexedKept DEF mapVars
  <1>. QED  BY <1>6, <1>7, <1>8, <1>9

\* An erasure takes one out of the count, and out of the map what is there.
LEMMA RunErasePreserves ==
    ASSUME IInv, NEW f \in Fds, RunErase(f)
    PROVE  IInv'
  <1>. USE DEF IInv
  <1>1. /\ map' = [map EXCEPT ![f] = NoConn] /\ count' = count - 1
        /\ UNCHANGED <<listenVars, connVars>>
    BY DEF RunErase
  <1>2. /\ posts \in Seq(PostType) /\ posts # <<>> /\ Head(posts) = Post("erase", {f})
        /\ posts' = Tail(posts) /\ owner' = owner
    BY DEF RunErase, RunPost, TypeOK
  <1>3. /\ posts' \in Seq(PostType)
        /\ \A o, a : Posted(posts, o, a) /\ <<o, a>> # <<"erase", {f}>> => Posted(posts', o, a)
        /\ Cardinality(Erasures(posts')) = Cardinality(Erasures(posts)) - 1
    BY <1>2, PostExecuted
  <1>4. Open' = Open /\ Submitted' = Submitted
    BY <1>1, SMTT(60) DEF Open, Submitted, connVars
  <1>5. TypeOK'
    BY <1>1, <1>2, <1>3, SMTT(60) DEF TypeOK, ListenTypes, ConnTypes, listenVars, connVars
  <1>6. Lives' /\ Drained'
    BY <1>1, <1>2, ZenonT(60) DEF Lives, Drained, CallbacksDone, connVars
  <1>7. Books'
    <2>1. Open \in SUBSET Conns /\ unerased \in SUBSET Conns /\ Submitted \in SUBSET Conns
      BY DEF Open, Submitted, TypeOK, ConnTypes
    <2>2. /\ Cardinality(Open) \in Nat /\ Cardinality(unerased) \in Nat
          /\ Cardinality(Submitted) \in Nat /\ Cardinality(Erasures(posts)) \in Nat
      BY <1>2, <2>1, Finite
    <2>3. unerased' = unerased /\ LoopRuns' = LoopRuns
      BY <1>1, <1>2, SMTT(60) DEF LoopRuns, connVars
    <2>. QED  BY <1>1, <1>3, <1>4, <2>2, <2>3, SMTT(60) DEF Books
  <1>8. Indexed'
    <2>. SUFFICES ASSUME NEW g \in Fds, map'[g] # NoConn
                  PROVE  /\ fd'[map'[g]] = {g}
                         /\ sock'[map'[g]] # "none"
                         /\ \/ map'[g] \in Open' \cup unerased' \cup Submitted'
                            \/ Posted(posts', "erase", {g})
      BY ZenonT(60) DEF Indexed
    <2>1. g # f /\ map'[g] = map[g]
      BY <1>1, SMTT(60) DEF TypeOK
    <2>2. /\ fd[map[g]] = {g} /\ sock[map[g]] # "none"
          /\ map[g] \in Open \cup unerased \cup Submitted \/ Posted(posts, "erase", {g})
      BY <2>1, SMTT(60) DEF Indexed
    <2>3. <<"erase", {g}>> # <<"erase", {f}>>
      BY <2>1
    <2>. QED  BY <1>1, <1>3, <1>4, <2>1, <2>2, <2>3, ZenonT(60) DEF connVars
  <1>. QED  BY <1>5, <1>6, <1>7, <1>8

\* initiate_close, from its post or from an event.
LEMMA ConnectionClosePreserves ==
    ASSUME IInv, NEW c \in Conns, RunClose(c) \/ IoClose(c)
    PROVE  IInv'
  <1>. USE DEF IInv
  <1>1. /\ LoopRuns /\ Close({c}) /\ {c} \in SUBSET Conns
        /\ UNCHANGED <<listenVars, mapVars, fd, task, handler, owner>>
    BY SMTT(60) DEF RunClose, IoClose, RunPost
  <1>2. /\ ConnTypes' /\ Lives'
        /\ Open \cup unerased \cup Submitted \subseteq Open' \cup unerased' \cup Submitted'
        /\ \A d \in Conns : sock[d] # "none" => sock'[d] # "none"
        /\ Cardinality(Open') + Cardinality(unerased') + Cardinality(Submitted')
             = Cardinality(Open) + Cardinality(unerased) + Cardinality(Submitted)
    BY <1>1, ClosePreserves
  <1>3. /\ posts' \in Seq(PostType)
        /\ \A o, a : Posted(posts, o, a) /\ o # "close" => Posted(posts', o, a)
        /\ Cardinality(Erasures(posts')) = Cardinality(Erasures(posts))
    <2>1. posts \in Seq(PostType) /\ Cardinality(Erasures(posts)) \in Nat
      BY Finite DEF TypeOK
    <2>2. CASE RunClose(c)
      <3>1. posts # <<>> /\ Head(posts) = Post("close", {c}) /\ posts' = Tail(posts)
        BY <2>2 DEF RunClose, RunPost
      <3>2. \A o, a : o # "close" => <<o, a>> # <<"close", {c}>>
        OBVIOUS
      <3>. QED  BY <2>1, <3>1, <3>2, PostExecuted
    <2>3. CASE IoClose(c)
      BY <2>1, <2>3, SMTT(60) DEF IoClose
    <2>. QED  BY <2>2, <2>3
  <1>4. TypeOK'
    BY <1>1, <1>2, <1>3 DEF TypeOK, ListenTypes, listenVars, mapVars
  <1>5. Drained'
    BY <1>1, SMTT(60) DEF Drained, LoopRuns
  <1>6. Books'
    <2>1. /\ Open \in SUBSET Conns /\ unerased \in SUBSET Conns /\ Submitted \in SUBSET Conns
          /\ Open' \in SUBSET Conns /\ unerased' \in SUBSET Conns /\ Submitted' \in SUBSET Conns
      BY <1>2 DEF Open, Submitted, TypeOK, ConnTypes
    <2>2. /\ Cardinality(Open) \in Nat /\ Cardinality(unerased) \in Nat
          /\ Cardinality(Submitted) \in Nat
          /\ Cardinality(Open') \in Nat /\ Cardinality(unerased') \in Nat
          /\ Cardinality(Submitted') \in Nat
      BY <2>1, Finite
    <2>3. Cardinality(Erasures(posts)) \in Nat
      BY Finite DEF TypeOK
    <2>4. count' = count /\ LoopRuns' = LoopRuns
      BY <1>1, ZenonT(60) DEF LoopRuns, mapVars
    <2>. QED  BY <1>2, <1>3, <2>2, <2>3, <2>4, SMTT(60) DEF Books
  <1>7. Indexed'
    BY <1>1, <1>2, <1>3, IndexedKept DEF mapVars
  <1>. QED  BY <1>2, <1>4, <1>5, <1>6, <1>7, ZenonT(60)

\* do_destroy stops the listener and lets the loop run out.
LEMMA DestroyBeginPreserves ==
    ASSUME IInv, DestroyBegin \/ LoopExits
    PROVE  IInv'
  <1>. USE DEF IInv
  <1>1. /\ owner \in {"live", "stopping"} /\ owner' \in {"stopping", "joined"}
        /\ \/ listener' = FALSE /\ accepting' = FALSE
           \/ UNCHANGED <<listener, accepting>>
        /\ UNCHANGED <<listenPaused, armed, call, mapVars, connVars, posts>>
    BY DEF DestroyBegin, LoopExits, listenVars
  <1>. USE DEF mapVars, connVars
  <1>2. TypeOK'
    BY <1>1, ZenonT(60) DEF TypeOK, ListenTypes, ConnTypes
  <1>3. Lives' /\ Drained'
    BY <1>1, ZenonT(60) DEF Lives, Drained
  <1>4. Books'
    BY <1>1, SMTT(60) DEF Books, Open, Submitted, LoopRuns
  <1>5. Indexed'
    BY <1>1 DEF Indexed, Open, Submitted
  <1>. QED  BY <1>2, <1>3, <1>4, <1>5

\* It closes what the map holds, empties it, and lets the pool drain.
LEMMA DestroyEndPreserves ==
    ASSUME IInv, DestroyClose \/ DestroyDone
    PROVE  IInv'
  <1>. USE DEF IInv
  <1>1. CASE DestroyClose
    <2>1. /\ Close(Mapped) /\ map' = [f \in Fds |-> NoConn] /\ count' = 0
          /\ owner' = "shutdown" /\ UNCHANGED <<listenVars, fd, task, handler, posts>>
      BY <1>1 DEF DestroyClose
    <2>2. Mapped \in SUBSET Conns
      BY DEF Mapped, TypeOK
    <2>3. ConnTypes' /\ Lives'
      BY <2>1, <2>2, ClosePreserves
    <2>4. TypeOK'
      BY <2>1, <2>3, SMTT(60) DEF TypeOK, ListenTypes, listenVars
    <2>5. Books' /\ Drained' /\ Indexed'
      BY <2>1 DEF Books, LoopRuns, Drained, Indexed
    <2>. QED  BY <2>3, <2>4, <2>5
  <1>2. CASE DestroyDone
    <2>1. /\ owner' = "destroyed" /\ CallbacksDone
          /\ UNCHANGED <<listenVars, mapVars, connVars, posts>>
      BY <1>2, SMTT(60) DEF DestroyDone
    <2>. USE DEF listenVars, mapVars, connVars
    <2>2. TypeOK' /\ Lives'
      BY <2>1, SMTT(60) DEF TypeOK, ListenTypes, ConnTypes, Lives
    <2>3. Books' /\ Drained'
      BY <2>1, ZenonT(60) DEF Books, LoopRuns, Drained, CallbacksDone
    <2>4. Indexed'
      BY <2>1, ZenonT(60) DEF Indexed, Open, Submitted
    <2>. QED  BY <2>2, <2>3, <2>4
  <1>. QED  BY <1>1, <1>2

\* A step that changes nothing.
LEMMA StutterPreserves ==
    ASSUME IInv, UNCHANGED vars
    PROVE  IInv'
  <1>. USE DEF IInv, vars, listenVars, mapVars, connVars
  <1>1. TypeOK' /\ Lives'
    BY SMTT(60) DEF TypeOK, ListenTypes, ConnTypes, Lives
  <1>2. Books' /\ Drained'
    BY ZenonT(60) DEF Books, LoopRuns, Open, Submitted, Drained, CallbacksDone
  <1>3. Indexed'
    BY ZenonT(60) DEF Indexed, Open, Submitted
  <1>. QED  BY <1>1, <1>2, <1>3, SMTT(60)

\* Every state the server can be in satisfies the invariant.
THEOREM Invariance == Spec => []IInv
  <1>1. ASSUME IInv, [Next]_vars
        PROVE  IInv'
    <2>1. ASSUME NEW t \in Callers, ArmListen(t) \/ DoPause(t) \/ DoResume(t) \/ EndCall(t)
          PROVE  IInv'
      BY <1>1, <2>1, BeginPreserves, EndCallPreserves
    <2>2. ASSUME NEW c \in Conns, NEW f \in Fds, Accept(c, f)
          PROVE  IInv'
      BY <1>1, <2>2, AcceptPreserves
    <2>3. ASSUME NEW c \in Conns,
                 AcceptRefused(c) \/ SetOnClose(c) \/ UserClose(c) \/ IoClose(c) \/ PoolStep(c)
          PROVE  IInv'
      BY <1>1, <2>3, AcceptRefusedPreserves, TaskPreserves, UserClosePreserves,
         ConnectionClosePreserves, BeginOnClosePreserves, EndOnClosePreserves, SMTT(60) DEF PoolStep
    <2>4. CASE LoopStep
      BY <1>1, <2>4, RunOtherPreserves, ConnectionClosePreserves, RunErasePreserves DEF LoopStep
    <2>5. CASE DestroyBegin \/ LoopExits \/ DestroyClose \/ DestroyDone
      BY <1>1, <2>5, DestroyBeginPreserves, DestroyEndPreserves
    <2>6. CASE UNCHANGED vars
      BY <1>1, <2>6, StutterPreserves
    <2>. QED  BY <1>1, <2>1, <2>2, <2>3, <2>4, <2>5, <2>6 DEF Next
  <1>. QED  BY <1>1, InitEstablishes, PTL DEF Spec

-----------------------------------------------------------------------------
(* The properties *)

\* connection_count is never below the number of open connections.
THEOREM CountCovers == Spec => []CountCoversOpen
  <1>1. IInv => CountCoversOpen
    <2>. SUFFICES ASSUME IInv, LoopRuns PROVE count >= Cardinality(Open)
      BY DEF CountCoversOpen, LoopRuns
    <2>1. Open \in SUBSET Conns /\ unerased \in SUBSET Conns /\ Submitted \in SUBSET Conns
      BY DEF IInv, Open, Submitted, TypeOK, ConnTypes
    <2>2. /\ Cardinality(Open) \in Nat /\ Cardinality(unerased) \in Nat
          /\ Cardinality(Submitted) \in Nat /\ Cardinality(Erasures(posts)) \in Nat
      BY <2>1, Finite DEF IInv, TypeOK
    <2>. QED  BY <2>2 DEF IInv, Books
  <1>. QED  BY <1>1, Invariance, PTL

\* With nothing under way, connection_count and the map agree with what is open,
\* but for the connections whose on_close_ was not the wrapper when they closed.
THEOREM BooksAreSettled == Spec => []BooksSettle
  <1>1. IInv => BooksSettle
    <2>. SUFFICES ASSUME IInv, Settled
                  PROVE  /\ count = Cardinality(Open) + Cardinality(unerased)
                         /\ Mapped \subseteq Open \cup unerased
      BY DEF BooksSettle
    <2>1. Submitted = {} /\ Len(posts) = 0 /\ Erasures(posts) = {} /\ LoopRuns
      BY DEF Settled, CallbacksDone, Submitted, Erasures, LoopRuns
    <2>2. count = Cardinality(Open) + Cardinality(unerased)
      <3>1. Open \in SUBSET Conns /\ unerased \in SUBSET Conns
        BY DEF IInv, Open, TypeOK, ConnTypes
      <3>2. Cardinality(Open) \in Nat /\ Cardinality(unerased) \in Nat
        BY <3>1, Finite
      <3>3. Cardinality({}) = 0
        BY FS_EmptySet
      <3>. QED  BY <2>1, <3>2, <3>3 DEF IInv, Books
    <2>3. \A f \in Fds : ~Posted(posts, "erase", {f})
      BY <2>1 DEF Posted
    <2>4. Mapped \subseteq Open \cup unerased
      BY <2>1, <2>3, ZenonT(60) DEF IInv, Indexed, Mapped
    <2>. QED  BY <2>2, <2>4
  <1>. QED  BY <1>1, Invariance, PTL

\* When the stream is destroyed, on_close has returned for every connection that
\* closed with a handler.
THEOREM ClosesReported == Spec => []CloseReported
  <1>1. IInv => CloseReported
    BY DEF IInv, CloseReported, Drained, CallbacksDone, Lives
  <1>. QED  BY <1>1, Invariance, PTL
=============================================================================
