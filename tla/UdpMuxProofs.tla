---------------------------- MODULE UdpMuxProofs ----------------------------
(***************************************************************************)
(* For any number of threads and remote addresses: a local address has one *)
(* multiplexer, registrations and peer sockets agree, and no datagram that *)
(* was looked up for a peer socket is lost, repeated or overtaken.         *)
(*                                                                         *)
(* The argument has two halves that do not meet.  registry_mutex_ is held  *)
(* from the lookup of the entry to its making, and the entry is live       *)
(* exactly when there is a multiplexer.  The one receive buffer is filled  *)
(* only while the receive is armed, and then it holds nothing; a user has  *)
(* no impl, and no datagram on its way, before it registers.               *)
(***************************************************************************)
EXTENDS UdpMux, SequenceLemmas, TLAPS

\* Who looks at the entry, or makes a multiplexer for it, holds the lock.
Exclusion ==
    \A u \in Users :
        /\ pc[u] \in {"lookup", "make", "destructor"} => registryLock = u
        /\ pc[u] = "make" => registry # "live"

\* The entry is live exactly when there is a multiplexer, and only one.
EntryIsMux == IF registry = "live" THEN muxes = 1 ELSE muxes = 0

Unborn == {"new", "create", "lookup", "make", "destructor", "register"}

\* Before its registration a user has no impl and nothing was routed to it.
NotYet ==
    \A u \in Users : pc[u] \in Unborn =>
        impl[u] = Nobody /\ routed[u] = <<>> /\ got[u] = <<>> /\ current.to # u

\* Only a user with an impl calls recv() or destroys it.
Held == \A u \in Users : pc[u] \in {"idle", "recv"} => impl[u] # Nobody

\* The receive buffer is empty while the receive is armed.
OneBuffer ==
    /\ armed => current = NoDatagram
    /\ current.to # Nobody => current.data \in Datagrams
    /\ current # NoDatagram => muxes > 0

\* The inductive invariant.
IInv ==
    /\ TypeOK /\ Exclusion /\ EntryIsMux /\ NotYet /\ Held /\ OneBuffer /\ Registrations
    /\ RoutedInOrder

-----------------------------------------------------------------------------
\* Nothing exists before the first call of create().
LEMMA InitEstablishes == Init => IInv
  <1>. SUFFICES ASSUME Init PROVE IInv
    OBVIOUS
  <1>1. <<>> \in Seq(Datagrams)
    BY EmptySeq
  <1>2. NoDatagram \in [data : Datagrams \cup {<<>>}, to : Users \cup {Nobody}]
    BY DEF NoDatagram
  <1>3. TypeOK
    BY <1>1, <1>2, Zenon DEF Init, TypeOK
  <1>4. NotYet /\ OneBuffer
    BY MuxAssumption DEF Init, NotYet, OneBuffer, NoDatagram
  <1>. QED  BY <1>3, <1>4 DEF Init, IInv, Exclusion, EntryIsMux, Held, Registrations,
                 RegisteredIsLive, LiveIsRegistered, RoutedInOrder, Live

\* A failure of a system call is counted.
LEMMA FailingCounts ==
    ASSUME counts \in [failures : Nat, datagrams : Nat], Failing
    PROVE  counts' \in [failures : Nat, datagrams : Nat]
  BY DEF Failing

\* The steps of a user that touch neither an impl nor a registration.
Inside(u) ==
    \/ CallCreate(u) \/ LockRegistry(u) \/ UseExisting(u) \/ DropEntry(u) \/ MakeFails(u)
    \/ MakeMux(u) \/ MakeDeaf(u) \/ CreateFails(u) \/ CallRecv(u)

\* get_or_create and its callers exclude each other, and leave the peers alone.
LEMMA InsidePreserves ==
    ASSUME IInv, NEW u \in Users, Inside(u)
    PROVE  IInv'
  <1>. USE DEF IInv
  <1>1. /\ UNCHANGED <<peerVars, net, current, history>>
        /\ pc' = [pc EXCEPT ![u] = pc'[u]]
        /\ pc'[u] \in Unborn => pc[u] \in Unborn
        /\ pc'[u] \in {"idle", "recv"} => pc[u] \in {"idle", "recv"}
    BY DEF Inside, CallCreate, LockRegistry, AfterLock, UseExisting, DropEntry, MakeFails,
           MakeMux, MakeDeaf, Made, CreateFails, CallRecv, Goto, TypeOK, muxVars, history, Unborn
  <1>2. TypeOK'
    <2>1. pc'[u] \in {"create", "lookup", "make", "destructor", "failed", "register", "recv",
                      "done"}
      BY DEF Inside, CallCreate, LockRegistry, AfterLock, UseExisting, DropEntry, MakeFails,
             MakeMux, MakeDeaf, Made, CreateFails, CallRecv, Goto, TypeOK
    <2>2. registryLock' \in Users \cup {Nobody} /\ registry' \in {"none", "live", "expired"}
      BY DEF Inside, CallCreate, LockRegistry, UseExisting, DropEntry, MakeFails, MakeMux,
             MakeDeaf, Made, CreateFails, CallRecv, TypeOK, createVars
    <2>4. muxes' \in Nat /\ armed' \in BOOLEAN /\ (armed' => muxes' > 0)
      <3>1. CASE UNCHANGED <<muxes, armed>>
        BY <3>1 DEF TypeOK
      <3>2. CASE muxes' = muxes + 1 /\ (UNCHANGED armed \/ armed' = TRUE)
        <4>1. muxes' \in Nat /\ muxes' > 0
          BY <3>2 DEF TypeOK
        <4>2. armed' \in BOOLEAN
          BY <3>2, Zenon DEF TypeOK
        <4>. QED  BY <4>1, <4>2
      <3>. QED  BY <3>1, <3>2, Zenon
                DEF Inside, CallCreate, LockRegistry, UseExisting, DropEntry, MakeFails, MakeMux,
                    MakeDeaf, Made, CreateFails, CallRecv, createVars, muxVars
    <2>3. counts' \in [failures : Nat, datagrams : Nat] /\ deaf' \in BOOLEAN
      <3>1. CASE UNCHANGED <<counts, deaf>>
        BY <3>1 DEF TypeOK
      <3>2. CASE Failing /\ (UNCHANGED deaf \/ deaf' = TRUE)
        BY <3>2, FailingCounts DEF TypeOK
      <3>. QED  BY <3>1, <3>2
                DEF Inside, CallCreate, LockRegistry, UseExisting, DropEntry, MakeFails,
                    MakeMux, MakeDeaf, Made, CreateFails, CallRecv, muxVars
    <2>. QED  BY <1>1, <2>1, <2>2, <2>3, <2>4, ZenonT(60) DEF TypeOK, peerVars, history
  <1>3. Exclusion'
    <2>. SUFFICES ASSUME NEW v \in Users
                  PROVE  /\ pc'[v] \in {"lookup", "make", "destructor"} => registryLock' = v
                         /\ pc'[v] = "make" => registry' # "live"
      BY DEF Exclusion
    <2>1. CASE v = u
      BY <2>1
         DEF Exclusion, Inside, CallCreate, LockRegistry, AfterLock, UseExisting, DropEntry,
             MakeFails, MakeMux, MakeDeaf, Made, CreateFails, CallRecv, Goto, TypeOK, createVars
    <2>2. CASE v # u
      <3>1. pc'[v] = pc[v]
        BY <1>1, <2>2 DEF TypeOK
      <3>. QED  BY <2>2, <3>1, MuxAssumption
                DEF Exclusion, Inside, CallCreate, LockRegistry, UseExisting, DropEntry,
                    MakeFails, MakeMux, MakeDeaf, Made, CreateFails, CallRecv, Goto, createVars
    <2>. QED  BY <2>1, <2>2
  <1>4. EntryIsMux'
    BY DEF EntryIsMux, Exclusion, Inside, CallCreate, LockRegistry, UseExisting, DropEntry,
           MakeFails, MakeMux, MakeDeaf, Made, CreateFails, CallRecv, Goto, createVars
  <1>5. NotYet' /\ Held'
    BY <1>1, ZenonT(60) DEF NotYet, Held, TypeOK, peerVars, history
  <1>6. OneBuffer'
    <2>1. muxes > 0 => muxes' > 0 /\ armed' = armed
      BY DEF EntryIsMux, Exclusion, Inside, CallCreate, LockRegistry, UseExisting, DropEntry,
             MakeFails, MakeMux, MakeDeaf, Made, CreateFails, CallRecv, Goto, createVars, muxVars
    <2>. QED  BY <1>1, <2>1 DEF OneBuffer
  <1>7. Registrations' /\ RoutedInOrder'
    BY <1>1, Zenon DEF Registrations, RegisteredIsLive, LiveIsRegistered, RoutedInOrder, Live, peerVars,
                history
  <1>. QED  BY <1>2, <1>3, <1>4, <1>5, <1>6, <1>7

-----------------------------------------------------------------------------
(* The peer sockets *)

\* The new impl is empty and its peer was free.
LEMMA RegisterPeerPreserves ==
    ASSUME IInv, NEW u \in Users, NEW p \in Peers, RegisterPeer(u, p)
    PROVE  IInv'
  <1>. DEFINE new == [peer |-> p, queue |-> <<>>]
  <1>. USE DEF IInv
  <1>1. /\ pc[u] = "register" /\ pc' = [pc EXCEPT ![u] = "idle"]
        /\ peers[p] = Nobody /\ peers' = [peers EXCEPT ![p] = u]
        /\ impl' = [impl EXCEPT ![u] = new]
        /\ UNCHANGED <<createVars, evicted, muxVars, history>>
    BY DEF RegisterPeer, Goto
  <1>2. new \in Impls /\ new.peer = p /\ new.queue = <<>> /\ new # Nobody
    <2>1. <<>> \in Seq(Datagrams)
      BY EmptySeq
    <2>2. new \in Impls
      BY <2>1 DEF Impls
    <2>. QED  BY <2>2, MuxAssumption
  <1>3. /\ impl[u] = Nobody /\ routed[u] = <<>> /\ got[u] = <<>> /\ current.to # u
        /\ \A q \in Peers : peers[q] # u
    BY <1>1, MuxAssumption DEF NotYet, Unborn, Registrations, RegisteredIsLive, Live
  <1>4. /\ impl'[u] = new /\ \A v \in Users : v # u => impl'[v] = impl[v] /\ pc'[v] = pc[v]
        /\ peers'[p] = u /\ \A q \in Peers : q # p => peers'[q] = peers[q]
        /\ pc'[u] = "idle"
    BY <1>1 DEF TypeOK
  <1>5. TypeOK'
    BY <1>1, <1>2 DEF TypeOK, createVars, muxVars, history
  <1>6. Exclusion' /\ EntryIsMux' /\ OneBuffer'
    BY <1>1, <1>4 DEF Exclusion, EntryIsMux, OneBuffer, createVars, muxVars
  <1>7. NotYet' /\ Held'
    BY <1>1, <1>2, <1>4 DEF NotYet, Held, Unborn, muxVars, history
  <1>8. RegisteredIsLive'
    <2>. SUFFICES ASSUME NEW q \in Peers, peers'[q] # Nobody
                  PROVE  impl'[peers'[q]] # Nobody /\ impl'[peers'[q]].peer = q
      BY DEF RegisteredIsLive, Live
    <2>1. CASE q = p
      BY <1>2, <1>4, <2>1
    <2>2. CASE q # p
      <3>1. peers'[q] = peers[q] /\ peers[q] \in Users /\ peers[q] # u
        BY <1>3, <1>4, <2>2 DEF TypeOK
      <3>. QED  BY <1>4, <3>1 DEF Registrations, RegisteredIsLive, Live
    <2>. QED  BY <2>1, <2>2
  <1>9. LiveIsRegistered'
    <2>. SUFFICES ASSUME NEW v \in Users \ evicted', Live(v)' PROVE peers'[impl'[v].peer] = v
      BY DEF LiveIsRegistered
    <2>1. CASE v = u
      BY <1>2, <1>4, <2>1
    <2>2. CASE v # u
      <3>1. Live(v) /\ impl'[v] = impl[v] /\ v \in Users \ evicted
        BY <1>1, <1>4, <2>2 DEF Live
      <3>2. peers[impl[v].peer] = v /\ impl[v].peer \in Peers
        BY <3>1 DEF Registrations, LiveIsRegistered, TypeOK, Live, Impls
      <3>3. impl[v].peer # p
        BY <1>1, <3>2, MuxAssumption
      <3>. QED  BY <1>4, <3>1, <3>2, <3>3
    <2>. QED  BY <2>1, <2>2
  <1>10. RoutedInOrder'
    <2>. SUFFICES ASSUME NEW v \in Users, Live(v)'
                  PROVE  routed'[v] = got'[v] \o impl'[v].queue
                                      \o (IF current'.to = v THEN <<current'.data>> ELSE <<>>)
      BY Zenon DEF RoutedInOrder
    <2>1. CASE v = u
      <3>1. /\ routed'[u] = <<>> /\ got'[u] = <<>> /\ impl'[u].queue = <<>>
            /\ current'.to # u
        BY <1>1, <1>2, <1>3, <1>4 DEF muxVars, history
      <3>2. <<>> \o <<>> \o <<>> = <<>>
        BY ConcatEmptySeq, EmptySeq
      <3>. QED  BY <2>1, <3>1, <3>2
    <2>2. CASE v # u
      BY <1>1, <1>4, <2>2, ZenonT(60) DEF RoutedInOrder, Live, muxVars, history
    <2>. QED  BY <2>1, <2>2, Zenon
  <1>. QED  BY <1>5, <1>6, <1>7, <1>8, <1>9, <1>10 DEF Registrations

\* already_bound takes the registration of another socket away.
LEMMA RegisterFailsPreserves ==
    ASSUME IInv, NEW u \in Users, NEW p \in Peers, RegisterFails(u, p)
    PROVE  IInv'
  <1>. USE DEF IInv
  <1>1. /\ pc[u] = "register" /\ pc' = [pc EXCEPT ![u] = "failed"]
        /\ peers' = [peers EXCEPT ![p] = Nobody]
        /\ peers[p] \in Users /\ evicted' = evicted \cup {peers[p]}
        /\ UNCHANGED <<createVars, impl, muxVars, history>>
    BY DEF RegisterFails, Deregistered, Goto, TypeOK
  <1>2. TypeOK'
    BY <1>1 DEF TypeOK, createVars, muxVars, history
  <1>3. \A v \in Users : v # u => pc'[v] = pc[v]
    BY <1>1 DEF TypeOK
  <1>4. Exclusion' /\ EntryIsMux' /\ OneBuffer' /\ NotYet' /\ Held' /\ RoutedInOrder'
    BY <1>1, <1>3, ZenonT(60)
       DEF Exclusion, EntryIsMux, OneBuffer, NotYet, Held, RoutedInOrder, Live, Unborn, TypeOK,
           createVars, muxVars, history
  <1>5. RegisteredIsLive'
    BY <1>1 DEF Registrations, RegisteredIsLive, Live, TypeOK
  <1>6. LiveIsRegistered'
    <2>. SUFFICES ASSUME NEW v \in Users \ evicted', Live(v)' PROVE peers'[impl'[v].peer] = v
      BY DEF LiveIsRegistered
    <2>1. v \in Users \ evicted /\ v # peers[p] /\ Live(v) /\ impl'[v] = impl[v]
      BY <1>1 DEF Live
    <2>2. peers[impl[v].peer] = v /\ impl[v].peer \in Peers
      BY <2>1 DEF Registrations, LiveIsRegistered, TypeOK, Live, Impls
    <2>. QED  BY <1>1, <2>1, <2>2 DEF TypeOK
  <1>. QED  BY <1>2, <1>4, <1>5, <1>6 DEF Registrations

\* The impl and its own registration go together.
LEMMA DestroyPeerPreserves ==
    ASSUME IInv, NEW u \in Users, DestroyPeer(u)
    PROVE  IInv'
  <1>. DEFINE p == impl[u].peer
  <1>. USE DEF IInv
  <1>1. /\ pc[u] = "idle" /\ pc' = [pc EXCEPT ![u] = "done"]
        /\ peers' = [peers EXCEPT ![p] = Nobody]
        /\ evicted' = evicted \cup ({peers[p]} \ {Nobody, u})
        /\ impl' = [impl EXCEPT ![u] = Nobody]
        /\ UNCHANGED <<createVars, muxVars, history>>
    BY DEF DestroyPeer, Deregistered, Goto
  <1>2. p \in Peers /\ impl[u] # Nobody
    BY <1>1 DEF Held, TypeOK, Impls
  <1>3. /\ impl'[u] = Nobody /\ \A v \in Users : v # u => impl'[v] = impl[v] /\ pc'[v] = pc[v]
        /\ peers'[p] = Nobody /\ \A q \in Peers : q # p => peers'[q] = peers[q]
        /\ pc'[u] = "done"
    BY <1>1, <1>2 DEF TypeOK
  <1>4. TypeOK'
    BY <1>1, <1>2 DEF TypeOK, createVars, muxVars, history
  <1>5. Exclusion' /\ EntryIsMux' /\ OneBuffer' /\ NotYet' /\ Held'
    BY <1>1, <1>3
       DEF Exclusion, EntryIsMux, OneBuffer, NotYet, Held, Unborn, createVars, muxVars, history
  <1>8. RoutedInOrder'
    BY <1>1, <1>3, ZenonT(60) DEF RoutedInOrder, Live, muxVars, history
  <1>6. RegisteredIsLive'
    <2>. SUFFICES ASSUME NEW q \in Peers, peers'[q] # Nobody
                  PROVE  impl'[peers'[q]] # Nobody /\ impl'[peers'[q]].peer = q
      BY DEF RegisteredIsLive, Live
    <2>1. q # p /\ peers'[q] = peers[q] /\ peers[q] \in Users
      BY <1>3 DEF TypeOK
    <2>2. impl[peers[q]] # Nobody /\ impl[peers[q]].peer = q
      BY <2>1 DEF Registrations, RegisteredIsLive, Live
    <2>3. peers[q] # u
      BY <2>1, <2>2
    <2>. QED  BY <1>3, <2>1, <2>2, <2>3
  <1>7. LiveIsRegistered'
    <2>. SUFFICES ASSUME NEW v \in Users \ evicted', Live(v)' PROVE peers'[impl'[v].peer] = v
      BY DEF LiveIsRegistered
    <2>1. v # u /\ impl'[v] = impl[v] /\ Live(v) /\ v \in Users \ evicted
      BY <1>1, <1>3 DEF Live
    <2>2. peers[impl[v].peer] = v /\ impl[v].peer \in Peers
      BY <2>1 DEF Registrations, LiveIsRegistered, TypeOK, Live, Impls
    <2>3. impl[v].peer # p
      BY <1>1, <2>1, <2>2, MuxAssumption
    <2>. QED  BY <1>3, <2>1, <2>2, <2>3
  <1>. QED  BY <1>4, <1>5, <1>6, <1>7, <1>8 DEF Registrations

\* recv() moves the head of the queue to what was returned.
LEMMA RecvReturnsPreserves ==
    ASSUME IInv, NEW u \in Users, RecvReturns(u)
    PROVE  IInv'
  <1>. DEFINE q == impl[u].queue
  <1>. USE DEF IInv
  <1>1. /\ pc[u] = "recv" /\ pc' = [pc EXCEPT ![u] = "idle"]
        /\ q # <<>>
        /\ got' = [got EXCEPT ![u] = Append(got[u], Head(q))]
        /\ impl' = [impl EXCEPT ![u] = [impl[u] EXCEPT !.queue = Tail(q)]]
        /\ UNCHANGED <<createVars, peers, evicted, muxVars, routed>>
    BY DEF RecvReturns, Goto, TypeOK
  <1>2. impl[u] \in Impls /\ q \in Seq(Datagrams) /\ got[u] \in Seq(Datagrams)
    BY <1>1 DEF Held, TypeOK, Impls
  <1>3. /\ Head(q) \in Datagrams /\ Tail(q) \in Seq(Datagrams)
        /\ Append(got[u], Head(q)) \o Tail(q) = got[u] \o q
    BY <1>1, <1>2, MoveHead, ZenonT(60)
  <1>4. /\ impl'[u] \in Impls /\ impl'[u].peer = impl[u].peer /\ impl'[u].queue = Tail(q)
        /\ impl'[u] # Nobody /\ impl[u] # Nobody
        /\ \A v \in Users : v # u => impl'[v] = impl[v] /\ pc'[v] = pc[v] /\ got'[v] = got[v]
        /\ pc'[u] = "idle" /\ got'[u] = Append(got[u], Head(q))
    BY <1>1, <1>2, <1>3, MuxAssumption, ZenonT(60) DEF TypeOK, Impls
  <1>5. TypeOK'
    BY <1>1, <1>2, <1>3, <1>4, AppendProperties, Zenon DEF TypeOK, createVars, muxVars
  <1>6. Exclusion' /\ EntryIsMux' /\ OneBuffer' /\ NotYet' /\ Held'
    BY <1>1, <1>4
       DEF Exclusion, EntryIsMux, OneBuffer, NotYet, Held, Unborn, createVars, muxVars
  <1>7. Registrations'
    <2>1. \A v \in Users : impl[v] # Nobody => impl'[v] # Nobody /\ impl'[v].peer = impl[v].peer
      BY <1>4
    <2>2. \A v \in Users : impl'[v] # Nobody => impl[v] # Nobody
      BY <1>4
    <2>3. RegisteredIsLive'
      BY <1>1, <2>1, SMTT(60) DEF Registrations, RegisteredIsLive, Live, TypeOK
    <2>4. LiveIsRegistered'
      BY <1>1, <2>1, <2>2 DEF Registrations, LiveIsRegistered, Live
    <2>. QED  BY <2>3, <2>4 DEF Registrations
  <1>8. RoutedInOrder'
    <2>. SUFFICES ASSUME NEW v \in Users, Live(v)'
                  PROVE  routed'[v] = got'[v] \o impl'[v].queue
                                      \o (IF current'.to = v THEN <<current'.data>> ELSE <<>>)
      BY Zenon DEF RoutedInOrder
    <2>1. CASE v = u
      <3>1. /\ routed[u] = got[u] \o q \o (IF current.to = u THEN <<current.data>> ELSE <<>>)
            /\ routed' = routed /\ current' = current
        BY <1>1, <1>4, Zenon DEF RoutedInOrder, Live, muxVars
      <3>2. got'[u] \o impl'[u].queue = got[u] \o q
        BY <1>3, <1>4, Zenon
      <3>. QED  BY <2>1, <3>1, <3>2, Zenon
    <2>2. CASE v # u
      BY <1>1, <1>4, <2>2, ZenonT(60) DEF RoutedInOrder, Live, muxVars
    <2>. QED  BY <2>1, <2>2, Zenon
  <1>. QED  BY <1>5, <1>6, <1>7, <1>8

-----------------------------------------------------------------------------
(* The thread of the multiplexer *)

\* A datagram waits in the socket.
LEMMA ArrivePreserves ==
    ASSUME IInv, NEW p \in Peers, Arrive(p)
    PROVE  IInv'
  <1>. USE DEF IInv
  <1>1. /\ net' = Append(net, <<p, counts.datagrams + 1>>)
        /\ counts' = [counts EXCEPT !.datagrams = counts.datagrams + 1]
        /\ UNCHANGED <<pc, createVars, peerVars, armed, current, deaf, history>>
    BY DEF Arrive
  <1>2. <<p, counts.datagrams + 1>> \in Datagrams /\ counts' \in [failures : Nat, datagrams : Nat]
    <2>1. counts.failures \in Nat /\ counts.datagrams \in Nat
      BY DEF TypeOK
    <2>2. <<p, counts.datagrams + 1>> \in Datagrams
      BY <2>1 DEF Datagrams
    <2>3. counts \in [failures : Nat, datagrams : Nat]
      BY DEF TypeOK
    <2>4. counts' \in [failures : Nat, datagrams : Nat]
      BY <1>1, <2>1, <2>3
    <2>. QED  BY <2>2, <2>4
  <1>3. net' \in Seq(Datagrams)
    BY <1>1, <1>2, AppendProperties DEF TypeOK
  <1>4. TypeOK'
    BY <1>1, <1>2, <1>3, SMTT(60) DEF TypeOK, createVars, peerVars, history
  <1>. QED  BY <1>1, <1>4, Zenon
            DEF Exclusion, EntryIsMux, NotYet, Held, OneBuffer, Registrations, RegisteredIsLive,
                LiveIsRegistered, RoutedInOrder, Live, createVars, peerVars, history

\* The datagram goes to the buffer, and to what was routed to the socket that
\* the lookup found, which is a live one.
LEMMA DispatchPreserves ==
    ASSUME IInv, Dispatch
    PROVE  IInv'
  <1>. DEFINE d == Head(net)
              t == Found(d)
  <1>. USE DEF IInv
  <1>1. /\ armed /\ armed' = FALSE
        /\ net # <<>> /\ net' = Tail(net)
        /\ current' = [data |-> d, to |-> t]
        /\ routed' = Routed(d)
        /\ UNCHANGED <<pc, createVars, peerVars, counts, deaf, got>>
    BY DEF Dispatch
  <1>2. /\ d \in Datagrams /\ Tail(net) \in Seq(Datagrams)
        /\ t \in Users \cup {Nobody}
    <2>1. d \in Datagrams /\ Tail(net) \in Seq(Datagrams)
      BY <1>1, HeadTailProperties DEF TypeOK
    <2>2. d[1] \in Peers
      BY <2>1 DEF Datagrams
    <2>. QED  BY <2>1, <2>2 DEF Found, TypeOK
  <1>3. t # Nobody => impl[t] # Nobody
    BY <1>2 DEF Registrations, RegisteredIsLive, Live, Found, Datagrams
  <1>4. current.to = Nobody
    BY <1>1 DEF OneBuffer, NoDatagram
  <1>5. \A u \in Users : routed'[u] = IF u = t THEN Append(routed[u], d) ELSE routed[u]
    BY <1>1, MuxAssumption DEF Routed, TypeOK
  <1>6. routed' \in [Users -> Seq(Datagrams)]
    <2>1. CASE t = Nobody
      BY <1>1, <2>1 DEF Routed, TypeOK
    <2>2. CASE t # Nobody
      <3>1. Append(routed[t], d) \in Seq(Datagrams)
        BY <1>2, <2>2, AppendProperties, SMTT(60) DEF TypeOK
      <3>. QED  BY <1>1, <1>2, <2>2, <3>1 DEF Routed, TypeOK
    <2>. QED  BY <2>1, <2>2
  <1>7. TypeOK'
    BY <1>1, <1>2, <1>6, ZenonT(60) DEF TypeOK, createVars, peerVars
  <1>8. OneBuffer'
    BY <1>1, <1>2 DEF OneBuffer, TypeOK, createVars
  <1>9. NotYet'
    <2>. SUFFICES ASSUME NEW u \in Users, pc'[u] \in Unborn
                  PROVE  /\ impl'[u] = Nobody /\ routed'[u] = <<>> /\ got'[u] = <<>>
                         /\ current'.to # u
      BY DEF NotYet
    <2>1. /\ impl[u] = Nobody /\ routed[u] = <<>> /\ got[u] = <<>>
      BY <1>1 DEF NotYet
    <2>2. u # t
      BY <1>3, <2>1, MuxAssumption
    <2>. QED  BY <1>1, <1>5, <2>1, <2>2 DEF peerVars
  <1>10. RoutedInOrder'
    <2>. SUFFICES ASSUME NEW u \in Users, impl'[u] # Nobody
                  PROVE  routed'[u] = got'[u] \o impl'[u].queue
                                      \o (IF current'.to = u THEN <<current'.data>> ELSE <<>>)
      BY Zenon DEF RoutedInOrder, Live
    <2>1. /\ impl' = impl /\ got' = got /\ got[u] \in Seq(Datagrams)
          /\ impl[u].queue \in Seq(Datagrams) /\ current'.to = t /\ current'.data = d
      BY <1>1 DEF peerVars, TypeOK, Impls
    <2>2. got[u] \o impl[u].queue \in Seq(Datagrams)
      BY <2>1, ConcatProperties
    <2>3. routed[u] = got[u] \o impl[u].queue
      <3>1. routed[u] = got[u] \o impl[u].queue \o <<>>
        BY <1>4, <2>1, MuxAssumption, Zenon DEF RoutedInOrder, Live
      <3>. QED  BY <2>2, <3>1, ConcatEmptySeq
    <2>4. CASE u = t
      <3>1. Append(routed[u], d) = routed[u] \o <<d>>
        BY <1>2, <2>2, <2>3, AppendIsConcat, Zenon
      <3>. QED  BY <1>5, <2>1, <2>3, <2>4, <3>1, Zenon
    <2>5. CASE u # t
      BY <1>5, <2>1, <2>2, <2>3, <2>5, ConcatEmptySeq, Zenon
    <2>. QED  BY <2>4, <2>5, Zenon
  <1>. QED  BY <1>1, <1>7, <1>8, <1>9, <1>10
            DEF Exclusion, EntryIsMux, Held, Registrations, RegisteredIsLive, LiveIsRegistered,
                Live, createVars, peerVars

\* The callback copies the buffer to the end of the queue of its impl.
LEMMA InvokePreserves ==
    ASSUME IInv, Invoke \/ InvokeLast
    PROVE  IInv'
  <1>. DEFINE t == current.to
  <1>. USE DEF IInv
  <1>1. /\ current # NoDatagram /\ current' = NoDatagram
        /\ impl' = Invoked
        /\ armed' = armed \/ armed' = TRUE
        /\ UNCHANGED <<pc, createVars, peers, evicted, net, history>>
    BY DEF Invoke, InvokeLast
  <1>2. t \in Users \cup {Nobody} /\ (t # Nobody => current.data \in Datagrams)
    BY DEF TypeOK, OneBuffer
  <1>3. \A u \in Users : u # t \/ impl[u] = Nobody => impl'[u] = impl[u]
    BY <1>1, <1>2 DEF Invoked, Live, TypeOK
  <1>4. ASSUME NEW u \in Users, u = t, impl[u] # Nobody
        PROVE  /\ impl[u] \in Impls /\ impl'[u] \in Impls
               /\ impl'[u].peer = impl[u].peer
               /\ impl'[u].queue = Append(impl[u].queue, current.data)
    <2>1. impl'[u] = [impl[u] EXCEPT !.queue = Append(impl[u].queue, current.data)]
      BY <1>1, <1>4, MuxAssumption DEF Invoked, Live, TypeOK
    <2>2. impl[u] \in Impls /\ impl[u].queue \in Seq(Datagrams)
      BY <1>4 DEF TypeOK, Impls
    <2>3. Append(impl[u].queue, current.data) \in Seq(Datagrams)
      BY <1>2, <1>4, <2>2, AppendProperties, MuxAssumption
    <2>. QED  BY <2>1, <2>2, <2>3, SMTT(60) DEF Impls
  <1>5. impl' \in [Users -> Impls \cup {Nobody}]
    <2>1. \A u \in Users : impl'[u] \in Impls \cup {Nobody}
      BY <1>3, <1>4, Zenon DEF TypeOK
    <2>2. impl' = [u \in Users |-> impl'[u]]
      BY <1>1, Zenon DEF Invoked, TypeOK
    <2>. QED  BY <2>1, <2>2
  <1>6. /\ counts' \in [failures : Nat, datagrams : Nat] /\ deaf' \in BOOLEAN
    BY FailingCounts, Zenon DEF Invoke, InvokeLast, TypeOK
  <1>7. muxes > 0
    BY <1>1 DEF OneBuffer
  <1>8. TypeOK'
    <2>1. current' \in [data : Datagrams \cup {<<>>}, to : Users \cup {Nobody}]
      BY <1>1 DEF NoDatagram
    <2>. QED  BY <1>1, <1>5, <1>6, <1>7, <2>1, Zenon DEF TypeOK, createVars, history
  <1>9. OneBuffer'
    BY <1>1 DEF OneBuffer, NoDatagram
  <1>10. /\ \A u \in Users : impl'[u] = Nobody <=> impl[u] = Nobody
         /\ \A u \in Users : impl[u] # Nobody => impl'[u].peer = impl[u].peer
    BY <1>3, <1>4, MuxAssumption
  <1>11. NotYet' /\ Held'
    BY <1>1, <1>10, MuxAssumption, SMTT(60) DEF NotYet, Held, NoDatagram, history
  <1>12. RegisteredIsLive'
    BY <1>1, <1>10, ZenonT(60) DEF Registrations, RegisteredIsLive, Live, TypeOK
  <1>13. LiveIsRegistered'
    BY <1>1, <1>10 DEF Registrations, LiveIsRegistered, Live
  <1>14. RoutedInOrder'
    <2>. SUFFICES ASSUME NEW u \in Users, impl'[u] # Nobody
                  PROVE  routed[u] = got[u] \o impl'[u].queue \o <<>>
      BY <1>1, MuxAssumption, Zenon DEF RoutedInOrder, Live, NoDatagram, history
    <2>1. /\ impl[u] # Nobody /\ got[u] \in Seq(Datagrams)
          /\ impl[u].queue \in Seq(Datagrams) /\ impl'[u].queue \in Seq(Datagrams)
      BY <1>5, <1>10 DEF TypeOK, Impls
    <2>2. /\ got[u] \o impl[u].queue \in Seq(Datagrams)
          /\ got[u] \o impl'[u].queue \in Seq(Datagrams)
      BY <2>1, ConcatProperties
    <2>3. routed[u] = got[u] \o impl[u].queue \o (IF t = u THEN <<current.data>> ELSE <<>>)
      BY <2>1, ZenonT(60) DEF RoutedInOrder, Live
    <2>4. CASE u = t
      <3>1. current.data \in Datagrams /\ impl'[u].queue = Append(impl[u].queue, current.data)
        BY <1>2, <1>4, <2>1, <2>4, MuxAssumption, Zenon
      <3>2. got[u] \o impl'[u].queue = got[u] \o impl[u].queue \o <<current.data>>
        <4>1. \A a, b \in Seq(Datagrams), x \in Datagrams : a \o Append(b, x) = a \o b \o <<x>>
          BY AppendToSecond
        <4>2. got[u] \o Append(impl[u].queue, current.data)
                  = got[u] \o impl[u].queue \o <<current.data>>
          BY <2>1, <3>1, <4>1, Zenon
        <4>. QED  BY <3>1, <4>2, Zenon
      <3>. QED  BY <2>2, <2>3, <2>4, <3>2, ConcatEmptySeq, Zenon
    <2>5. CASE u # t
      BY <1>3, <2>3, <2>5, Zenon
    <2>. QED  BY <2>4, <2>5, Zenon
  <1>. QED  BY <1>1, <1>8, <1>9, <1>11, <1>12, <1>13, <1>14
            DEF Exclusion, EntryIsMux, Registrations, createVars

\* A completion that is not dispatched changes at most what waits in the socket and
\* whether the receive is armed.
LEMMA CompletesEmptyPreserves ==
    ASSUME IInv, CompletesEmpty
    PROVE  IInv'
  <1>. USE DEF IInv
  <1>1. /\ armed /\ armed' \in BOOLEAN /\ deaf' \in BOOLEAN /\ Failing
        /\ UNCHANGED <<pc, createVars, peerVars, current, history>>
    BY DEF CompletesEmpty
  <1>2. net' \in Seq(Datagrams)
    <2>1. net # <<>> => Tail(net) \in Seq(Datagrams)
      BY HeadTailProperties DEF TypeOK
    <2>. QED  BY <2>1, Zenon DEF CompletesEmpty, TypeOK
  <1>3. counts' \in [failures : Nat, datagrams : Nat]
    BY <1>1, FailingCounts DEF TypeOK
  <1>4. TypeOK'
    BY <1>1, <1>2, <1>3, Zenon DEF TypeOK, createVars, peerVars, history
  <1>. QED  BY <1>1, <1>4, Zenon
            DEF Exclusion, EntryIsMux, NotYet, Held, OneBuffer, Registrations, RegisteredIsLive,
                LiveIsRegistered, RoutedInOrder, Live, createVars, peerVars, history

\* No step of a user or of the multiplexer leaves the invariant.
LEMMA NextPreserves == IInv /\ [Next]_vars => IInv'
  <1>. SUFFICES ASSUME IInv, [Next]_vars PROVE IInv'
    OBVIOUS
  <1>1. CASE UNCHANGED vars
    BY <1>1, ZenonT(60)
       DEF vars, createVars, peerVars, muxVars, history, IInv, TypeOK, Exclusion, EntryIsMux,
           NotYet, Held, OneBuffer, Registrations, RegisteredIsLive, LiveIsRegistered,
           RoutedInOrder, Live
  <1>2. CASE Mux \/ CompletesEmpty \/ \E p \in Peers : Arrive(p)
    BY <1>2, DispatchPreserves, InvokePreserves, CompletesEmptyPreserves,
       ArrivePreserves DEF Mux
  <1>3. ASSUME NEW u \in Users,
               \/ CallCreate(u) \/ Creating(u) \/ CreateFails(u)
               \/ DestroyPeer(u) \/ CallRecv(u) \/ RecvReturns(u)
        PROVE  IInv'
    BY <1>3, InsidePreserves, RegisterPeerPreserves, RegisterFailsPreserves,
       DestroyPeerPreserves, RecvReturnsPreserves DEF Creating, Inside
  <1>. QED  BY <1>1, <1>2, <1>3 DEF Next

-----------------------------------------------------------------------------
\* The inductive invariant holds throughout.
THEOREM Invariance == Spec => []IInv
  BY InitEstablishes, NextPreserves, PTL DEF Spec

\* However calls of get_or_create interleave and fail, at most one multiplexer
\* is made for a local address.
THEOREM SingleMux == Spec => []OneMux
  <1>1. IInv => OneMux
    BY DEF IInv, EntryIsMux, OneMux
  <1>. QED  BY Invariance, <1>1, PTL

\* The table of the multiplexer holds no callback of a destroyed peer socket, and the
\* callback of every peer socket that no other one has evicted.
THEOREM CallbacksLive == Spec => []Registrations
  <1>1. IInv => Registrations
    BY DEF IInv
  <1>. QED  BY Invariance, <1>1, PTL

\* What was looked up for a peer socket reaches recv() once each and in order.
THEOREM NoneOvertaken == Spec => []RoutedInOrder
  <1>1. IInv => RoutedInOrder
    BY DEF IInv
  <1>. QED  BY Invariance, <1>1, PTL
=============================================================================
