------------------------------- MODULE UdpMux --------------------------------
(***************************************************************************)
(* Connected UDP sockets on Windows: udp4_peer_socket                      *)
(* (src/socket/udp_peer.cpp) over the multiplexer (src/socket/udp_mux.hpp).*)
(* All peers of one local address share a multiplexer with one socket and  *)
(* one thread, which takes a datagram, looks up the callback of its source *)
(* under mutex_ and calls it without.  The callback puts the datagram into *)
(* the queue of the peer socket, where recv() waits for it.                *)
(***************************************************************************)
EXTENDS Integers, Sequences, FiniteSets

CONSTANTS Users,        \* threads of the program, each of which creates one peer socket
          Peers,        \* remote addresses
          MaxDatagrams, \* bounds: datagrams,
          MaxFailures,  \* failures of system calls of the multiplexer
          Nobody

Datagrams == Peers \X Nat
Impls == [peer : Peers, queue : Seq(Datagrams)]

ASSUME MuxAssumption ==
    /\ Nobody \notin Users \cup Impls
    /\ {MaxDatagrams, MaxFailures} \subseteq Nat

VARIABLES pc,           \* [user -> where it is]
          registryLock, \* who holds registry_mutex_
          registry,     \* the entry of the local address: "none", "live" or "expired"
          muxes,        \* number of multiplexers that run
          impl,         \* [user -> the impl of its socket, peer and recv_queue, or Nobody]
          peers,        \* peers_: [peer -> the user whose callback it has, or Nobody]
          armed,        \* whether the overlapped receive is pending
          net,          \* datagrams in the socket, <<source, number>>
          current,      \* the datagram in recv_buf_ and whose callback was found for it
          deaf,         \* history: whether the receive could once not be armed
          counts,       \* numbers of failures and of datagrams
          got,          \* history: [user -> what recv() returned]
          routed,       \* history: [user -> datagrams whose lookup found its callback]
          evicted       \* history: users whose registration another one removed

createVars == <<registryLock, registry, muxes>>
peerVars == <<impl, peers, evicted>>
muxVars == <<armed, net, current, deaf, counts>>
history == <<got, routed>>
vars == <<pc, createVars, peerVars, muxVars, history>>

NoDatagram == [data |-> <<>>, to |-> Nobody]

Init ==
    /\ pc = [u \in Users |-> "new"]
    /\ registryLock = Nobody /\ registry = "none" /\ muxes = 0
    /\ impl = [u \in Users |-> Nobody]
    /\ peers = [p \in Peers |-> Nobody]
    /\ armed = FALSE /\ net = <<>> /\ current = NoDatagram /\ deaf = FALSE
    /\ counts = [failures |-> 0, datagrams |-> 0]
    /\ got = [u \in Users |-> <<>>]
    /\ routed = [u \in Users |-> <<>>]
    /\ evicted = {}

Live(u) == impl[u] # Nobody

Goto(u, from, to) == pc[u] = from /\ pc' = [pc EXCEPT ![u] = to]

Failing ==
    /\ counts.failures < MaxFailures
    /\ counts' = [counts EXCEPT !.failures = @ + 1]

-----------------------------------------------------------------------------
(* get_or_create *)

CallCreate(u) == Goto(u, "new", "create") /\ UNCHANGED <<createVars, peerVars, muxVars, history>>

AfterLock(u) == [pc EXCEPT ![u] = IF pc[u] = "create" THEN "lookup" ELSE "failed"]

\* A mutant of LockRegistry: no lock.
LockRegistryNot(u) ==
    /\ pc[u] \in {"create", "destructor"}
    /\ pc' = AfterLock(u)
    /\ UNCHANGED <<createVars, peerVars, muxVars, history>>

\* registry_mutex_ is taken by get_or_create, and by the destructor of a multiplexer,
\* which drops the expired entry.
LockRegistry(u) ==
    /\ pc[u] \in {"create", "destructor"} /\ registryLock = Nobody
    /\ registryLock' = u
    /\ pc' = AfterLock(u)
    /\ registry' = IF pc[u] = "destructor" /\ registry = "expired" THEN "none" ELSE registry
    /\ UNCHANGED <<muxes, peerVars, muxVars, history>>

\* A mutant of UseExisting: the early return keeps the lock.
UseExistingLocked(u) ==
    /\ Goto(u, "lookup", "register") /\ registry = "live"
    /\ UNCHANGED <<createVars, peerVars, muxVars, history>>

\* The weak pointer of the entry can be locked.
UseExisting(u) ==
    /\ Goto(u, "lookup", "register") /\ registry = "live"
    /\ registryLock' = Nobody
    /\ UNCHANGED <<registry, muxes, peerVars, muxVars, history>>

DropEntry(u) ==
    /\ Goto(u, "lookup", "make") /\ registry # "live"
    /\ registry' = "none"
    /\ UNCHANGED <<registryLock, muxes, peerVars, muxVars, history>>

\* Socket, options, bind or completion port fail.  The last reference to the new
\* multiplexer goes out of scope before the lock does, so its destructor runs with
\* registry_mutex_ held.  The late failures leave an expired entry behind.
MakeFails(u) ==
    /\ Goto(u, "make", "destructor") /\ Failing
    /\ registry' \in {"none", "expired"}
    /\ UNCHANGED <<registryLock, muxes, peerVars, armed, net, current, deaf, history>>

\* The thread is started with a reference of its own, so the entry stays live.
Made(u) ==
    /\ Goto(u, "make", "register")
    /\ muxes' = muxes + 1
    /\ registry' = "live"
    /\ registryLock' = Nobody

MakeMux(u) ==
    /\ Made(u)
    /\ armed' = TRUE
    /\ UNCHANGED <<peerVars, net, current, deaf, counts, history>>

\* The first receive cannot be armed, which get_or_create does not notice.
MakeDeaf(u) ==
    /\ Made(u) /\ Failing
    /\ deaf' = TRUE
    /\ UNCHANGED <<peerVars, net, armed, current, history>>

-----------------------------------------------------------------------------
(* The peer socket *)

\* register_peer with the callback of the new impl.
RegisterPeer(u, p) ==
    /\ Goto(u, "register", "idle") /\ peers[p] = Nobody
    /\ peers' = [peers EXCEPT ![p] = u]
    /\ impl' = [impl EXCEPT ![u] = [peer |-> p, queue |-> <<>>]]
    /\ UNCHANGED <<createVars, evicted, muxVars, history>>

\* A mutant of Deregistered: the entry stays.
DeregisteredNot(p) == peers

\* deregister_peer: by address, whoever registered it.
Deregistered(p) == [peers EXCEPT ![p] = Nobody]

\* already_bound: the destructor of the new impl deregisters the peer, which
\* removes the registration of the other socket.
RegisterFails(u, p) ==
    /\ Goto(u, "register", "failed") /\ peers[p] # Nobody
    /\ peers' = Deregistered(p)
    /\ evicted' = evicted \cup {peers[p]}
    /\ UNCHANGED <<createVars, impl, muxVars, history>>

\* create() returns an error; the scope of the lock ends if get_or_create failed.
CreateFails(u) ==
    /\ Goto(u, "failed", "done")
    /\ registryLock' = IF registryLock = u THEN Nobody ELSE registryLock
    /\ UNCHANGED <<registry, muxes, peerVars, muxVars, history>>

\* The destructor of the peer socket; no recv() of it is in progress.
DestroyPeer(u) ==
    /\ Goto(u, "idle", "done")
    /\ peers' = Deregistered(impl[u].peer)
    /\ evicted' = evicted \cup ({peers[impl[u].peer]} \ {Nobody, u})
    /\ impl' = [impl EXCEPT ![u] = Nobody]
    /\ UNCHANGED <<createVars, muxVars, history>>

CallRecv(u) == Goto(u, "idle", "recv") /\ UNCHANGED <<createVars, peerVars, muxVars, history>>

\* The wait ends when the queue is not empty.
RecvReturns(u) ==
    /\ Goto(u, "recv", "idle") /\ impl[u].queue # <<>>
    /\ got' = [got EXCEPT ![u] = Append(@, Head(impl[u].queue))]
    /\ impl' = [impl EXCEPT ![u].queue = Tail(@)]
    /\ UNCHANGED <<createVars, peers, evicted, muxVars, routed>>

-----------------------------------------------------------------------------
(* The thread of the multiplexer *)

Arrive(p) ==
    /\ muxes > 0 /\ counts.datagrams < MaxDatagrams
    /\ counts' = [counts EXCEPT !.datagrams = @ + 1]
    /\ net' = Append(net, <<p, counts.datagrams + 1>>)
    /\ UNCHANGED <<pc, createVars, peerVars, armed, current, deaf, history>>

Found(d) == peers[d[1]]

\* dispatch looks the callback up under mutex_.
Routed(d) ==
    IF Found(d) = Nobody THEN routed ELSE [routed EXCEPT ![Found(d)] = Append(@, d)]

\* A mutant of Dispatch: the receive is armed again before the callback is called.
DispatchArmed ==
    /\ armed /\ net # <<>>
    /\ net' = Tail(net)
    /\ current' = [data |-> Head(net), to |-> Found(Head(net))]
    /\ routed' = Routed(Head(net))
    /\ UNCHANGED <<pc, createVars, peerVars, armed, counts, deaf, got>>

\* The receive completes.
Dispatch ==
    /\ armed /\ net # <<>>
    /\ armed' = FALSE
    /\ net' = Tail(net)
    /\ current' = [data |-> Head(net), to |-> Found(Head(net))]
    /\ routed' = Routed(Head(net))
    /\ UNCHANGED <<pc, createVars, peerVars, counts, deaf, got>>

\* If the peer socket is gone its impl is gone too, and what the callback does to it is
\* not modelled.
Invoked ==
    LET u == current.to
    IN IF u = Nobody \/ ~Live(u) THEN impl
       ELSE [impl EXCEPT ![u].queue = Append(@, current.data)]

\* The callback, and then arm_overlapped_recv.
Invoke ==
    /\ current # NoDatagram
    /\ impl' = Invoked
    /\ current' = NoDatagram
    /\ armed' = TRUE
    /\ UNCHANGED <<pc, createVars, peers, evicted, net, counts, deaf, history>>

\* The same, but arming fails at once, and no completion will come.
InvokeLast ==
    /\ current # NoDatagram /\ Failing
    /\ impl' = Invoked
    /\ current' = NoDatagram
    /\ deaf' = TRUE
    /\ UNCHANGED <<pc, createVars, peers, evicted, net, armed, history>>

\* A completion that failed, or that brings an empty datagram, is not dispatched; the
\* receive is armed again, or that fails too.
CompletesEmpty ==
    /\ armed /\ Failing
    /\ UNCHANGED net \/ (net # <<>> /\ net' = Tail(net))
    /\ armed' \in BOOLEAN /\ deaf' = ~armed'
    /\ UNCHANGED <<pc, createVars, peerVars, current, history>>

-----------------------------------------------------------------------------
Mux == Dispatch \/ Invoke \/ InvokeLast

Creating(u) ==
    \/ LockRegistry(u) \/ UseExisting(u) \/ DropEntry(u) \/ MakeFails(u) \/ MakeMux(u)
    \/ MakeDeaf(u)
    \/ \E p \in Peers : RegisterPeer(u, p) \/ RegisterFails(u, p)

Next ==
    \/ Mux \/ CompletesEmpty
    \/ \E p \in Peers : Arrive(p)
    \/ \E u \in Users : \/ CallCreate(u) \/ Creating(u) \/ CreateFails(u)
                        \/ DestroyPeer(u) \/ CallRecv(u) \/ RecvReturns(u)

Spec == Init /\ [][Next]_vars

\* Threads go on; nothing is assumed of the network or of calls being made.
FairSpec ==
    /\ Spec
    /\ WF_vars(Mux)
    /\ \A u \in Users : WF_vars(Creating(u) \/ CreateFails(u) \/ RecvReturns(u))

-----------------------------------------------------------------------------
(* Properties *)

\* Types; nothing is received into a multiplexer that does not run.
TypeOK ==
    /\ pc \in [Users -> {"new", "create", "lookup", "make", "destructor", "failed", "register",
                        "idle", "recv", "done"}]
    /\ registryLock \in Users \cup {Nobody}
    /\ registry \in {"none", "live", "expired"}
    /\ muxes \in Nat
    /\ impl \in [Users -> Impls \cup {Nobody}]
    /\ peers \in [Peers -> Users \cup {Nobody}]
    /\ armed \in BOOLEAN
    /\ net \in Seq(Datagrams)
    /\ current \in [data : Datagrams \cup {<<>>}, to : Users \cup {Nobody}]
    /\ deaf \in BOOLEAN
    /\ counts \in [failures : Nat, datagrams : Nat]
    /\ got \in [Users -> Seq(Datagrams)]
    /\ routed \in [Users -> Seq(Datagrams)]
    /\ evicted \subseteq Users
    /\ armed => muxes > 0

\* However calls of create() interleave, one local address has one multiplexer: a second
\* one could not bind, and would leave its peers without datagrams.
OneMux == muxes <= 1

\* A callback that a lookup can find belongs to a peer socket that exists: the destructor
\* of the impl, which the callback points to, has removed it.
RegisteredIsLive == \A p \in Peers : peers[p] # Nobody => Live(peers[p]) /\ impl[peers[p]].peer = p

\* A peer socket stays registered until it is destroyed, unless another one was tried
\* for the same address.
LiveIsRegistered ==
    \A u \in Users \ evicted : Live(u) => peers[impl[u].peer] = u

\* The map of the multiplexer agrees with the peer sockets, both ways.
Registrations == RegisteredIsLive /\ LiveIsRegistered

\* What a peer socket has returned, what is in its queue and what is on its way to it are
\* the datagrams that were looked up for it, each once and in order: the one receive
\* buffer is not overwritten before the callback has copied it.
RoutedInOrder ==
    \A u \in Users : Live(u) =>
        routed[u] = got[u] \o impl[u].queue
                    \o (IF current.to = u THEN <<current.data>> ELSE <<>>)

\* The thread goes on after every datagram, also one of an unknown source or an empty
\* one, while the receive can be armed, at first and again; and calls of create() return although they exclude each
\* other, unless the multiplexer could not be made and its destructor waits for the
\* registry_mutex_ that its own thread holds ("or `nullptr` if socket creation
\* failed", udp_mux.hpp:107).
NobodyStuck ==
    /\ net # <<>> ~> net = <<>> \/ deaf
    /\ \A u \in Users : pc[u] = "create" ~>
          \/ pc[u] \in {"idle", "done"}
          \/ \E v \in Users : pc[v] = "destructor" /\ registryLock = v
=============================================================================
