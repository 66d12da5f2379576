------------------------------- MODULE Dgram --------------------------------
(***************************************************************************)
(* dgram_impl (src/high/dgram.cpp) and its claimed peers, dgram_peer_impl  *)
(* (src/high/dgram_peer_impl.hpp): receiving in batches, routing of        *)
(* datagrams to the handle or to a peer, pause and resume, claim and       *)
(* relinquish.  demux says who tells peers apart: the kernel, by connected *)
(* sockets (Linux, macOS), or the parent's receive loop (Windows).         *)
(* Datagrams are numbered.  Submitting to a serial queue is what counts as *)
(* delivery: SerialQueue shows that what is submitted is called, once and  *)
(* in order.  Posts are a FIFO, as PostsInOrder of EventLoop shows.        *)
(***************************************************************************)
EXTENDS Integers, Sequences, FiniteSets, SequencesExt

CONSTANTS Addrs,      \* addresses of peers
          Peers,      \* peer handles, each claimed at most once
          Fds,        \* descriptors for peer sockets
          BatchSize,  \* recv_batch_size
          MaxIterations, \* of handle_readable, 8 in the code
          Scenarios,  \* which peers are claimed for which address, and bounds on
                      \* arrivals, on calls of the handle and on failed reads
          None

ASSUME DgramAssumption ==
    /\ BatchSize \in Nat \ {0} /\ MaxIterations \in Nat \ {0}
    /\ None \notin Addrs \cup Peers \cup Fds
    /\ \A s \in Scenarios : s.addr \in [Peers -> Addrs \cup {None}]

VARIABLES limits,    \* the scenario
          demux,     \* "kernel" or "parent"
          mode,      \* which of on_data_cb, on_data_batch_cb is set
          armed, paused, \* flags of the handle
          registered,\* the dispatcher has readable interest for the parent socket
          moves,     \* calls of on_data, pause and resume so far
          posts,     \* posts to the loop
          peer,      \* [peer -> its address, where its life stands, on_data set, socket]
          claimed,   \* claimed_peers: [address -> peer or None]
          sock,      \* [descriptor -> the peer whose socket it is, or None]
          reg,       \* [descriptor -> the peer whose callback is registered, or None]
          parentQ,   \* the kernel's queue of the parent socket
          peerQ,     \* [descriptor -> the kernel's queue of that socket]
          arrived,   \* number of datagrams so far
          loop,      \* where the loop thread is
          iter,      \* iter of handle_readable
          batch,     \* batch_entries
          bulk,      \* the batch goes to on_data_batch_cb
          at,        \* the entry, or the peer, it works on
          kept,      \* history: the entries of the first pass that are not a peer's
          msgs,      \* shared_msgs as the second pass fills it
          errors,    \* errors given to on_error_cb so far
          got,       \* history: [receiver -> numbers delivered, in order]
          dropped,   \* history: datagrams delivered to nobody
          raced,     \* history: datagrams whose peer was relinquished between or in the passes
          overrun,   \* history: datagrams the second pass wrote outside its buffers
          hijacked   \* history: peers whose descriptor was registered for another

handleVars == <<mode, armed, paused, moves>>
peerVars == <<peer, claimed, sock, reg>>
netVars == <<parentQ, peerQ, arrived>>
readVars == <<loop, iter, batch, bulk, at, kept, msgs, errors>>
histVars == <<got, dropped, raced, overrun>>
vars == <<limits, demux, handleVars, registered, posts, peerVars, netVars, readVars, histVars,
          hijacked>>

Init ==
    /\ limits \in Scenarios
    /\ demux \in {"kernel", "parent"}
    /\ mode = "none" /\ armed = FALSE /\ paused = FALSE /\ registered = FALSE /\ moves = 0
    /\ posts = <<>>
    /\ peer = [p \in Peers |-> [addr |-> limits.addr[p], life |-> "new", cb |-> FALSE, fd |-> None]]
    /\ claimed = [a \in Addrs |-> None]
    /\ sock = [fd \in Fds |-> None] /\ reg = [fd \in Fds |-> None]
    /\ parentQ = <<>> /\ peerQ = [fd \in Fds |-> <<>>] /\ arrived = 0
    /\ loop = "idle" /\ iter = 0 /\ batch = <<>> /\ bulk = FALSE /\ at = None
    /\ kept = {} /\ msgs = <<>> /\ errors = 0
    /\ got = [r \in Peers \cup {"main"} |-> <<>>]
    /\ dropped = {} /\ raced = {} /\ overrun = {} /\ hijacked = {}

Post(p) == posts' = Append(posts, p)
Call(op, p) == [op |-> op, peer |-> p]

-----------------------------------------------------------------------------
(* The thread that controls the handle *)

\* on_data and on_data_batch: the other handler is cleared; arm posts once.
OnData(m) ==
    /\ moves < limits.moves /\ mode # m
    /\ mode' = m /\ armed' = TRUE /\ moves' = moves + 1
    /\ IF armed THEN UNCHANGED posts ELSE Post(Call("add", None))
    /\ UNCHANGED <<limits, demux, paused, registered, peerVars, netVars, readVars, histVars,
                   hijacked>>

\* do_pause and do_resume return at once when nothing is armed.
Pause ==
    /\ moves < limits.moves /\ armed
    /\ paused' = TRUE /\ moves' = moves + 1
    /\ Post(Call("pause", None))
    /\ UNCHANGED <<limits, demux, mode, armed, registered, peerVars, netVars, readVars,
                   histVars, hijacked>>

\* A mutant of Resume: nothing is posted when the socket was never paused or is
\* about to be, judged by the registration instead of the flag.
ResumeByRegistration ==
    /\ moves < limits.moves /\ armed
    /\ paused' = FALSE /\ moves' = moves + 1
    /\ IF registered THEN UNCHANGED posts ELSE Post(Call("resume", None))
    /\ UNCHANGED <<limits, demux, mode, armed, registered, peerVars, netVars, readVars,
                   histVars, hijacked>>

Resume ==
    /\ moves < limits.moves /\ armed
    /\ paused' = FALSE /\ moves' = moves + 1
    /\ Post(Call("resume", None))
    /\ UNCHANGED <<limits, demux, mode, armed, registered, peerVars, netVars, readVars,
                   histVars, hijacked>>

-----------------------------------------------------------------------------
(* The owners of peers, one thread each *)

\* do_claim posts execute_claim and waits for its future.
Claim(p) ==
    /\ peer[p].life = "new" /\ peer[p].addr # None
    /\ peer' = [peer EXCEPT ![p].life = "claiming"]
    /\ Post(Call("claim", p))
    /\ UNCHANGED <<limits, demux, handleVars, registered, claimed, sock, reg, netVars,
                   readVars, histVars, hijacked>>


\* After the future the peer is armed: the registration is posted.
ClaimReturns(p) ==
    /\ peer[p].life = "claimed"
    /\ peer' = [peer EXCEPT ![p].life = "open"]
    /\ IF demux = "kernel" THEN Post(Call("addPeer", p)) ELSE UNCHANGED posts
    /\ UNCHANGED <<limits, demux, handleVars, registered, claimed, sock, reg, netVars,
                   readVars, histVars, hijacked>>

PeerOnData(p) ==
    /\ peer[p].life = "open" /\ ~peer[p].cb
    /\ peer' = [peer EXCEPT ![p].cb = TRUE]
    /\ UNCHANGED <<limits, demux, handleVars, registered, posts, claimed, sock, reg, netVars,
                   readVars, histVars, hijacked>>

\* relinquish, or the destructor of the handle: open_ becomes false ...
Relinquish(p) ==
    /\ peer[p].life = "open"
    /\ peer' = [peer EXCEPT ![p].life = IF demux = "kernel" THEN "closing" ELSE "closed"]
    /\ UNCHANGED <<limits, demux, handleVars, registered, posts, claimed, sock, reg, netVars,
                   readVars, histVars, hijacked>>

\* ... and the socket is removed from the dispatcher and closed, on this thread.
RelinquishCloses(p) ==
    LET fd == peer[p].fd
    IN /\ peer[p].life = "closing"
       /\ peer' = [peer EXCEPT ![p].life = "closed"]
       /\ sock' = [sock EXCEPT ![fd] = None]
       /\ reg' = [reg EXCEPT ![fd] = None]
       /\ peerQ' = [peerQ EXCEPT ![fd] = <<>>]
       /\ dropped' = dropped \cup ToSet(peerQ[fd])
       /\ UNCHANGED <<limits, demux, handleVars, registered, posts, claimed, parentQ, arrived,
                      readVars, got, raced, overrun, hijacked>>

-----------------------------------------------------------------------------
(* The kernel *)

\* A datagram goes to the socket connected to its sender, else to the parent's.
Arrive(a) ==
    LET d == [n |-> arrived + 1, from |-> a]
        to == {fd \in Fds : sock[fd] # None /\ peer[sock[fd]].addr = a}
    IN /\ arrived < limits.datagrams
       /\ arrived' = arrived + 1
       /\ IF to = {}
          THEN parentQ' = Append(parentQ, d) /\ UNCHANGED peerQ
          ELSE /\ \E fd \in to : peerQ' = [peerQ EXCEPT ![fd] = Append(@, d)]
               /\ UNCHANGED parentQ
       /\ UNCHANGED <<limits, demux, handleVars, registered, posts, peerVars, readVars,
                      histVars, hijacked>>

-----------------------------------------------------------------------------
(* The loop thread: posts *)

Executes(op, p) ==
    /\ loop = "idle" /\ posts # <<>> /\ Head(posts) = Call(op, p)
    /\ posts' = Tail(posts)
    /\ UNCHANGED <<limits, demux, handleVars, netVars, readVars, histVars>>

\* add in arm and resume, remove in pause (modify on Windows).
ExecuteInterest(op) ==
    /\ Executes(op, None)
    /\ registered' = (op # "pause")
    /\ UNCHANGED <<peerVars, hijacked>>

\* execute_claim looks for an entry; one of a relinquished peer stays until the
\* next datagram.
Claimable(a) == claimed[a] = None

\* execute_claim: a connected socket where the kernel tells peers apart, if there
\* is a descriptor, and the entry in the map.
ExecuteClaim(p) ==
    LET a == peer[p].addr
        free == {fd \in Fds : sock[fd] = None}
    IN /\ Executes("claim", p)
       /\ IF ~Claimable(a) \/ (demux = "kernel" /\ free = {})
          THEN /\ peer' = [peer EXCEPT ![p].life = "refused"]
               /\ UNCHANGED <<claimed, sock>>
          ELSE /\ claimed' = [claimed EXCEPT ![a] = p]
               /\ IF demux = "parent"
                  THEN peer' = [peer EXCEPT ![p].life = "claimed"] /\ UNCHANGED sock
                  ELSE \E fd \in free :
                         /\ peer' = [peer EXCEPT ![p].life = "claimed", ![p].fd = fd]
                         /\ sock' = [sock EXCEPT ![fd] = p]
       /\ UNCHANGED <<registered, reg, hijacked>>

\* The add of a peer's arm: its descriptor may have been closed meanwhile, or be
\* another peer's by now; a descriptor that is registered stays as it is.
ExecuteAddPeer(p) ==
    LET fd == peer[p].fd
    IN /\ Executes("addPeer", p)
       /\ reg' = IF sock[fd] = None \/ reg[fd] # None THEN reg ELSE [reg EXCEPT ![fd] = p]
       /\ hijacked' = IF sock[fd] = None \/ reg'[fd] = sock[fd] THEN hijacked
                      ELSE hijacked \cup {sock[fd]}
       /\ UNCHANGED <<registered, peer, claimed, sock>>

-----------------------------------------------------------------------------
(* The loop thread: handle_readable of the parent *)

Unread == UNCHANGED <<limits, demux, handleVars, registered, posts, hijacked>>

Deliver(r, n) == got' = [got EXCEPT ![r] = Append(@, n)]

Readable ==
    /\ loop = "idle" /\ registered /\ parentQ # <<>>
    /\ loop' = "recv" /\ iter' = 1
    /\ UNCHANGED <<batch, bulk, at, kept, msgs, errors, peerVars, netVars, histVars>> /\ Unread

\* How many datagrams recv_batch returns.
Taken == IF Len(parentQ) < BatchSize THEN Len(parentQ) ELSE BatchSize

\* recv_batch fails with another error than would_block: on_error_cb is told and
\* the loop ends.
RecvFails ==
    /\ loop = "recv" /\ errors < limits.errors
    /\ errors' = errors + 1
    /\ loop' = "idle"
    /\ UNCHANGED <<iter, batch, bulk, at, kept, msgs, peerVars, netVars, histVars>> /\ Unread

\* recv_batch; an empty queue (would_block) ends the loop.
RecvBatch ==
    LET n == Taken
    IN /\ loop = "recv"
       /\ batch' = SubSeq(parentQ, 1, n)
       /\ parentQ' = SubSeq(parentQ, n + 1, Len(parentQ))
       /\ loop' = IF n = 0 THEN "idle" ELSE "first"
       /\ at' = IF n = 0 THEN None ELSE 1
       /\ bulk' = (mode = "batch" /\ n > 0) /\ kept' = {} /\ msgs' = <<>>
       /\ UNCHANGED <<iter, errors, peerVars, peerQ, arrived, histVars>> /\ Unread

IsOpen(p) == peer[p].life \in {"claiming", "claimed", "open"}

\* The entry in hand and where the map sends it.
Entry == batch[at]
Owner == claimed[Entry.from]

\* A mutant of LazyCleanup: the entry is erased whether its peer is open or not.
LazyCleanupAlways == Owner # None

\* The entry of a relinquished peer is erased.
LazyCleanup == Owner # None /\ ~IsOpen(Owner)

\* An entry of the single handler, or of the first pass of the batch handler, that
\* belongs to the handle.
Keep ==
    /\ loop = "first" /\ at <= Len(batch)
    /\ Owner = None \/ LazyCleanup
    /\ claimed' = [claimed EXCEPT ![Entry.from] = None]
    /\ IF bulk THEN kept' = kept \cup {at} /\ UNCHANGED got
                         ELSE UNCHANGED kept /\ Deliver("main", Entry.n)
    /\ at' = at + 1
    /\ UNCHANGED <<loop, iter, batch, bulk, msgs, errors, peer, sock, reg, netVars, dropped,
                   raced, overrun>> /\ Unread

\* A mutant of Forward: a straggler is passed over although nobody else gets it.
ForwardNobody ==
    /\ loop = "first" /\ at <= Len(batch)
    /\ Owner # None /\ ~LazyCleanup
    /\ at' = at + 1
    /\ UNCHANGED <<loop, iter, batch, bulk, kept, msgs, errors, peerVars, netVars, histVars>>
    /\ Unread

\* An entry of an open peer: the kernel's stragglers are dropped, else it is
\* handed to the peer.
Forward ==
    /\ loop = "first" /\ at <= Len(batch)
    /\ Owner # None /\ ~LazyCleanup
    /\ IF demux = "kernel"
       THEN dropped' = dropped \cup {Entry} /\ at' = at + 1 /\ UNCHANGED loop
       ELSE loop' = "deliver" /\ UNCHANGED <<dropped, at>>
    /\ UNCHANGED <<iter, batch, bulk, kept, msgs, errors, peerVars, netVars, got, raced,
                   overrun>> /\ Unread

\* deliver_data: the peer may have been relinquished since, or have no handler.
Takes(p) == IsOpen(p) /\ peer[p].cb

DeliverData ==
    /\ loop = "deliver"
    /\ IF Takes(Owner) THEN Deliver(Owner, Entry.n) /\ UNCHANGED dropped
                       ELSE UNCHANGED got /\ dropped' = dropped \cup {Entry}
    /\ loop' = "first" /\ at' = at + 1
    /\ UNCHANGED <<iter, batch, bulk, kept, msgs, errors, peerVars, netVars, raced, overrun>>
    /\ Unread

More == Len(batch) = BatchSize /\ iter < MaxIterations

\* The next iteration unless the batch was short or it was the last.
BatchEnds ==
    /\ IF More THEN loop' = "recv" /\ iter' = iter + 1 ELSE loop' = "idle" /\ iter' = 0
    /\ batch' = <<>> /\ bulk' = FALSE /\ at' = None /\ kept' = {} /\ msgs' = <<>>

FirstPassEnds ==
    /\ loop = "first" /\ at > Len(batch)
    /\ IF kept = {} THEN BatchEnds
       ELSE loop' = "second" /\ at' = 1 /\ UNCHANGED <<iter, batch, bulk, kept, msgs>>
    /\ UNCHANGED <<errors, peerVars, netVars, histVars>> /\ Unread

Excluded == Owner # None /\ IsOpen(Owner)

\* The buffers of the second pass are as long as the first pass found.
Room == Len(msgs) < Cardinality(kept)

\* The second pass decides again which entries are a peer's.  One that does not
\* fit is written outside shared_msgs (and its bytes, or those of one before it,
\* outside shared_buf), which is undefined: here nobody else's memory is hit.
SecondPass ==
    /\ loop = "second" /\ at <= Len(batch)
    /\ IF Excluded THEN UNCHANGED <<msgs, raced, overrun>>
       ELSE /\ msgs' = IF Room THEN Append(msgs, Entry.n) ELSE msgs
            /\ overrun' = IF Room THEN overrun ELSE overrun \cup {Entry.n}
            /\ raced' = IF at \in kept THEN raced ELSE raced \cup {Entry.n}
    /\ at' = at + 1
    /\ UNCHANGED <<loop, iter, batch, bulk, kept, errors, peerVars, netVars, got, dropped>>
    /\ Unread

\* The span of on_data_batch_cb is shared_msgs.
SecondPassEnds ==
    /\ loop = "second" /\ at > Len(batch)
    /\ got' = [got EXCEPT !["main"] = @ \o msgs]
    /\ BatchEnds
    /\ UNCHANGED <<errors, peerVars, netVars, dropped, raced, overrun>> /\ Unread

-----------------------------------------------------------------------------
(* The loop thread: handle_readable of a peer *)

\* The callback of p reads p's own socket, whichever descriptor was ready; when
\* that is closed the read fails and the callback returns.
PeerReadable(fd) ==
    /\ loop = "idle" /\ reg[fd] # None /\ peerQ[fd] # <<>>
    /\ sock[fd] = reg[fd]
    /\ loop' = "peer" /\ at' = fd
    /\ UNCHANGED <<iter, batch, bulk, kept, msgs, errors, peerVars, netVars, histVars>> /\ Unread

\* One datagram after the other until would_block or the socket is closed.
PeerRecv ==
    /\ loop = "peer" /\ peerQ[at] # <<>> /\ sock[at] = reg[at]
    /\ LET p == sock[at]
           d == Head(peerQ[at])
       IN IF Takes(p) THEN Deliver(p, d.n) /\ UNCHANGED dropped
                      ELSE UNCHANGED got /\ dropped' = dropped \cup {d}
    /\ peerQ' = [peerQ EXCEPT ![at] = Tail(@)]
    /\ UNCHANGED <<readVars, peerVars, parentQ, arrived, raced, overrun>> /\ Unread

PeerDrained ==
    /\ loop = "peer" /\ (peerQ[at] = <<>> \/ sock[at] # reg[at])
    /\ loop' = "idle" /\ at' = None
    /\ UNCHANGED <<iter, batch, bulk, kept, msgs, errors, peerVars, netVars, histVars>> /\ Unread

-----------------------------------------------------------------------------
Owners(p) ==
    Claim(p) \/ ClaimReturns(p) \/ PeerOnData(p) \/ Relinquish(p) \/ RelinquishCloses(p)

LoopStep ==
    \/ \E op \in {"add", "pause", "resume"} : ExecuteInterest(op)
    \/ \E p \in Peers : ExecuteClaim(p) \/ ExecuteAddPeer(p)
    \/ Readable \/ RecvFails \/ RecvBatch \/ Keep \/ Forward \/ DeliverData
    \/ FirstPassEnds \/ SecondPass \/ SecondPassEnds
    \/ \E fd \in Fds : PeerReadable(fd)
    \/ PeerRecv \/ PeerDrained

Next ==
    \/ \E m \in {"single", "batch"} : OnData(m)
    \/ Pause \/ Resume
    \/ \E p \in Peers : Owners(p)
    \/ \E a \in Addrs : Arrive(a)
    \/ LoopStep

\* The loop thread runs; a thread in claim or relinquish goes on.
Fairness ==
    /\ WF_vars(LoopStep)
    /\ \A p \in Peers : WF_vars(ClaimReturns(p)) /\ WF_vars(RelinquishCloses(p))

Spec == Init /\ [][Next]_vars /\ Fairness

-----------------------------------------------------------------------------
(* Properties *)

\* A handle that claim() returned stays the owner of its address until it is
\* relinquished: no cleanup and no other claim takes the entry away.
OpenPeerIsClaimed ==
    \A p \in Peers : peer[p].life \in {"claimed", "open"} => claimed[peer[p].addr] = p

Numbers(r) == ToSet(got[r])

\* Every datagram that arrived is in a queue, in the batch in hand, delivered, or
\* dropped, and none is dropped whose sender nobody has claimed.  It is delivered
\* once, to the handle or to a peer, and each of them sees its datagrams in the
\* order in which they arrived.  The exception is a batch with a peer that is
\* relinquished between or in the two passes: its datagram may be delivered twice,
\* and for each such datagram one more, perhaps the handle's own, is written
\* outside the buffers of dgram.cpp:246-247 and is not in the span.
DatagramsAccounted ==
    LET queued == {d.n : d \in ToSet(parentQ) \cup UNION {ToSet(peerQ[fd]) : fd \in Fds}}
        inHand == {batch[i].n : i \in 1..Len(batch)}
        lost == {d.n : d \in dropped}
    IN /\ 1..arrived = queued \cup inHand \cup lost \cup overrun
                         \cup UNION {Numbers(r) : r \in DOMAIN got}
       /\ \A d \in dropped : \E p \in Peers :
             peer[p].addr = d.from /\ peer[p].life \notin {"new", "refused"}
       /\ \A r, q \in DOMAIN got : r # q => Numbers(r) \cap Numbers(q) \subseteq raced
       /\ Cardinality(overrun) <= Cardinality(raced)
       /\ \A r \in DOMAIN got : \A i, j \in 1..Len(got[r]) : i < j => got[r][i] < got[r][j]

\* Between calls and with all posts done, the parent socket is read exactly when
\* on_data was called and the last of pause and resume was not a pause.
PauseSettles ==
    (\A i \in 1..Len(posts) : posts[i].op \notin {"add", "pause", "resume"})
        => registered = (armed /\ ~paused)

\* An open peer has a datagram in its socket.
HasMail(p) == peer[p].life = "open" /\ peer[p].fd # None /\ peerQ[peer[p].fd] # <<>>

=============================================================================
