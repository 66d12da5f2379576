-------------------------------- MODULE Iocp --------------------------------
(***************************************************************************)
(* iocp_dispatcher (src/event/iocp.cpp): readiness callbacks made out of   *)
(* completions.  A stream socket has a zero-byte receive and a zero-byte   *)
(* send in flight, a datagram socket a few receives with buffers, and a    *)
(* listener is polled.  Each operation is known to the kernel by the       *)
(* address of its OVERLAPPED, which is here the address of the             *)
(* per_socket_state and the name of the operation in it; an address may be *)
(* reused once its state is destroyed, with packets of the old one still   *)
(* on their way.  The loop thread alone uses the dispatcher; a callback    *)
(* may call any method.                                                    *)
(***************************************************************************)
EXTENDS Integers, Sequences, FiniteSets, SequencesExt

CONSTANTS Fds,        \* socket handles
          Scenarios,  \* kinds of the sockets, addresses, timers and interests in use, and
                      \* bounds on the calls of add, on what arrives and on failed armings
          Addrs,      \* addresses of per_socket_state
          Slots,      \* recv_slots
          Timers, Repeating, \* timer ids, each used once; the repeating ones
          Budget,     \* how many datagrams a callback retrieves
          None

VARIABLES limits,    \* the scenario
          kind,      \* [fd -> kind of socket: "stream", "dgram", "listener" or "none"]
          states,    \* [fd -> its per_socket_state or None]
          ops,       \* operations the kernel holds
          port,      \* the completion port: a queue of packets
          timers,    \* [id -> "new", "set", "gone" or "cancelled"]; repeating ones stay set
          waiting,   \* [fd -> what has arrived and no operation has taken]
          arrived,   \* [fd -> how much has arrived so far]
          pc,        \* where the loop thread is
          batch,     \* the entries poll has yet to look at
          todo,      \* the rest of listener_fds, later dgram_ready
          cur,       \* the socket whose callback runs
          inCall,    \* a callback runs
          dispatched,\* poll_listeners has called somebody
          got,       \* history: [fd -> datagrams retrieved, in order]
          adds,      \* [fd -> number of calls of add]
          failed,    \* history: operations whose last arming failed
          faults,    \* number of armings that failed
          heldBack,  \* history: sockets whose datagrams were not all retrieved
          clobbered, \* history: operations armed while the kernel had them
          frames,    \* armings that wait for the callback they called, innermost first
          orphaned,  \* history: addresses whose state went away without a CancelIoEx, or
                     \* before an arming that had a reference to it was over
          recycled,  \* history: addresses used by more than one state
          fired      \* history: timers whose callback was called

sockVars == <<states, ops, failed, faults, clobbered, frames, orphaned>>
netVars == <<waiting, arrived>>
loopVars == <<pc, batch, todo, cur, inCall, dispatched>>
histVars == <<got, heldBack, recycled>>
vars == <<limits, kind, sockVars, port, timers, netVars, loopVars, histVars, adds, fired>>

\* The operations that an interest needs.
Wanted(fd, interest) ==
    CASE kind[fd] = "stream" -> interest
      [] kind[fd] = "dgram" -> IF "readable" \in interest THEN Slots ELSE {}
      [] kind[fd] = "listener" -> {}

Init ==
    /\ limits \in Scenarios /\ kind = limits.kind
    /\ states = [fd \in Fds |-> None]
    /\ ops = {} /\ port = <<>>
    /\ timers = [t \in Timers |-> "new"]
    /\ waiting = [fd \in Fds |-> <<>>] /\ arrived = [fd \in Fds |-> 0]
    /\ pc = "idle" /\ batch = <<>> /\ todo = <<>> /\ cur = None
    /\ inCall = FALSE /\ dispatched = FALSE
    /\ got = [fd \in Fds |-> <<>>]
    /\ adds = [fd \in Fds |-> 0]
    /\ failed = {} /\ faults = 0 /\ heldBack = {} /\ clobbered = {} /\ recycled = {}
    /\ fired = {} /\ frames = <<>> /\ orphaned = {}

-----------------------------------------------------------------------------
(* Arming *)

Op(fd, st, ov) == [fd |-> fd, addr |-> st.addr, ov |-> ov]

\* A mutant of Unarmed: an operation is armed again although it is pending.
UnarmedOrNot(st, ovs) == ovs

\* arm_read, arm_write and arm_recv_from return when the operation is pending.
Unarmed(st, ovs) == ovs \ st.pending

\* What an arming returns to: the callback that runs, and whether poll is the
\* caller, which looks at the interest of the state again for each operation.
Here == [inCall |-> inCall, cur |-> cur, poll |-> FALSE]
Poll == [inCall |-> FALSE, cur |-> None, poll |-> TRUE]

\* Arms the operations ovs of a state, reads before writes; those in errs fail at
\* once.  A datagram socket is not told.  A stream is, by its callback, before
\* the next operation is armed and before the method in hand, or poll, goes on.
Arm(fd, st, ovs, errs, back, outer) ==
    LET new == Unarmed(st, ovs)
        bad == new \cap errs
        calls == kind[fd] = "stream" /\ bad # {}
        later == IF calls /\ "readable" \in bad THEN {"writable"} ELSE {}
        good == new \ (bad \cup later)
    IN /\ states' = [states EXCEPT ![fd] = [st EXCEPT !.pending = @ \cup good]]
       /\ ops' = ops \cup {[op |-> Op(fd, st, ov), dead |-> FALSE] : ov \in good}
       /\ clobbered' = clobbered \cup {op \in {Op(fd, st, ov) : ov \in good} :
                                          \E o \in ops : o.op = op}
       /\ failed' = (failed \ {Op(fd, st, ov) : ov \in good}) \cup {Op(fd, st, ov) : ov \in bad}
       /\ faults' = faults + Cardinality(bad)
       /\ inCall' = IF calls THEN TRUE ELSE back.inCall
       /\ cur' = IF calls THEN fd ELSE back.cur
       /\ frames' = IF ~calls THEN outer
                    ELSE <<[addr |-> st.addr, rest |-> IF back.poll THEN later ELSE later \cap ovs,
                            back |-> back]>> \o outer

\* The armings that fail: of a stream one, after which its callback is called.
Errs(fd) ==
    {errs \in SUBSET Wanted(fd, {"readable", "writable"}) :
        /\ faults + Cardinality(errs) <= limits.faults
        /\ kind[fd] = "stream" => Cardinality(errs) <= 1}

\* The callback that was called out of an arming returns.  The rest is armed by
\* way of the reference to the state, which the callback may have destroyed, and
\* whose memory another state may have by now.  A use of freed memory is
\* undefined: here it says that the operation is pending, or the kernel gets it.
ErrorReturns ==
    LET f == Head(frames)
        owners == {fd \in Fds : states[fd] # None /\ states[fd].addr = f.addr}
    IN /\ frames # <<>>
       /\ IF f.rest # {} /\ owners # {}
          THEN /\ \E fd \in owners : \E errs \in Errs(fd) :
                    Arm(fd, states[fd],
                        Wanted(fd, IF f.back.poll THEN f.rest \cap states[fd].interest ELSE f.rest),
                        errs, f.back, Tail(frames))
               /\ UNCHANGED orphaned
          ELSE /\ frames' = Tail(frames) /\ inCall' = f.back.inCall /\ cur' = f.back.cur
               /\ orphaned' = IF owners = {} THEN orphaned \cup {f.addr} ELSE orphaned
               /\ \E given \in SUBSET f.rest :
                    ops' = ops \cup {[op |-> [fd |-> cur, addr |-> f.addr, ov |-> ov], dead |-> FALSE] :
                                       ov \in given}
               /\ UNCHANGED <<states, failed, faults, clobbered>>
       /\ UNCHANGED <<limits, kind, port, timers, netVars, pc, batch, todo, dispatched, histVars,
                      adds, fired>>

-----------------------------------------------------------------------------
(* Methods, called between polls or by a callback *)

Acts == pc = "idle" \/ inCall

Live == {states[fd].addr : fd \in {f \in Fds : states[f] # None}}

\* The kernel or a packet still names the address.
InUse(addr) == \/ \E o \in ops : o.op.addr = addr
               \/ \E e \in ToSet(port) \cup ToSet(batch) : e.addr = addr

\* add: a state that is there already is replaced, its operations stay in the
\* kernel.
Add(fd, interest) ==
    /\ Acts /\ adds[fd] < limits.adds
    /\ adds' = [adds EXCEPT ![fd] = @ + 1]
    /\ \E addr \in limits.addrs \ Live, errs \in Errs(fd) :
         /\ Arm(fd, [addr |-> addr, interest |-> interest, pending |-> {}, queue |-> <<>>,
                     notified |-> FALSE], Wanted(fd, interest), errs, Here, frames)
         /\ recycled' = IF InUse(addr) THEN recycled \cup {addr} ELSE recycled
    /\ heldBack' = heldBack \ {fd}
    /\ orphaned' = orphaned \cup (IF states[fd] = None THEN {} ELSE {states[fd].addr})
    /\ UNCHANGED <<limits, kind, port, timers, netVars, pc, batch, todo, dispatched, got, fired>>

\* What modify arms: the operations of the interests that are new.
NewlyWanted(fd, old, new) == Wanted(fd, new \ old)

Modify(fd, interest) ==
    /\ Acts /\ states[fd] # None /\ interest # states[fd].interest
    /\ \E errs \in Errs(fd) :
         Arm(fd, [states[fd] EXCEPT !.interest = interest],
             NewlyWanted(fd, states[fd].interest, interest), errs, Here, frames)
    /\ UNCHANGED <<limits, kind, orphaned, port, timers, netVars, pc, batch, todo, dispatched,
                   histVars, adds, fired>>

\* CancelIoEx: the operations are aborted, some time after the state is gone.
RemoveFd(fd) ==
    /\ Acts /\ states[fd] # None
    /\ states' = [states EXCEPT ![fd] = None]
    /\ ops' = {IF o.op.fd = fd THEN [o EXCEPT !.dead = TRUE] ELSE o : o \in ops}
    /\ failed' = {op \in failed : op.fd # fd}
    /\ heldBack' = heldBack \ {fd}
    /\ UNCHANGED <<limits, kind, port, timers, netVars, loopVars, got, recycled, adds, faults,
                   clobbered, frames, orphaned, fired>>

\* The owner of a stream or of a listener takes what is there.
Consume(fd) ==
    /\ inCall /\ cur = fd /\ kind[fd] # "dgram"
    /\ waiting[fd] # <<>>
    /\ waiting' = [waiting EXCEPT ![fd] = <<>>]
    /\ UNCHANGED <<limits, kind, sockVars, port, timers, arrived, loopVars, histVars, adds, fired>>

ScheduleTimer(t) ==
    /\ Acts /\ timers[t] = "new" /\ t \in limits.timers
    /\ timers' = [timers EXCEPT ![t] = "set"]
    /\ UNCHANGED <<limits, kind, sockVars, port, netVars, loopVars, histVars, adds, fired>>

CancelTimer(t) ==
    /\ Acts /\ timers[t] = "set"
    /\ timers' = [timers EXCEPT ![t] = "cancelled"]
    /\ UNCHANGED <<limits, kind, sockVars, port, netVars, loopVars, histVars, adds, fired>>

-----------------------------------------------------------------------------
(* The kernel and other threads *)

Packet(key, addr, ov, data) == [key |-> key, addr |-> addr, ov |-> ov, data |-> data]

Arrive(fd) ==
    /\ arrived[fd] < limits.arrivals
    /\ arrived' = [arrived EXCEPT ![fd] = @ + 1]
    /\ waiting' = [waiting EXCEPT ![fd] = Append(@, arrived[fd] + 1)]
    /\ UNCHANGED <<limits, kind, sockVars, port, timers, loopVars, histVars, adds, fired>>

\* An operation completes: aborted, with a datagram, or because it can.
Complete(o) ==
    LET fd == o.op.fd
        takes == kind[fd] = "dgram" /\ ~o.dead
    IN /\ o.dead \/ o.op.ov = "writable" \/ waiting[fd] # <<>>
       /\ ops' = ops \ {o}
       /\ port' = Append(port, Packet(fd, o.op.addr, o.op.ov, IF takes THEN Head(waiting[fd]) ELSE 0))
       /\ waiting' = IF takes THEN [waiting EXCEPT ![fd] = Tail(@)] ELSE waiting
       /\ UNCHANGED <<limits, kind, states, failed, faults, clobbered, frames, orphaned, timers,
                      arrived, loopVars, histVars, adds, fired>>

\* timer_callback on a thread of the system's pool.
TimerCallback(t) ==
    /\ timers[t] = "set"
    /\ \A i \in 1..Len(port) : port[i] # Packet("timer", None, t, 0)
    /\ t \notin Repeating => t \notin fired /\ Packet("timer", None, t, 0) \notin ToSet(batch)
    /\ port' = Append(port, Packet("timer", None, t, 0))
    /\ UNCHANGED <<limits, kind, sockVars, timers, netVars, loopVars, histVars, adds, fired>>

\* waker::wake by any thread; beside other packets it makes no difference.
Wake ==
    /\ port = <<>>
    /\ port' = <<Packet("waker", None, None, 0)>>
    /\ UNCHANGED <<limits, kind, sockVars, timers, netVars, loopVars, histVars, adds, fired>>

-----------------------------------------------------------------------------
(* poll *)

Polled(fd) == kind[fd] = "listener" /\ states[fd] # None

\* poll_listeners asks WSAPoll about every listener that wants connections.
PollListeners ==
    /\ pc = "idle"
    /\ todo' \in SetToSeqs({fd \in Fds : /\ Polled(fd) /\ "readable" \in states[fd].interest
                                         /\ waiting[fd] # <<>>})
    /\ pc' = "listeners" /\ dispatched' = FALSE
    /\ UNCHANGED <<limits, kind, sockVars, port, timers, netVars, batch, cur, inCall, histVars, adds, fired>>

\* The next listener that was ready, unless it has been removed.
CallListener ==
    /\ pc = "listeners" /\ todo # <<>>
    /\ todo' = Tail(todo)
    /\ LET hit == states[Head(todo)] # None
       IN /\ inCall' = hit /\ cur' = IF hit THEN Head(todo) ELSE None
          /\ dispatched' = (dispatched \/ hit)
    /\ UNCHANGED <<limits, kind, sockVars, port, timers, netVars, pc, batch, histVars, adds, fired>>

\* A mutant of Blocks: the wait is not shortened for listeners.
BlocksOverListeners == ~dispatched

\* The wait has no end when nobody was called and there is no listener; posts
\* end it through the waker.
Blocks == ~dispatched /\ \A fd \in Fds : ~Polled(fd)

GetQueued ==
    /\ pc = "listeners" /\ todo = <<>>
    /\ Blocks => port # <<>>
    /\ batch' = port /\ port' = <<>>
    /\ pc' = "entries" /\ inCall' = FALSE /\ cur' = None
    /\ UNCHANGED <<limits, kind, sockVars, timers, netVars, todo, dispatched, histVars, adds, fired>>

Entry(e) ==
    /\ pc = "entries" /\ batch # <<>> /\ e = Head(batch)
    /\ batch' = Tail(batch)

\* A mutant of TimerLives: the timer is not looked up in timer_infos_.
TimerLivesAlways(t) == TRUE

TimerLives(t) == timers[t] = "set"

\* dispatch_timer: a one-shot timer leaves the map before its callback runs.
DispatchTimer(e) ==
    /\ Entry(e) /\ e.key = "timer" /\ TimerLives(e.ov)
    /\ timers' = IF e.ov \in Repeating THEN timers ELSE [timers EXCEPT ![e.ov] = "gone"]
    /\ fired' = fired \cup {e.ov}
    /\ inCall' = TRUE /\ cur' = None
    /\ UNCHANGED <<limits, kind, sockVars, port, netVars, pc, todo, dispatched, histVars, adds>>

Matches(e) == states[e.key] # None /\ states[e.key].addr = e.addr

\* The waker, a cancelled timer, a socket that is gone, a stale datagram packet.
Skip(e) ==
    /\ Entry(e)
    /\ \/ e.key = "waker"
       \/ e.key = "timer" /\ ~TimerLives(e.ov)
       \/ /\ e.key \in Fds
          /\ states[e.key] = None \/ (kind[e.key] = "dgram" /\ ~Matches(e))
    /\ inCall' = FALSE /\ cur' = None
    /\ UNCHANGED <<limits, kind, sockVars, port, timers, netVars, pc, todo, dispatched, histVars, adds,
                   fired>>

Finished(st, ov) == st.pending \ {ov}

\* A mutant of Buffered: a datagram that comes in while reading is paused is dropped.
BufferedIfWanted(st, e) ==
    IF e.data # 0 /\ "readable" \in st.interest THEN Append(st.queue, e.data) ELSE st.queue

Buffered(st, e) == IF e.data # 0 THEN Append(st.queue, e.data) ELSE st.queue

\* A receive of a datagram socket: buffered, armed again, noted for notification.
DgramEntry(e) ==
    LET fd == e.key
        st == states[fd]
        s  == [st EXCEPT !.pending = Finished(st, e.ov), !.queue = Buffered(st, e), !.notified = TRUE]
    IN /\ Entry(e) /\ fd \in Fds /\ kind[fd] = "dgram" /\ Matches(e)
       /\ \E errs \in Errs(fd) :
             Arm(fd, s, IF "readable" \in st.interest THEN {e.ov} ELSE {}, errs, Poll, frames)
       /\ todo' = IF st.notified THEN todo ELSE Append(todo, fd)
       /\ UNCHANGED <<limits, kind, orphaned, port, timers, netVars, pc, dispatched, histVars, adds, fired>>

\* A stream operation: its callback, with no event when the packet is stale.
StreamEntry(e) ==
    LET fd == e.key
    IN /\ Entry(e) /\ fd \in Fds /\ kind[fd] = "stream" /\ states[fd] # None
       /\ states' = IF Matches(e) THEN [states EXCEPT ![fd].pending = Finished(states[fd], e.ov)] ELSE states
       /\ pc' = "rearm" /\ inCall' = TRUE /\ cur' = fd
       /\ UNCHANGED <<limits, kind, ops, failed, faults, clobbered, frames, orphaned, port, timers,
                      netVars, todo, dispatched, histVars, adds, fired>>

\* A mutant of RearmSet: only the read is armed again.
RearmSetReads(fd) == states[fd].interest \cap {"readable"}

RearmSet(fd) == states[fd].interest

\* After the callback the socket is looked up again and its interests armed.
Rearm ==
    /\ pc = "rearm"
    /\ pc' = "entries"
    /\ IF states[cur] = None THEN inCall' = FALSE /\ cur' = None /\ UNCHANGED sockVars
       ELSE /\ \E errs \in Errs(cur) : Arm(cur, states[cur], RearmSet(cur), errs, Poll, frames)
            /\ UNCHANGED orphaned
    /\ UNCHANGED <<limits, kind, port, timers, netVars, batch, todo, dispatched, histVars, adds, fired>>

EntriesDone ==
    /\ pc = "entries" /\ batch = <<>>
    /\ pc' = "notify" /\ inCall' = FALSE /\ cur' = None
    /\ UNCHANGED <<limits, kind, sockVars, port, timers, netVars, batch, todo, dispatched, histVars, adds,
                   fired>>

Unflagged(st) == [st EXCEPT !.notified = FALSE]

\* Phase B: one notification per datagram socket.  Its callback, handle_readable
\* of dgram, retrieves at most Budget datagrams with retrieve_dgram.
Notify ==
    LET fd == Head(todo)
        st == states[fd]
        calls == st # None /\ st.queue # <<>> /\ "readable" \in st.interest
        n == IF Len(st.queue) < Budget THEN Len(st.queue) ELSE Budget
    IN /\ pc = "notify" /\ todo # <<>>
       /\ todo' = Tail(todo)
       /\ inCall' = calls /\ cur' = IF calls THEN fd ELSE None
       /\ IF calls
          THEN /\ got' = [got EXCEPT ![fd] = @ \o SubSeq(st.queue, 1, n)]
               /\ states' = [states EXCEPT ![fd] =
                                [Unflagged(st) EXCEPT !.queue = SubSeq(@, n + 1, Len(@))]]
          ELSE /\ UNCHANGED got
               /\ states' = IF st = None THEN states ELSE [states EXCEPT ![fd] = Unflagged(st)]
       /\ heldBack' = IF states'[fd] # None /\ states'[fd].queue # <<>>
                      THEN heldBack \cup {fd} ELSE heldBack \ {fd}
       /\ UNCHANGED <<limits, kind, ops, failed, faults, clobbered, frames, orphaned, port, timers,
                      netVars, pc, batch, dispatched, recycled, adds, fired>>

PollReturns ==
    /\ pc = "notify" /\ todo = <<>>
    /\ pc' = "idle" /\ inCall' = FALSE /\ cur' = None
    /\ UNCHANGED <<limits, kind, sockVars, port, timers, netVars, batch, todo, dispatched, histVars, adds,
                   fired>>

-----------------------------------------------------------------------------
Interests(fd) ==
    SUBSET IF kind[fd] = "stream" THEN limits.interest ELSE {"readable"}

Uses(fd) ==
    \/ \E i \in Interests(fd) : Add(fd, i) \/ Modify(fd, i)
    \/ RemoveFd(fd) \/ Consume(fd)

PollStep ==
    \/ PollListeners \/ CallListener \/ GetQueued \/ Rearm \/ EntriesDone \/ Notify \/ PollReturns
    \/ \E e \in ToSet(batch) : Skip(e) \/ DispatchTimer(e) \/ DgramEntry(e) \/ StreamEntry(e)

LoopStep == ErrorReturns \/ (frames = <<>> /\ PollStep)

Next ==
    \/ \E fd \in {f \in Fds : kind[f] # "none"} : Uses(fd) \/ Arrive(fd)
    \/ \E t \in Timers : ScheduleTimer(t) \/ CancelTimer(t) \/ TimerCallback(t)
    \/ \E o \in ops : Complete(o)
    \/ Wake
    \/ LoopStep

\* The loop thread runs and callbacks return; the kernel completes what it can;
\* timers expire; the owner of a listener accepts in its callback.
Fairness ==
    /\ WF_vars(LoopStep)
    /\ WF_vars(\E o \in ops : Complete(o))
    /\ \A t \in Timers : WF_vars(TimerCallback(t))
    /\ \A fd \in Fds : SF_vars(Consume(fd))

Spec == Init /\ [][Next]_vars /\ Fairness

-----------------------------------------------------------------------------
(* Properties *)

\* Between polls every operation that a socket's interest needs is pending, after
\* any callbacks, pauses, removals and registrations, those inside the callback of
\* a failed arming included: the dispatcher will hear of the next event.  Except
\* those the kernel refused when they were last armed: a stream was told so by its
\* callback, a datagram socket was not, and its slot is not armed again by the next
\* poll as the comment at iocp.cpp:865 has it.
ArmedWhileInterested ==
    pc = "idle" /\ frames = <<>> => \A fd \in Fds : states[fd] # None =>
        \A ov \in Wanted(fd, states[fd].interest) :
            ov \in states[fd].pending \/ Op(fd, states[fd], ov) \in failed

\* An operation marked pending is in the kernel, or its packet is on its way, and
\* no OVERLAPPED is handed to the kernel twice, unless its memory was that of a
\* removed socket whose packets had not all come in.  Conversely the kernel holds
\* only operations that a live state has pending or that remove has cancelled,
\* unless that happened, or the state was replaced by a second add, or destroyed by
\* the callback of a failed arming, which goes on after it (iocp.cpp:226-227,
\* 475-476).
PendingIsInKernel ==
    /\ \A fd \in Fds : states[fd] # None =>
          \A ov \in states[fd].pending :
              \/ \E o \in ops : o.op = Op(fd, states[fd], ov)
              \/ \E e \in ToSet(port) \cup ToSet(batch) :
                    e.key = fd /\ e.addr = states[fd].addr /\ e.ov = ov
    /\ \A op \in clobbered : op.addr \in recycled
    /\ \A o \in ops : LET st == states[o.op.fd]
                      IN \/ o.dead \/ o.op.addr \in orphaned \cup recycled
                         \/ st # None /\ st.addr = o.op.addr /\ o.op.ov \in st.pending

\* Datagrams are retrieved in the order of their arrival and each once, and none
\* is lost between the kernel and the callback while the socket stays registered.
\* Between polls some are buffered only if their last notification was withheld
\* (reading was paused) or did not take them all.
DatagramsHandedOver ==
    \A fd \in Fds : kind[fd] = "dgram" =>
        LET onWay(s) == [i \in 1..Len(SelectSeq(s, LAMBDA e : e.key = fd /\ e.data # 0)) |->
                           SelectSeq(s, LAMBDA e : e.key = fd /\ e.data # 0)[i].data]
            queue == IF states[fd] = None THEN <<>> ELSE states[fd].queue
            all == got[fd] \o queue \o onWay(batch) \o onWay(port) \o waiting[fd]
        IN /\ \A i, j \in 1..Len(all) : i < j => all[i] < all[j]
           /\ adds[fd] <= 1 /\ (states[fd] # None \/ adds[fd] = 0) => Len(all) = arrived[fd]
           /\ pc = "idle" /\ queue # <<>> => fd \in heldBack

\* A scheduled timer fires unless it is cancelled, and after cancel_timer its
\* callback does not run, even when its packet was already in the completion port.
TimersFireOrCancel ==
    /\ \A t \in Timers : timers[t] = "set" ~> t \in fired \/ timers[t] = "cancelled"
    /\ [][\A t \in Timers : timers[t] = "cancelled" => (t \in fired' => t \in fired)]_vars

\* A listener with interest hears of its connections although nothing of it goes
\* through the completion port.
ListenerServed ==
    \A fd \in Fds : Polled(fd) /\ "readable" \in states[fd].interest /\ waiting[fd] # <<>>
        ~> states[fd] = None \/ "readable" \notin states[fd].interest \/ waiting[fd] = <<>>
=============================================================================
