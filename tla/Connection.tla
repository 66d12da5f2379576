---------------------------- MODULE Connection ------------------------------
(***************************************************************************)
(* One TCP connection: tcp_conn_impl of src/high/connection_engine.hpp with *)
(* the flow control of src/high/stream_connection_impl.hpp.  The posts to  *)
(* the event loop are a FIFO, which EventLoop shows it to be; the callbacks *)
(* of serial_ execute in order and one at a time, which SerialQueue shows. *)
(* A step is one post executed, one critical section of write_mutex_, one  *)
(* call of recv or send, or one access to an atomic flag.  Bytes handed to *)
(* send() are numbered in the order they are accepted.                     *)
(***************************************************************************)
EXTENDS Naturals, Sequences

CONSTANTS Users,           \* threads that use the connection
          Pausers,         \* those of them that pause and resume
          Sizes,           \* the lengths they send
          MaxWriteBuffer,  \* max_write_queue_bytes_
          MaxBytes,        \* bound: bytes accepted in all
          MaxCalls,        \* bound: calls the users make in all
          MaxReads         \* bound: receptions of data

ASSUME ConnectionAssumption ==
    /\ Pausers \subseteq Users
    /\ Sizes \subseteq Nat \ {0}
    /\ {MaxWriteBuffer, MaxBytes, MaxCalls, MaxReads} \subseteq Nat

VARIABLES phase,            \* the on_connect callback, a task of the pool
          handlers,         \* which of on_data_ and on_close_ are set
          closed,           \* closed_; the socket is closed with it
          registered,       \* the dispatcher has a callback for the socket
          interest,         \* the events it is registered for
          queue,            \* write_queue_
          queueBytes,       \* write_queue_bytes_
          writeRegistered,  \* write_registered_
          paused,           \* paused_
          posts,            \* what was posted to the loop for this connection
          loop,             \* "idle", or "drain" in drain_write_queue
          chunk,            \* what drain_write_queue holds and has not sent
          user,             \* [Users -> where it is in a call]
          calls,            \* calls made so far
          accepted,         \* history: how many bytes send() took
          wire,             \* history: the bytes given to the socket
          reopened,         \* history: reading interest came back without a resume
          submitted,        \* history: what was given to serial_
          started,          \* how many of them have started
          inCallback        \* whether one is executing

apiVars == <<handlers, paused, user, calls>>
writeVars == <<queue, queueBytes, writeRegistered, chunk, accepted, wire>>
ioVars == <<closed, registered, interest, loop, reopened>>
callbackVars == <<submitted, started, inCallback>>
vars == <<phase, posts, apiVars, writeVars, ioVars, callbackVars>>

Call(op, n) == [op |-> op, size |-> n]
Idle == Call("idle", 0)

Init ==
    /\ phase = "queued"
    /\ handlers = {}
    /\ closed = FALSE
    /\ registered = FALSE
    /\ interest = {}
    /\ queue = <<>>
    /\ queueBytes = 0
    /\ writeRegistered = FALSE
    /\ paused = FALSE
    /\ posts = <<>>
    /\ loop = "idle"
    /\ chunk = <<>>
    /\ user = [u \in Users |-> Idle]
    /\ calls = 0
    /\ accepted = 0
    /\ wire = <<>>
    /\ reopened = FALSE
    /\ submitted = <<>>
    /\ started = 0
    /\ inCallback = FALSE

-----------------------------------------------------------------------------
(* The task that arm_listen and arm_connect give to the pool: on_connect_cb, *)
(* in which the user sets handlers, then the wrapping of on_close_, then     *)
(* start_reading.                                                            *)

BeginOnConnect ==
    /\ phase = "queued"
    /\ phase' = "running"
    /\ UNCHANGED <<posts, apiVars, writeVars, ioVars, callbackVars>>

SetHandler(h) ==
    /\ phase = "running"
    /\ handlers' = handlers \cup {h}
    /\ UNCHANGED <<phase, posts, paused, user, calls, writeVars, ioVars, callbackVars>>

EndOnConnect ==
    /\ phase = "running"
    /\ phase' = "done"
    /\ handlers' = handlers \cup {"close"}
    /\ posts' = Append(posts, "start_reading")
    /\ UNCHANGED <<paused, user, calls, writeVars, ioVars, callbackVars>>

-----------------------------------------------------------------------------
(* enqueue_send, close_from_user, pause_from_user, resume_from_user: each    *)
(* returns at once on a closed connection.                                   *)

BeginCall(u, call) ==
    /\ phase # "queued" /\ ~closed
    /\ user[u] = Idle /\ calls < MaxCalls
    /\ user' = [user EXCEPT ![u] = call]
    /\ calls' = calls + 1

\* The test of closed_, before write_mutex_ is taken.
SendBegin(u, n) ==
    /\ BeginCall(u, Call("send", n))
    /\ UNCHANGED <<phase, posts, handlers, paused, writeVars, ioVars, callbackVars>>

NewBytes(n) == [i \in 1..n |-> accepted + i]

\* The critical section of a send that is accepted.
SendEnqueue(u) ==
    LET n == user[u].size IN
    /\ user[u].op = "send"
    /\ user' = [user EXCEPT ![u] = Idle]
    /\ queueBytes + n <= MaxWriteBuffer
    /\ accepted + n <= MaxBytes
    /\ queue' = Append(queue, NewBytes(n))
    /\ queueBytes' = queueBytes + n
    /\ accepted' = accepted + n
    /\ writeRegistered' = TRUE
    /\ posts' = IF writeRegistered THEN posts ELSE Append(posts, "register_writable")
    /\ UNCHANGED <<phase, handlers, paused, calls, chunk, wire, ioVars, callbackVars>>

\* The critical section of a send that returns false, or one past the bound.
SendRejected(u) ==
    LET n == user[u].size IN
    /\ user[u].op = "send"
    /\ queueBytes + n > MaxWriteBuffer \/ accepted + n > MaxBytes
    /\ user' = [user EXCEPT ![u] = Idle]
    /\ UNCHANGED <<phase, posts, handlers, paused, calls, writeVars, ioVars, callbackVars>>

CloseFromUser(u) ==
    /\ BeginCall(u, Idle)
    /\ posts' = Append(posts, "close")
    /\ UNCHANGED <<phase, handlers, paused, writeVars, ioVars, callbackVars>>

\* The store to paused_; the post is a step of its own.
FlowBegin(u, op) ==
    /\ BeginCall(u, Call(op, 0))
    /\ paused' = (op = "pause")
    /\ UNCHANGED <<phase, posts, handlers, writeVars, ioVars, callbackVars>>

FlowPost(u) ==
    /\ user[u].op \in {"pause", "resume"}
    /\ posts' = Append(posts, user[u].op)
    /\ user' = [user EXCEPT ![u] = Idle]
    /\ UNCHANGED <<phase, handlers, paused, calls, writeVars, ioVars, callbackVars>>

-----------------------------------------------------------------------------
(* on the event loop thread: initiate_close *)

\* A mutant of InitiateClose: closed_ is stored and not exchanged.
CloseNotOnce ==
    /\ closed' = TRUE
    /\ registered' = FALSE
    /\ interest' = {}
    /\ submitted' = IF "close" \in handlers THEN Append(submitted, "close") ELSE submitted
    /\ UNCHANGED reopened

InitiateClose ==
    /\ closed' = TRUE
    /\ registered' = FALSE
    /\ interest' = {}
    /\ submitted' = IF ~closed /\ "close" \in handlers THEN Append(submitted, "close")
                    ELSE submitted
    /\ UNCHANGED reopened

-----------------------------------------------------------------------------
(* on the event loop thread: the posts, in order *)

RunPost(post) ==
    /\ loop = "idle"
    /\ posts # <<>> /\ Head(posts) = post
    /\ posts' = Tail(posts)
    /\ UNCHANGED <<phase, apiVars, writeVars, loop, started, inCallback>>

\* modify fails on a socket that is not in the dispatcher.
Modify(events) == interest' = IF registered THEN events ELSE interest

WantsWrite == IF writeRegistered THEN {"writable"} ELSE {}

\* A mutant of RunStartReading: data queued during on_connect is overlooked.
RunStartReadingOnly ==
    /\ RunPost("start_reading")
    /\ registered' = ~closed
    /\ interest' = IF closed THEN {} ELSE {"readable"}
    /\ reopened' = TRUE
    /\ UNCHANGED <<closed, submitted>>

\* add fails when the socket is already closed.
RunStartReading ==
    /\ RunPost("start_reading")
    /\ registered' = ~closed
    /\ interest' = IF closed THEN {}
                   ELSE {"readable"} \cup (IF queue # <<>> THEN {"writable"} ELSE {})
    /\ reopened' = TRUE
    /\ UNCHANGED <<closed, submitted>>

RunRegisterWritable ==
    /\ RunPost("register_writable")
    /\ Modify({"readable", "writable"})
    /\ reopened' = TRUE
    /\ UNCHANGED <<closed, registered, submitted>>

RunClose == RunPost("close") /\ InitiateClose

\* A mutant of RunPause: with data to flush, the registration is left whole.
RunPauseNotWriting ==
    /\ RunPost("pause")
    /\ Modify(IF writeRegistered THEN {"readable", "writable"} ELSE {})
    /\ reopened' = FALSE
    /\ UNCHANGED <<closed, registered, submitted>>

RunPause ==
    /\ RunPost("pause")
    /\ Modify(WantsWrite)
    /\ reopened' = FALSE
    /\ UNCHANGED <<closed, registered, submitted>>

RunResume ==
    /\ RunPost("resume")
    /\ Modify({"readable"} \cup WantsWrite)
    /\ UNCHANGED <<closed, registered, reopened, submitted>>

-----------------------------------------------------------------------------
(* on the event loop thread: on_io_event, for a registered socket *)

\* error or hangup, which are reported whatever the interest is; or recv
\* returns 0 or an error.
IoClose ==
    /\ loop = "idle" /\ registered
    /\ InitiateClose
    /\ UNCHANGED <<phase, posts, apiVars, writeVars, loop, started, inCallback>>

Reads == Len(SelectSeq(submitted, LAMBDA c : c = "data"))

\* recv returns data; the same event may be writable too.
IoReadable ==
    /\ loop = "idle" /\ registered /\ "readable" \in interest
    /\ Reads < MaxReads
    /\ submitted' = IF "data" \in handlers THEN Append(submitted, "data") ELSE submitted
    /\ loop' \in {"idle"} \cup (IF "writable" \in interest THEN {"drain"} ELSE {})
    /\ UNCHANGED <<phase, posts, apiVars, writeVars, closed, registered, interest, reopened,
                   started, inCallback>>

IoWritable ==
    /\ loop = "idle" /\ registered /\ "writable" \in interest
    /\ loop' = "drain"
    /\ UNCHANGED <<phase, posts, apiVars, writeVars, closed, registered, interest, reopened,
                   callbackVars>>

-----------------------------------------------------------------------------
(* on the event loop thread: drain_write_queue *)

Draining == loop = "drain" /\ UNCHANGED <<phase, posts, apiVars, accepted, started, inCallback>>

\* A mutant of DrainEmpty: write_registered_ is not reset.
DrainEmptyNoReset ==
    /\ Draining
    /\ chunk = <<>> /\ queue = <<>>
    /\ loop' = "idle"
    /\ reopened' = TRUE
    /\ Modify({"readable"})
    /\ UNCHANGED <<queue, queueBytes, writeRegistered, chunk, wire, closed, registered,
                   submitted>>

\* The critical section with nothing queued: writable interest is dropped.
DrainEmpty ==
    /\ Draining
    /\ chunk = <<>> /\ queue = <<>>
    /\ writeRegistered' = FALSE
    /\ loop' = "idle"
    /\ reopened' = TRUE
    /\ Modify({"readable"})
    /\ UNCHANGED <<queue, queueBytes, chunk, wire, closed, registered, submitted>>

DrainPop ==
    /\ Draining
    /\ chunk = <<>> /\ queue # <<>>
    /\ chunk' = Head(queue)
    /\ queue' = Tail(queue)
    /\ queueBytes' = queueBytes - Len(chunk')
    /\ UNCHANGED <<writeRegistered, wire, ioVars, submitted>>

\* send takes the first n bytes of the chunk.
SendSome(n) ==
    /\ Draining
    /\ n \in 1..Len(chunk)
    /\ wire' = wire \o SubSeq(chunk, 1, n)
    /\ chunk' = SubSeq(chunk, n + 1, Len(chunk))
    /\ UNCHANGED <<queue, queueBytes, writeRegistered, ioVars, submitted>>

\* A mutant of SendWouldBlock: the remainder goes behind what was queued since.
SendWouldBlockBehind ==
    /\ Draining
    /\ chunk # <<>>
    /\ queue' = Append(queue, chunk)
    /\ queueBytes' = queueBytes + Len(chunk)
    /\ chunk' = <<>>
    /\ loop' = "idle"
    /\ UNCHANGED <<writeRegistered, wire, closed, registered, interest, reopened, submitted>>

\* send would block: the remainder goes back to the front of the queue.
SendWouldBlock ==
    /\ Draining
    /\ chunk # <<>>
    /\ queue' = <<chunk>> \o queue
    /\ queueBytes' = queueBytes + Len(chunk)
    /\ chunk' = <<>>
    /\ loop' = "idle"
    /\ UNCHANGED <<writeRegistered, wire, closed, registered, interest, reopened, submitted>>

\* send fails: what the chunk held is dropped.
SendFails ==
    /\ Draining
    /\ chunk # <<>>
    /\ chunk' = <<>>
    /\ loop' = "idle"
    /\ InitiateClose
    /\ UNCHANGED <<queue, queueBytes, writeRegistered, wire>>

-----------------------------------------------------------------------------
(* the callbacks given to serial_ *)

CallbackBegins ==
    /\ ~inCallback /\ started < Len(submitted)
    /\ inCallback' = TRUE
    /\ started' = started + 1
    /\ UNCHANGED <<phase, posts, apiVars, writeVars, ioVars, submitted>>

CallbackEnds ==
    /\ inCallback
    /\ inCallback' = FALSE
    /\ UNCHANGED <<phase, posts, apiVars, writeVars, ioVars, submitted, started>>

-----------------------------------------------------------------------------
UserBegins(u) ==
    \/ \E n \in Sizes : SendBegin(u, n)
    \/ CloseFromUser(u)
    \/ u \in Pausers /\ \E op \in {"pause", "resume"} : FlowBegin(u, op)

UserEnds(u) == SendEnqueue(u) \/ SendRejected(u) \/ FlowPost(u)

PoolStep == BeginOnConnect \/ EndOnConnect \/ CallbackBegins \/ CallbackEnds

RunPosts ==
    RunStartReading \/ RunRegisterWritable \/ RunClose \/ RunPause \/ RunResume

Sends == \E n \in 1..MaxBytes : SendSome(n)

Next ==
    \/ PoolStep
    \/ \E h \in {"data", "close"} : SetHandler(h)
    \/ \E u \in Users : UserBegins(u) \/ UserEnds(u)
    \/ RunPosts
    \/ IoClose \/ IoReadable \/ IoWritable
    \/ DrainEmpty \/ DrainPop \/ Sends \/ SendWouldBlock \/ SendFails

Spec == Init /\ [][Next]_vars

\* Threads are scheduled; the loop serves a socket that is again and again
\* writable, and the peer goes on reading, so that send again and again takes
\* something.
FairSpec ==
    /\ Spec
    /\ WF_vars(PoolStep)
    /\ \A u \in Users : WF_vars(UserEnds(u))
    /\ SF_vars(RunPosts)
    /\ SF_vars(IoWritable)
    /\ WF_vars(DrainEmpty \/ DrainPop)
    /\ SF_vars(Sends)

-----------------------------------------------------------------------------
\* The bytes of a queue of chunks, in order.
Bytes(q) ==
    LET upTo[i \in 0..Len(q)] == IF i = 0 THEN <<>> ELSE upTo[i - 1] \o q[i]
    IN  upTo[Len(q)]

\* While the connection is open, the bytes given to the socket, the rest of
\* the chunk being sent and the queue are, in this order, exactly what send()
\* accepted, and the queue's byte count is right: no partial send, would_block
\* or send from another thread in between loses, repeats or reorders a byte.
\* After a close the peer has got a prefix.
StreamIntact ==
    /\ queueBytes = Len(Bytes(queue))
    /\ wire = [i \in 1..Len(wire) |-> i]
    /\ ~closed => wire \o chunk \o Bytes(queue) = [i \in 1..accepted |-> i]

Pending(post) == \E i \in 1..Len(posts) : posts[i] = post

\* Queued data never waits for nothing: when the loop is between handlers,
\* writable interest is registered, or requested by a post on its way, or the
\* start_reading that looks at the queue is still to come.
NoLostWriteInterest ==
    ~closed /\ queue # <<>> /\ loop = "idle" =>
        \/ "writable" \in interest
        \/ Pending("register_writable")
        \/ Pending("start_reading")
        \/ phase # "done"

\* on_close is given to serial_ at most once and on_data never after it,
\* whatever mix of close(), hangup, end of stream and send errors happens.
CloseIsLast == \A i \in 1..(Len(submitted) - 1) : submitted[i] = "data"

\* on_connect has returned, and every call and every post has been carried out.
Settled == phase = "done" /\ posts = <<>> /\ loop = "idle" /\ \A u \in Users : user[u] = Idle

\* What send() accepted is given to the socket, unless the connection closes,
\* also when it was accepted during on_connect or while reading is paused.
AcceptedIsSent == \A n \in 1..MaxBytes : accepted >= n ~> Len(wire) >= n \/ closed

\* When all is carried out, an open connection is registered for reading exactly
\* when it is not paused ("stop reading (TCP flow control throttles sender)"),
\* wherever sends and their draining were when pause() or resume() was called;
\* unless, after a pause was carried out, start_reading or the write path set the
\* interest again without a look at paused_.
ReadingFollowsPause ==
    Settled /\ ~closed =>
        /\ ~paused => registered /\ "readable" \in interest
        /\ paused /\ ~reopened => "readable" \notin interest
=============================================================================
