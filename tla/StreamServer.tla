---------------------------- MODULE StreamServer ----------------------------
(***************************************************************************)
(* The listen mode of stream_impl (src/high/stream.cpp): accepting, the    *)
(* connection map and its count, the on_connect task, the wrapped on_close *)
(* that posts the erasure from the map, pause and resume of the listener,  *)
(* and do_destroy.  A connection is what Connection shows it to be, reduced *)
(* to being open, registered and closed.  The loop executes its posts in   *)
(* order (EventLoop).  The kernel gives a descriptor out again as soon as  *)
(* its socket is closed.                                                   *)
(***************************************************************************)
EXTENDS Naturals, Sequences, FiniteSets

CONSTANTS Conns,         \* bound: the connections that clients make
          NoConn,
          Fds,           \* bound: descriptors for accepted sockets
          MaxConn,       \* max_conn, 0 for no limit
          Callers,       \* threads that call on_connect, pause or resume, once each
          MaxArrivals,   \* bound: connections and those calls, in all
          MaxReplaced    \* bound: connections whose wrapped on_close_ is replaced

ASSUME ServerAssumption ==
    /\ NoConn \notin Conns /\ IsFiniteSet(Conns)
    /\ {MaxConn, MaxArrivals, MaxReplaced} \subseteq Nat

VARIABLES listener,      \* the listening socket is open
          accepting,     \* it is registered with the dispatcher
          listenPaused,  \* listen_paused
          armed,         \* armed, and whether on_connect_cb holds a handler
          call,          \* [Callers -> the call it is in]
          map,           \* [Fds -> Conns or NoConn], connections
          count,         \* connection_count
          fd,            \* [Conns -> its descriptor, at most one, kept after close]
          sock,          \* [Conns -> state of the socket]
          registered,    \* connections in the dispatcher
          task,          \* [Conns -> state of its on_connect task in the pool]
          handler,       \* [Conns -> what on_close_ holds]
          onClose,       \* [Conns -> state of its on_close callback]
          early,         \* history: closed with on_close_ empty
          unerased,      \* history: closed with no erasure posted, then or later
          posts,         \* the posts of the loop
          owner          \* where the owner of the stream is

listenVars == <<listener, accepting, listenPaused, armed, call>>
mapVars == <<map, count>>
connVars == <<fd, sock, registered, task, handler, onClose, early, unerased>>
vars == <<listenVars, mapVars, connVars, posts, owner>>

Post(op, arg) == [op |-> op, arg |-> arg]

Open == {c \in Conns : sock[c] = "open"}
Mapped == {map[f] : f \in Fds} \ {NoConn}

Init ==
    /\ listener = TRUE
    /\ accepting = FALSE
    /\ listenPaused = FALSE
    /\ armed = "no"
    /\ call = [t \in Callers |-> "none"]
    /\ map = [f \in Fds |-> NoConn]
    /\ count = 0
    /\ fd = [c \in Conns |-> {}]
    /\ sock = [c \in Conns |-> "none"]
    /\ registered = {}
    /\ task = [c \in Conns |-> "none"]
    /\ handler = [c \in Conns |-> "none"]
    /\ onClose = [c \in Conns |-> "none"]
    /\ early = {}
    /\ unerased = {}
    /\ posts = <<>>
    /\ owner = "live"

-----------------------------------------------------------------------------
(* on_connect, pause and resume: a flag is set, then the loop is given a post *)

Arrivals ==
    Cardinality({c \in Conns : sock[c] # "none"}) + Cardinality({t \in Callers : call[t] # "none"})

BeginCall(t, op) ==
    /\ owner = "live" /\ call[t] = "none"
    /\ Arrivals < MaxArrivals
    /\ call' = [call EXCEPT ![t] = op]
    /\ UNCHANGED <<listener, accepting, mapVars, connVars, posts, owner>>

\* The exchange lets one call through.
ArmListen(t) ==
    /\ BeginCall(t, "arm")
    /\ armed = "no"
    /\ armed' \in {"handler", "empty"}
    /\ UNCHANGED listenPaused

DoPause(t) ==
    /\ BeginCall(t, "pause")
    /\ armed # "no"
    /\ listenPaused' = TRUE
    /\ UNCHANGED armed

DoResume(t) ==
    /\ BeginCall(t, "resume")
    /\ armed # "no"
    /\ listenPaused' = FALSE
    /\ UNCHANGED armed

EndCall(t) ==
    /\ call[t] \in {"arm", "pause", "resume"}
    /\ call' = [call EXCEPT ![t] = "done"]
    /\ posts' = Append(posts, Post(IF call[t] = "pause" THEN "stop_listening"
                                                        ELSE "accept_loop", {}))
    /\ UNCHANGED <<listener, accepting, listenPaused, armed, mapVars, connVars, owner>>

-----------------------------------------------------------------------------
(* the loop thread: initiate_close of a set of connections *)

Close(cs) ==
    LET closing == cs \cap Open
        reported == {c \in closing : handler[c] # "none"}
    IN
    /\ sock' = [c \in Conns |-> IF c \in closing THEN "closed" ELSE sock[c]]
    /\ registered' = registered \ closing
    /\ onClose' = [c \in Conns |-> IF c \in reported THEN "submitted" ELSE onClose[c]]
    /\ early' = early \cup (closing \ reported)
    /\ unerased' = unerased \cup (closing \ reported)

-----------------------------------------------------------------------------
(* the loop thread: the handler given to accept_loop *)

LoopRuns == owner \in {"live", "stopping"}

FreeFds == Fds \ UNION {fd[c] : c \in Open}

Limit == MaxConn > 0 /\ Cardinality(Mapped) >= MaxConn

\* max_conn is reached: the accepted socket is closed at once.
AcceptRefused(c) ==
    /\ LoopRuns /\ accepting /\ sock[c] = "none" /\ FreeFds # {}
    /\ Arrivals < MaxArrivals
    /\ Limit
    /\ sock' = [sock EXCEPT ![c] = "closed"]
    /\ UNCHANGED <<listenVars, mapVars, fd, registered, task, handler, onClose, early,
                   unerased, posts, owner>>

\* The connection is entered in the map.  With on_connect_cb its task goes to
\* the pool; without, on_close_ is set and reading starts from here.
Accept(c, f) ==
    /\ LoopRuns /\ accepting /\ sock[c] = "none" /\ f \in FreeFds
    /\ Arrivals < MaxArrivals
    /\ ~Limit
    /\ sock' = [sock EXCEPT ![c] = "open"]
    /\ fd' = [fd EXCEPT ![c] = {f}]
    /\ map' = [map EXCEPT ![f] = c]
    /\ count' = count + 1
    /\ \/ /\ armed = "handler"
          /\ task' = [task EXCEPT ![c] = "queued"]
          /\ UNCHANGED <<handler, posts>>
       \/ /\ armed = "empty"
          /\ handler' = [handler EXCEPT ![c] = "wrapped"]
          /\ posts' = Append(posts, Post("start_reading", {c}))
          /\ UNCHANGED task
    /\ UNCHANGED <<listenVars, registered, onClose, early, unerased, owner>>

-----------------------------------------------------------------------------
(* the pool: the on_connect task *)

PoolRuns == owner # "destroyed"

BeginOnConnect(c) ==
    /\ PoolRuns /\ task[c] = "queued"
    /\ task' = [task EXCEPT ![c] = "running"]
    /\ UNCHANGED <<listenVars, mapVars, fd, sock, registered, handler, onClose, early,
                   unerased, posts, owner>>

Replaced == {c \in Conns : task[c] = "done" /\ handler[c] = "user"}

\* conn.on_close(handler), inside on_connect or at any time after it, when the
\* handler takes the place of the wrapper.
SetOnClose(c) ==
    /\ PoolRuns
    /\ \/ task[c] = "running"
       \/ task[c] = "done" /\ Cardinality(Replaced) < MaxReplaced
    /\ handler' = [handler EXCEPT ![c] = "user"]
    /\ UNCHANGED <<listenVars, mapVars, fd, sock, registered, task, onClose, early, unerased,
                   posts, owner>>

\* on_connect_cb returns, on_close_ is wrapped, start_reading posts.
EndOnConnect(c) ==
    /\ task[c] = "running"
    /\ task' = [task EXCEPT ![c] = "done"]
    /\ handler' = [handler EXCEPT ![c] = "wrapped"]
    /\ posts' = Append(posts, Post("start_reading", {c}))
    /\ UNCHANGED <<listenVars, mapVars, fd, sock, registered, onClose, early, unerased, owner>>

\* close() on an open connection, from inside on_connect or later.
UserClose(c) ==
    /\ PoolRuns /\ sock[c] = "open"
    /\ task[c] \in {"running", "done"}
    /\ \A i \in 1..Len(posts) : posts[i] # Post("close", {c})
    /\ posts' = Append(posts, Post("close", {c}))
    /\ UNCHANGED <<listenVars, mapVars, connVars, owner>>

-----------------------------------------------------------------------------
(* the pool: the on_close callback *)

\* A mutant of BeginOnClose: on_close_ was wrapped twice.
BeginOnCloseTwice(c) ==
    /\ PoolRuns /\ onClose[c] = "submitted"
    /\ onClose' = [onClose EXCEPT ![c] = "running"]
    /\ posts' = posts \o <<Post("erase", fd[c]), Post("erase", fd[c])>>
    /\ UNCHANGED unerased
    /\ UNCHANGED <<listenVars, mapVars, fd, sock, registered, task, handler, early, owner>>

\* The wrapper posts the erasure, then calls what the user had set; on_close_
\* is read when the callback starts.
BeginOnClose(c) ==
    /\ PoolRuns /\ onClose[c] = "submitted"
    /\ onClose' = [onClose EXCEPT ![c] = "running"]
    /\ IF handler[c] = "wrapped"
       THEN posts' = Append(posts, Post("erase", fd[c])) /\ UNCHANGED unerased
       ELSE unerased' = unerased \cup {c} /\ UNCHANGED posts
    /\ UNCHANGED <<listenVars, mapVars, fd, sock, registered, task, handler, early, owner>>

EndOnClose(c) ==
    /\ onClose[c] = "running"
    /\ onClose' = [onClose EXCEPT ![c] = "done"]
    /\ UNCHANGED <<listenVars, mapVars, fd, sock, registered, task, handler, early, unerased,
                   posts, owner>>

-----------------------------------------------------------------------------
(* the loop thread: posts and events *)

RunPost(op, arg) ==
    /\ LoopRuns
    /\ posts # <<>> /\ Head(posts) = Post(op, arg)
    /\ posts' = Tail(posts)
    /\ UNCHANGED owner

\* accept_loop registers the listening socket; on a closed one that fails.
RunAcceptLoop ==
    /\ RunPost("accept_loop", {})
    /\ accepting' = listener
    /\ UNCHANGED <<listener, listenPaused, armed, call, mapVars, connVars>>

\* tcp_listener::stop closes the listening socket.
RunStopListening ==
    /\ RunPost("stop_listening", {})
    /\ listener' = FALSE
    /\ accepting' = FALSE
    /\ UNCHANGED <<listenPaused, armed, call, mapVars, connVars>>

RunStartReading(c) ==
    /\ RunPost("start_reading", {c})
    /\ registered' = registered \cup ({c} \cap Open)
    /\ UNCHANGED <<listenVars, mapVars, fd, sock, task, handler, onClose, early, unerased>>

RunClose(c) ==
    /\ RunPost("close", {c})
    /\ Close({c})
    /\ UNCHANGED <<listenVars, mapVars, fd, task, handler>>

\* A mutant of RunErase: the count follows the map, as if every erasure found
\* its own connection there.
RunEraseIfMapped(f) ==
    /\ RunPost("erase", {f})
    /\ map' = [map EXCEPT ![f] = NoConn]
    /\ count' = IF map[f] = NoConn THEN count ELSE count - 1
    /\ UNCHANGED <<listenVars, connVars>>

\* The post erases whatever connection the map has under the descriptor.
RunErase(f) ==
    /\ RunPost("erase", {f})
    /\ map' = [map EXCEPT ![f] = NoConn]
    /\ count' = count - 1
    /\ UNCHANGED <<listenVars, connVars>>

\* A hangup, an error, the end of the stream or a failed send.
IoClose(c) ==
    /\ LoopRuns /\ c \in registered
    /\ Close({c})
    /\ UNCHANGED <<listenVars, mapVars, fd, task, handler, posts, owner>>

-----------------------------------------------------------------------------
(* do_destroy *)

DestroyBegin ==
    /\ owner = "live"
    /\ \A t \in Callers : call[t] \in {"none", "done"}
    /\ owner' = "stopping"
    /\ listener' = FALSE
    /\ accepting' = FALSE
    /\ UNCHANGED <<listenPaused, armed, call, mapVars, connVars, posts>>

\* run() returns, with or without the posts that are left, and is joined.
LoopExits ==
    /\ owner = "stopping"
    /\ owner' = "joined"
    /\ UNCHANGED <<listenVars, mapVars, connVars, posts>>

DestroyClose ==
    /\ owner = "joined"
    /\ Close(Mapped)
    /\ map' = [f \in Fds |-> NoConn]
    /\ count' = 0
    /\ owner' = "shutdown"
    /\ UNCHANGED <<listenVars, fd, task, handler, posts>>

CallbacksDone ==
    \A c \in Conns : task[c] \in {"none", "done"} /\ onClose[c] \in {"none", "done"}

\* A mutant of DestroyDone: the pool is dropped with tasks in it.
DestroyDoneAtOnce ==
    /\ owner = "shutdown"
    /\ \A c \in Conns : task[c] # "running" /\ onClose[c] # "running"
    /\ owner' = "destroyed"
    /\ UNCHANGED <<listenVars, mapVars, connVars, posts>>

\* pool->shutdown returns when every task has run.
DestroyDone ==
    /\ owner = "shutdown"
    /\ CallbacksDone
    /\ owner' = "destroyed"
    /\ UNCHANGED <<listenVars, mapVars, connVars, posts>>

-----------------------------------------------------------------------------

LoopStep ==
    \/ RunAcceptLoop \/ RunStopListening
    \/ \E c \in Conns : RunStartReading(c) \/ RunClose(c)
    \/ \E f \in Fds : RunErase(f)

PoolStep(c) ==
    BeginOnConnect(c) \/ EndOnConnect(c) \/ BeginOnClose(c) \/ EndOnClose(c)

Next ==
    \/ \E t \in Callers : ArmListen(t) \/ DoPause(t) \/ DoResume(t) \/ EndCall(t)
    \/ \E c \in Conns, f \in Fds : Accept(c, f)
    \/ \E c \in Conns :
          AcceptRefused(c) \/ SetOnClose(c) \/ UserClose(c) \/ IoClose(c) \/ PoolStep(c)
    \/ LoopStep
    \/ DestroyBegin \/ LoopExits \/ DestroyClose \/ DestroyDone

Spec == Init /\ [][Next]_vars

-----------------------------------------------------------------------------
(* Properties *)

\* connection_count is never below the number of accepted connections that
\* are open: no erasure is counted twice, or before its connection closed.
CountCoversOpen ==
    owner \in {"live", "stopping"} => count >= Cardinality(Open)

Settled == owner = "live" /\ posts = <<>> /\ CallbacksDone

\* Once the posts and callbacks have run, connection_count is the number of
\* open connections ("current active connections", README.md:260) and the map
\* holds no closed one, although a descriptor may have been reused before its
\* old connection was erased; but a connection that closes before its on_close_
\* is wrapped, as by close() in on_connect, or whose on_close() was called after
\* that, is counted for ever and may stay in the map.
BooksSettle ==
    Settled => /\ count = Cardinality(Open) + Cardinality(unerased)
               /\ Mapped \subseteq Open \cup unerased

\* Once the posts are executed and no call is in progress, an armed listener
\* accepts unless listen_paused is set: "server.resume(); // resume accepting"
\* (README.md:263).
ResumeAccepts ==
    Settled /\ (\A t \in Callers : call[t] \in {"none", "done"}) =>
        (armed # "no" /\ ~listenPaused => accepting)

\* When the stream is destroyed, on_close has run to its end for every
\* connection that closed with a handler: shutdown drains the pool after
\* do_destroy closed what the map held.
CloseReported ==
    owner = "destroyed" =>
        \A c \in Conns : sock[c] = "closed" /\ fd[c] # {} /\ c \notin early
                            => onClose[c] = "done"

\* max_connections is the "Max concurrent connections" (stream.hpp:81).
MaxConnections == MaxConn > 0 => Cardinality(Open) <= MaxConn
=============================================================================
