-------------------------- MODULE HandleLifecycle ---------------------------
(***************************************************************************)
(* The threads of one high-level handle, stream_impl of src/high/stream.cpp *)
(* or dgram_impl of src/high/dgram.cpp: the owner, who runs do_destroy; the *)
(* event loop thread of EventLoop; and the workers of the pool, here at the *)
(* level of Executor.  The callbacks they execute post to the loop, with or *)
(* without waiting for the result (do_post; do_defer, do_repeat, do_claim,  *)
(* do_relinquish).                                                         *)
(***************************************************************************)
EXTENDS EventLoop

CONSTANTS Owner,         \* the thread that destroys the handle
          Workers,       \* the threads of the pool
          DestroyPosts,  \* what do_destroy posts: stream <<stop>>,
                         \* dgram <<relinquish all, stop>>
          FuturePosts,   \* posts whose caller waits for a future they set
          Backlog        \* how many callbacks the pool is given

ASSUME HandleAssumption ==
    /\ Threads = Workers \cup {Owner}
    /\ Owner \notin Workers
    /\ DestroyPosts \in Seq(Posts)
    /\ Elements(DestroyPosts) \cap FuturePosts = {}
    /\ Backlog \in Nat

VARIABLES owner,     \* where the owner is
          worker,    \* [Workers -> "idle" or "callback"]
          awaiting,  \* [Workers -> the post whose future it waits for, at most one]
          backlog    \* callbacks the pool has still to start

handleVars == <<owner, worker, awaiting, backlog>>
allVars == <<vars, handleVars>>

HandleTypeOK ==
    /\ TypeOK
    /\ owner \in {"live", "destroy", "join", "close", "shutdown", "destroyed"}
    /\ worker \in [Workers -> {"idle", "callback"}]
    /\ awaiting \in [Workers -> SUBSET FuturePosts]
    /\ backlog \in 0..Backlog
    /\ \A w \in Workers : worker[w] = "idle" => awaiting[w] = {} /\ caller[w] = "idle"

HandleInit ==
    /\ Init
    /\ owner = "live"
    /\ worker = [w \in Workers |-> "idle"]
    /\ awaiting = [w \in Workers |-> {}]
    /\ backlog = Backlog

-----------------------------------------------------------------------------
(* the callbacks on the pool *)

StartCallback(w) ==
    /\ worker[w] = "idle" /\ backlog > 0
    /\ worker' = [worker EXCEPT ![w] = "callback"]
    /\ backlog' = backlog - 1
    /\ UNCHANGED <<vars, owner, awaiting>>

\* A callback posts to the loop; for a post of FuturePosts it then blocks in
\* f.get().
CallbackPosts(w, p) ==
    /\ worker[w] = "callback" /\ awaiting[w] = {}
    /\ p \notin Elements(DestroyPosts)
    /\ Post(w, p)
    /\ awaiting' = [awaiting EXCEPT ![w] = {p} \cap FuturePosts]
    /\ UNCHANGED <<owner, worker, backlog>>

\* p->set_value() was called: f.get() returns.
FutureReady(w) ==
    /\ awaiting[w] # {} /\ awaiting[w] \subseteq Elements(executed)
    /\ awaiting' = [awaiting EXCEPT ![w] = {}]
    /\ UNCHANGED <<vars, owner, worker, backlog>>

EndCallback(w) ==
    /\ worker[w] = "callback" /\ awaiting[w] = {} /\ caller[w] = "idle"
    /\ worker' = [worker EXCEPT ![w] = "idle"]
    /\ UNCHANGED <<vars, owner, awaiting, backlog>>

-----------------------------------------------------------------------------
(* do_destroy *)

BeginDestroy ==
    /\ owner = "live"
    /\ owner' = "destroy"
    /\ UNCHANGED <<vars, worker, awaiting, backlog>>

\* The posts, in order.
DestroyPost ==
    /\ owner = "destroy"
    /\ \E i \in 1..Len(DestroyPosts) :
           /\ \A j \in 1..(i - 1) : DestroyPosts[j] \in Elements(posted)
           /\ Post(Owner, DestroyPosts[i])
    /\ UNCHANGED handleVars

\* A mutant of DestroyStop: only the direct stop is called, nothing is posted.
DestroyStopOnly ==
    /\ owner = "destroy"
    /\ Stop(Owner)
    /\ owner' = "join"
    /\ UNCHANGED <<worker, awaiting, backlog>>

\* The direct loop.stop().
DestroyStop ==
    /\ owner = "destroy"
    /\ Elements(DestroyPosts) \subseteq Elements(posted)
    /\ Stop(Owner)
    /\ owner' = "join"
    /\ UNCHANGED <<worker, awaiting, backlog>>

\* background_thread.join() returns.
DestroyJoin ==
    /\ owner = "join" /\ caller[Owner] = "idle"
    /\ loop = "exited"
    /\ owner' = "close"
    /\ UNCHANGED <<vars, worker, awaiting, backlog>>

\* The sockets are closed; pool->shutdown() sets stopped_: callbacks that
\* were not submitted by then are refused.
DestroyClose ==
    /\ owner = "close"
    /\ owner' = "shutdown"
    /\ backlog' \in 0..backlog
    /\ UNCHANGED <<vars, worker, awaiting>>

\* A mutant of DestroyDone: the workers are detached instead of joined.
DestroyDetached ==
    /\ owner = "shutdown"
    /\ backlog = 0
    /\ owner' = "destroyed"
    /\ UNCHANGED <<vars, worker, awaiting, backlog>>

\* pool->shutdown() returns, the workers having drained its queue.
DestroyDone ==
    /\ owner = "shutdown"
    /\ backlog = 0 /\ \A w \in Workers : worker[w] = "idle"
    /\ owner' = "destroyed"
    /\ UNCHANGED <<vars, worker, awaiting, backlog>>

OwnerStep == DestroyPost \/ DestroyStop \/ DestroyJoin \/ DestroyClose \/ DestroyDone

WorkerStep(w) == StartCallback(w) \/ FutureReady(w) \/ EndCallback(w)

HandleNext ==
    \/ (LoopStep \/ PollEvents \/ PollFails \/ \E c \in Callers : Wake(c)) /\ UNCHANGED handleVars
    \/ \E w \in Workers : WorkerStep(w) \/ \E p \in Posts : CallbackPosts(w, p)
    \/ BeginDestroy
    \/ OwnerStep

HandleSpec == HandleInit /\ [][HandleNext]_allVars

\* All threads are scheduled, and callbacks end unless they wait for a future.
HandleFairSpec ==
    /\ HandleSpec
    /\ WF_allVars(LoopStep /\ UNCHANGED handleVars)
    /\ \A c \in Callers : WF_allVars(Wake(c) /\ UNCHANGED handleVars)
    /\ \A w \in Workers : WF_allVars(WorkerStep(w))
    /\ WF_allVars(OwnerStep)

-----------------------------------------------------------------------------
\* When the destructor has returned no thread is left in the handle: the loop
\* is out of run, no callback is in progress and no call of post or stop is
\* half done.
NothingOutlivesHandle ==
    owner = "destroyed" =>
        /\ loop = "exited"
        /\ \A w \in Workers : worker[w] = "idle"
        /\ \A c \in Callers : caller[c] = "idle"

\* From the join on, the loop thread executes nothing: the owner closes the
\* sockets and clears the maps without a lock.
OwnerAloneAfterJoin ==
    owner \in {"close", "shutdown", "destroyed"} => loop = "exited" /\ current = {}

\* The join in do_destroy returns, wherever the loop thread was, before its
\* first iteration included ("avoids a race where loop.stop() is called before
\* run() starts"), and then the destructor, unless a callback blocks in f.get()
\* on a future that the ended loop will not set: nothing else holds up
\* pool->shutdown().
DestroyReturnsOrWaits ==
    /\ owner = "join" ~> owner = "close"
    /\ owner = "destroy" ~> owner = "destroyed" \/ \E w \in Workers : awaiting[w] # {}
=============================================================================
