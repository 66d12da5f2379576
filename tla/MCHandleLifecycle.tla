------------------------- MODULE MCHandleLifecycle --------------------------
(***************************************************************************)
(* EventLoop on its own, with threads that post and stop as they like, and *)
(* the loop inside a handle, on small instances.  The posts of do_destroy  *)
(* are those of dgram, of which stream's are the last one.                 *)
(***************************************************************************)
EXTENDS HandleLifecycle

CONSTANTS relinquish, stop

DgramDestroyPosts == <<relinquish, stop>>

VARIABLE alone   \* the loop is on its own

mcVars == <<allVars, alone>>

MCInit == HandleInit /\ alone \in BOOLEAN

\* Bounds of the loop on its own: two threads and three posts.
FewCalls == caller'[Owner] = "idle" /\ Elements(posted') \cap FuturePosts = {}

MCNext ==
    /\ \/ alone /\ Next /\ FewCalls /\ UNCHANGED handleVars
       \/ ~alone /\ HandleNext
    /\ UNCHANGED alone

\* The fairness of FairSpec and, inside a handle, that of HandleFairSpec.
MCSpec ==
    /\ MCInit /\ [][MCNext]_mcVars
    /\ WF_mcVars(LoopStep /\ UNCHANGED <<handleVars, alone>>)
    /\ \A c \in Callers : WF_mcVars(Wake(c) /\ UNCHANGED <<handleVars, alone>>)
    /\ \A w \in Workers : WF_mcVars(~alone /\ WorkerStep(w) /\ UNCHANGED alone)
    /\ WF_mcVars(~alone /\ OwnerStep /\ UNCHANGED alone)
=============================================================================
