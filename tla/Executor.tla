------------------------------ MODULE Executor ------------------------------
(***************************************************************************)
(* What a thread pool promises to those who hand it work, with its locks   *)
(* and its condition variable left out: accepted tasks are started in the  *)
(* order of acceptance, each once, and a pool that has shut down has       *)
(* finished everything it accepted.                                        *)
(***************************************************************************)
EXTENDS Naturals, Sequences

CONSTANTS Tasks,    \* the callables that may be handed in, each at most once
          Slots     \* how many may execute at a time is |Slots|

VARIABLES backlog,  \* accepted and not yet started, in order of acceptance
          active,   \* [Slots -> set of at most one task being executed]
          finished, \* tasks whose execution is over
          refusing, \* no more work is accepted
          closed    \* the shutdown has returned

absVars == <<backlog, active, finished, refusing, closed>>

Init ==
    /\ backlog = <<>>
    /\ active = [s \in Slots |-> {}]
    /\ finished = {}
    /\ refusing = FALSE
    /\ closed = FALSE

Accept(t) ==
    /\ ~refusing
    /\ backlog' = Append(backlog, t)
    /\ UNCHANGED <<active, finished, refusing, closed>>

Start(s) ==
    /\ active[s] = {}
    /\ backlog # <<>>
    /\ active' = [active EXCEPT ![s] = {Head(backlog)}]
    /\ backlog' = Tail(backlog)
    /\ UNCHANGED <<finished, refusing, closed>>

Finish(s) ==
    /\ active[s] # {}
    /\ finished' = finished \cup active[s]
    /\ active' = [active EXCEPT ![s] = {}]
    /\ UNCHANGED <<backlog, refusing, closed>>

Refuse ==
    /\ refusing' = TRUE
    /\ UNCHANGED <<backlog, active, finished, closed>>

Close ==
    /\ refusing
    /\ backlog = <<>>
    /\ \A s \in Slots : active[s] = {}
    /\ closed' = TRUE
    /\ UNCHANGED <<backlog, active, finished, refusing>>

Next ==
    \/ \E t \in Tasks : Accept(t)
    \/ \E s \in Slots : Start(s) \/ Finish(s)
    \/ Refuse
    \/ Close

Spec == Init /\ [][Next]_absVars
=============================================================================
