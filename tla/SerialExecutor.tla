--------------------------- MODULE SerialExecutor ---------------------------
(***************************************************************************)
(* What a serial_queue promises for each handle: its callbacks execute one *)
(* at a time, in the order they were submitted, none twice.                *)
(***************************************************************************)
EXTENDS Sequences

CONSTANTS Queues, Tasks

VARIABLES inbox,    \* [Queues -> Seq(Tasks)], submitted and not yet started
          current   \* [Queues -> the callback executing, as a set of at most one]

absVars == <<inbox, current>>

Init ==
    /\ inbox = [q \in Queues |-> <<>>]
    /\ current = [q \in Queues |-> {}]

Enqueue(q, t) ==
    /\ inbox' = [inbox EXCEPT ![q] = Append(@, t)]
    /\ UNCHANGED current

Begin(q) ==
    /\ current[q] = {}
    /\ inbox[q] # <<>>
    /\ current' = [current EXCEPT ![q] = {Head(inbox[q])}]
    /\ inbox' = [inbox EXCEPT ![q] = Tail(@)]

End(q) ==
    /\ current[q] # {}
    /\ current' = [current EXCEPT ![q] = {}]
    /\ UNCHANGED inbox

Next ==
    \E q \in Queues :
        \/ \E t \in Tasks : Enqueue(q, t)
        \/ Begin(q)
        \/ End(q)

Spec == Init /\ [][Next]_absVars
=============================================================================
