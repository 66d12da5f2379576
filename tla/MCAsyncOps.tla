----------------------------- MODULE MCAsyncOps -----------------------------
EXTENDS AsyncOps

MCFds == 1..3
MCJobs == 1..3

\* Every pair that can meet beside another descriptor of the program, a
\* listener at the descriptor limit, and the triple in which a handler closes
\* one descriptor and opens another in a batch.
Pairs ==
    {<<"connect", "defer", "none">>, <<"connect", "repeat", "none">>,
     <<"recv", "connect", "none">>, <<"defer", "repeat", "none">>}
MCScenarios ==
    {[kinds |-> p, others |-> 1] : p \in Pairs}
    \cup {[kinds |-> <<"listen", "repeat", "none">>, others |-> 2]}
    \cup {[kinds |-> <<"defer", "listen", "connect">>, others |-> 0]}
=============================================================================
